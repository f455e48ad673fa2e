-------------------------- MODULE WorkspacesProofs ---------------------------
(***************************************************************************)
(* What the workspace manager never does, for every number of workspaces,  *)
(* paths, Attempts and managers: a worktree with changes that nobody has   *)
(* committed is deleted by no rollback, no failing hook and no removal     *)
(* that was not told to discard it; a workspace is given to one Attempt at *)
(* a time; the worktree of an Attempt stays where it is; whatever hooks    *)
(* and people write while an operation is between two of its checks.       *)
(***************************************************************************)
EXTENDS Workspaces, TLAPS

Registry == [byId : [Ids -> Reference \cup {None}], byPath : [Paths -> Ids \cup {None}]]

Operation ==
  [manager : Managers,
   kind : {"prepare", "recover", "finish", "remove"},
   step : {"add", "register", "afterCreate", "take", "beforeRun", "adopt", "afterRun", "beforeRemove", "return"},
   ref : Reference, for : Attempts \cup {None}, created : BOOLEAN, discard : BOOLEAN]

\* The types of the state that the steps rely on.
Typed ==
  /\ disk \in [Paths -> Worktree \cup {None}]
  /\ branches \in [Ids -> Nat \cup {None}]
  /\ registry \in [Managers -> Registry]
  /\ ops \in Seq(Operation)
  /\ at \in [Ids -> Managers \cup {None}]
  /\ held \in [Ids -> Attempts \cup {None}]
  /\ known \in [Ids -> Reference \cup {None}]
  /\ edits \in Nat

-----------------------------------------------------------------------------
(* Helpers *)

\* An operation that ends leaves the others.
LEMMA RemoveAtType ==
  ASSUME NEW S, NEW s \in Seq(S), NEW i \in 1..Len(s)
  PROVE  RemoveAt(s, i) \in Seq(S)
<1>1. SubSeq(s, 1, i - 1) \in Seq(S) /\ SubSeq(s, i + 1, Len(s)) \in Seq(S)
  OBVIOUS
<1> QED
  BY <1>1 DEF RemoveAt

\* Every workspace has a path.
LEMMA PathType == ASSUME NEW id \in Ids PROVE Path[id] \in Paths
  BY DEF Paths

\* An operation under way, and the registry of its manager.
LEMMA OpType ==
  ASSUME Typed, NEW i \in 1..Len(ops)
  PROVE  /\ ops[i] \in Operation /\ Reg(i) \in Registry
         /\ ops[i].manager \in Managers /\ ops[i].ref \in Reference /\ ops[i].ref.id \in Ids
         /\ ops[i].for \in Attempts \cup {None}
<1>1. ops[i] \in Operation
  BY DEF Typed
<1>2. ops[i].manager \in Managers /\ ops[i].ref \in Reference /\ ops[i].for \in Attempts \cup {None}
  BY <1>1 DEF Operation
<1>3. ops[i].ref.id \in Ids
  BY <1>2 DEF Reference
<1>4. Reg(i) \in Registry
  BY <1>2 DEF Reg, Typed
<1> QED
  BY <1>1, <1>2, <1>3, <1>4

\* What is written to a registry keeps its type.
LEMMA RegistryType ==
  ASSUME NEW reg \in Registry, NEW ref \in Reference
  PROVE  Update(reg, ref) \in Registry /\ Register(reg, ref) \in Registry /\ Unregister(reg, ref) \in Registry
<1>1. ref.id \in Ids /\ Path[ref.id] \in Paths
  BY PathType DEF Reference
<1>2. PICK b \in [Ids -> Reference \cup {None}], q \in [Paths -> Ids \cup {None}] : reg = [byId |-> b, byPath |-> q]
  BY DEF Registry
<1>3. Update(reg, ref) = [byId |-> [b EXCEPT ![ref.id] = ref], byPath |-> q]
  BY <1>2 DEF Update
<1>4. Register(reg, ref) = [byId |-> [b EXCEPT ![ref.id] = ref], byPath |-> [q EXCEPT ![Path[ref.id]] = ref.id]]
  BY <1>3 DEF Register
<1>5. Unregister(reg, ref) =
        [byId |-> [b EXCEPT ![ref.id] = None],
         byPath |-> [q EXCEPT ![Path[ref.id]] = IF @ = ref.id THEN None ELSE @]]
  BY <1>2 DEF Unregister
<1>6. /\ [b EXCEPT ![ref.id] = ref] \in [Ids -> Reference \cup {None}]
      /\ [b EXCEPT ![ref.id] = None] \in [Ids -> Reference \cup {None}]
      /\ [q EXCEPT ![Path[ref.id]] = ref.id] \in [Paths -> Ids \cup {None}]
      /\ [q EXCEPT ![Path[ref.id]] = IF @ = ref.id THEN None ELSE @] \in [Paths -> Ids \cup {None}]
  BY <1>1
<1> QED
  BY <1>3, <1>4, <1>5, <1>6 DEF Registry

LEMMA EmptyRegistryType == EmptyRegistry \in Registry
  BY DEF EmptyRegistry, Registry

\* A registry that is replaced by another one.
LEMMA SetRegType ==
  ASSUME Typed, NEW i \in 1..Len(ops), NEW reg \in Registry, SetReg(i, reg)
  PROVE  registry' \in [Managers -> Registry]
  BY OpType DEF SetReg, Typed

\* An operation goes on, or throws.
LEMMA GoesType ==
  ASSUME Typed, NEW i \in 1..Len(ops), NEW op \in Operation, Goes(i, op)
  PROVE  ops' \in Seq(Operation)
  BY DEF Goes, Typed

LEMMA ThrowsType ==
  ASSUME Typed, NEW i \in 1..Len(ops), Throws(i)
  PROVE  ops' \in Seq(Operation)
  BY RemoveAtType DEF Throws, Typed

\* A record of an operation with another step, another reference, or made by it.
LEMMA ChangedType ==
  ASSUME NEW op \in Operation, NEW ref \in Reference,
         NEW s \in {"add", "register", "afterCreate", "take", "beforeRun", "adopt", "afterRun", "beforeRemove", "return"}
  PROVE  /\ [op EXCEPT !.step = s] \in Operation
         /\ [op EXCEPT !.step = s, !.ref = ref] \in Operation
         /\ [op EXCEPT !.step = s, !.created = TRUE, !.ref = ref] \in Operation
  BY DEF Operation

\* The trees of worktrees and references.
LEMMA TreeType ==
  ASSUME Typed, NEW ref \in Reference
  PROVE  /\ IsReady(ref) => TreeAt(ref) \in Nat
         /\ RetainObserved(ref) \in Reference
<1>1. ref.id \in Ids /\ Path[ref.id] \in Paths /\ ref.tree \in Nat \cup {None}
  BY PathType DEF Reference
<1>2. IsReady(ref) => TreeAt(ref) \in Nat
  <2> SUFFICES ASSUME IsReady(ref) PROVE TreeAt(ref) \in Nat
    OBVIOUS
  <2>1. disk[Path[ref.id]] \in Worktree
    BY <1>1 DEF IsReady, Typed
  <2> QED
    BY <2>1 DEF TreeAt, Worktree
<1>3. RetainObserved(ref) \in Reference
  BY <1>1, <1>2 DEF RetainObserved, Ref, Reference
<1> QED
  BY <1>2, <1>3

LEMMA AddedType ==
  ASSUME Typed, NEW id \in Ids
  PROVE  Added(id) \in Worktree /\ Added(id).tree \in Nat
<1>1. branches[id] \in Nat \cup {None}
  BY DEF Typed
<1>2. (IF branches[id] = None THEN 0 ELSE branches[id]) \in Nat
  BY <1>1
<1> QED
  BY <1>2 DEF Added, Worktree

-----------------------------------------------------------------------------
(* Types *)

\* A step of an operation that leaves what it does not name.
LEMMA CallType ==
  ASSUME Typed, NEW m \in Managers, NEW kind \in {"prepare", "recover", "finish", "remove"},
         NEW s \in {"add", "take", "adopt"}, NEW ref \in Reference, NEW a \in Attempts \cup {None},
         NEW discard \in BOOLEAN, Call(m, kind, s, ref, a, discard)
  PROVE  Typed'
<1> DEFINE op == [manager |-> m, kind |-> kind, step |-> s, ref |-> ref, for |-> a,
                  created |-> FALSE, discard |-> discard]
<1>1. op \in Operation
  BY DEF Operation
<1>2. /\ ops' = Append(ops, op) /\ at' = [at EXCEPT ![ref.id] = m]
      /\ UNCHANGED <<git, registry, known, held, edits, renewals>>
  BY DEF Call
<1> HIDE DEF op
<1>3. ops' \in Seq(Operation)
  BY <1>1, <1>2 DEF Typed
<1>4. at' \in [Ids -> Managers \cup {None}]
  BY <1>2 DEF Typed
<1> QED
  BY <1>2, <1>3, <1>4 DEF Typed, git

\* The calls.
LEMMA CallsType ==
  ASSUME Typed, NEW m \in Managers, NEW id \in Ids,
         \/ \E a \in Attempts : Prepare(m, id, a) \/ Recover(m, id, a)
         \/ Finish(m, id)
         \/ \E discard \in BOOLEAN : RemoveWorkspace(m, id, discard)
  PROVE  Typed'
<1>1. ASSUME NEW a \in Attempts, Prepare(m, id, a) PROVE Typed'
  <2>1. Ref(id, None, "ready", a) \in Reference
    BY DEF Ref, Reference
  <2> QED
    BY <1>1, <2>1, CallType DEF Prepare
<1>2. known[id] # None => known[id] \in Reference
  BY DEF Typed
<1>3. ASSUME NEW a \in Attempts, Recover(m, id, a) PROVE Typed'
  BY <1>2, <1>3, CallType DEF Recover
<1>4. CASE Finish(m, id)
  BY <1>2, <1>4, CallType DEF Finish
<1>5. ASSUME NEW discard \in BOOLEAN, RemoveWorkspace(m, id, discard) PROVE Typed'
  BY <1>2, <1>5, CallType DEF RemoveWorkspace
<1> QED
  BY <1>1, <1>3, <1>4, <1>5

LEMMA AddWorktreeType ==
  ASSUME Typed, NEW i \in 1..Len(ops), AddWorktree(i)
  PROVE  Typed'
<1>1. PICK op \in Operation : op = ops[i]
  BY OpType
<1>2. PICK ref \in Reference : ref = op.ref
  BY <1>1, OpType
<1>3. PICK id \in Ids : id = ref.id
  BY <1>2 DEF Reference
<1>4. PICK before \in Reference \cup {None} : before = Reg(i).byId[id]
  BY <1>3, OpType DEF Registry
<1>5. PICK tree \in Nat \cup {None} : tree = IF before = None THEN None ELSE before.tree
  BY <1>4 DEF Reference
<1>6. PICK expected \in Reference : expected = [ref EXCEPT !.tree = tree]
  BY <1>5 DEF Reference
<1>7. [expected EXCEPT !.tree = Added(id).tree] \in Reference
  BY AddedType DEF Reference
<1>8. Path[id] \in Paths /\ Added(id) \in Worktree /\ Added(id).tree \in Nat
  BY PathType, AddedType
<1>9. UNCHANGED <<registry, at, known, held, bounds>>
  BY DEF AddWorktree
<1>10. \/ /\ Goes(i, [op EXCEPT !.step = "register", !.ref = expected]) \/ Throws(i)
          /\ UNCHANGED git
       \/ /\ disk' = [disk EXCEPT ![Path[id]] = Added(id)]
          /\ branches' = [branches EXCEPT ![id] = Added(id).tree]
          /\ Goes(i, [op EXCEPT !.step = "register", !.created = TRUE,
                        !.ref = [expected EXCEPT !.tree = Added(id).tree]])
  BY <1>1, <1>2, <1>3, <1>4, <1>5, <1>6, Zenon DEF AddWorktree
<1>11. ops' \in Seq(Operation)
  BY <1>7, <1>10, ChangedType, GoesType, ThrowsType
<1>12. disk' \in [Paths -> Worktree \cup {None}] /\ branches' \in [Ids -> Nat \cup {None}]
  BY <1>8, <1>10 DEF git, Typed
<1> QED
  BY <1>9, <1>11, <1>12 DEF Typed, bounds

LEMMA RegisterPreparedType ==
  ASSUME Typed, NEW i \in 1..Len(ops), RegisterPrepared(i)
  PROVE  Typed'
<1>1. PICK op \in Operation : op = ops[i]
  BY OpType
<1>2. PICK ref \in Reference : ref = op.ref
  BY <1>1, OpType
<1>3. PICK s \in {"afterCreate", "beforeRun"} : s = IF op.created THEN "afterCreate" ELSE "beforeRun"
  OBVIOUS
<1>4. UNCHANGED <<branches, at, known, held, bounds>>
  BY DEF RegisterPrepared
<1>5. \/ /\ SetReg(i, Register(Reg(i), ref)) /\ UNCHANGED disk
         /\ Goes(i, [op EXCEPT !.step = s])
      \/ /\ Throws(i) /\ UNCHANGED registry
         /\ UNCHANGED disk \/ disk' = [disk EXCEPT ![Path[ref.id]] = None]
  BY <1>1, <1>2, <1>3 DEF RegisterPrepared, RolledBack
<1>6. Reg(i) \in Registry /\ Path[ref.id] \in Paths
  BY OpType, PathType DEF Reference
<1>7. registry' \in [Managers -> Registry]
  BY <1>5, <1>6, RegistryType, SetRegType DEF Typed
<1>8. [op EXCEPT !.step = s] \in Operation
  BY ChangedType
<1>9. ops' \in Seq(Operation)
  BY <1>5, <1>8, GoesType, ThrowsType
<1>10. disk' \in [Paths -> Worktree \cup {None}]
  BY <1>5, <1>6 DEF Typed
<1> QED
  BY <1>4, <1>7, <1>9, <1>10 DEF Typed, bounds

LEMMA AfterCreateType ==
  ASSUME Typed, NEW i \in 1..Len(ops), AfterCreate(i) \/ AfterCreateFails(i)
  PROVE  Typed'
<1>1. PICK op \in Operation : op = ops[i]
  BY OpType
<1>2. PICK ref \in Reference : ref = op.ref
  BY <1>1, OpType
<1>3. CASE AfterCreate(i)
  <2>1. Goes(i, [op EXCEPT !.step = "beforeRun"]) /\ UNCHANGED <<git, registry, at, known, held, bounds>>
    BY <1>1, <1>3 DEF AfterCreate
  <2>2. ops' \in Seq(Operation)
    BY <2>1, ChangedType, GoesType
  <2> QED
    BY <2>1, <2>2 DEF Typed, git, bounds
<1>4. CASE AfterCreateFails(i)
  <2>1. /\ \/ UNCHANGED disk /\ SetReg(i, Update(Reg(i), RetainObserved(ref)))
           \/ disk' = [disk EXCEPT ![Path[ref.id]] = None] /\ SetReg(i, Unregister(Reg(i), ref))
        /\ Throws(i) /\ UNCHANGED <<branches, at, known, held, bounds>>
    BY <1>1, <1>2, <1>4 DEF AfterCreateFails, RolledBack
  <2>2. Reg(i) \in Registry /\ Path[ref.id] \in Paths /\ RetainObserved(ref) \in Reference
    BY OpType, PathType, TreeType DEF Reference
  <2>3. registry' \in [Managers -> Registry]
    BY <2>1, <2>2, RegistryType, SetRegType
  <2>4. disk' \in [Paths -> Worktree \cup {None}]
    BY <2>1, <2>2 DEF Typed
  <2> QED
    BY <2>1, <2>3, <2>4, ThrowsType DEF Typed, bounds
<1> QED
  BY <1>3, <1>4

LEMMA TakeType ==
  ASSUME Typed, NEW i \in 1..Len(ops), Take(i)
  PROVE  Typed'
<1>1. PICK op \in Operation : op = ops[i]
  BY OpType
<1>2. PICK ref \in Reference : ref = op.ref
  BY <1>1, OpType
<1>3. PICK owned \in Reference : owned = [ref EXCEPT !.state = "ready", !.owner = op.for]
  BY <1>1, OpType DEF Reference
<1>4. /\ \/ /\ SetReg(i, Update(Register(Reg(i), ref), owned))
            /\ Goes(i, [op EXCEPT !.step = "beforeRun", !.ref = owned])
         \/ Throws(i) /\ UNCHANGED registry
      /\ UNCHANGED <<git, at, known, held, bounds>>
  BY <1>1, <1>2, <1>3, Zenon DEF Take
<1>5. Update(Register(Reg(i), ref), owned) \in Registry
  BY OpType, RegistryType
<1>6. registry' \in [Managers -> Registry]
  BY <1>4, <1>5, SetRegType DEF Typed
<1>7. ops' \in Seq(Operation)
  BY <1>4, ChangedType, GoesType, ThrowsType
<1> QED
  BY <1>4, <1>6, <1>7 DEF Typed, git, bounds

LEMMA BeforeRunType ==
  ASSUME Typed, NEW i \in 1..Len(ops), BeforeRun(i) \/ BeforeRunFails(i)
  PROVE  Typed'
<1>1. PICK op \in Operation : op = ops[i]
  BY OpType
<1>2. PICK ref \in Reference : ref = op.ref
  BY <1>1, OpType
<1>3. Reg(i) \in Registry
  BY OpType
<1>4. CASE BeforeRun(i)
  <2>1. IsReady(ref)
    BY <1>1, <1>2, <1>4 DEF BeforeRun
  <2>2. PICK ready \in Reference : ready = [ref EXCEPT !.tree = TreeAt(ref)]
    BY <2>1, TreeType DEF Reference
  <2>3. /\ SetReg(i, Update(Reg(i), ready)) /\ Goes(i, [op EXCEPT !.step = "return", !.ref = ready])
        /\ UNCHANGED <<git, at, known, held, bounds>>
    BY <1>1, <1>2, <1>4, <2>2 DEF BeforeRun, Returns
  <2>4. registry' \in [Managers -> Registry]
    BY <1>3, <2>3, RegistryType, SetRegType
  <2>5. ops' \in Seq(Operation)
    BY <2>3, ChangedType, GoesType
  <2> QED
    BY <2>3, <2>4, <2>5 DEF Typed, git, bounds
<1>5. CASE BeforeRunFails(i)
  <2>1. /\ SetReg(i, Update(Reg(i), RetainObserved(ref))) /\ Throws(i)
        /\ UNCHANGED <<git, at, known, held, bounds>>
    BY <1>1, <1>2, <1>5 DEF BeforeRunFails
  <2>2. registry' \in [Managers -> Registry]
    BY <1>3, <2>1, TreeType, RegistryType, SetRegType
  <2> QED
    BY <2>1, <2>2, ThrowsType DEF Typed, git, bounds
<1> QED
  BY <1>4, <1>5

LEMMA AdoptedType ==
  ASSUME Typed, NEW i \in 1..Len(ops), NEW ref \in Reference
  PROVE  Adopted(i, ref) \in Registry
  BY OpType, RegistryType DEF Adopted

LEMMA FinishType ==
  ASSUME Typed, NEW i \in 1..Len(ops), AdoptToFinish(i) \/ AfterRun(i)
  PROVE  Typed'
<1>1. PICK op \in Operation : op = ops[i]
  BY OpType
<1>2. PICK ref \in Reference : ref = op.ref
  BY <1>1, OpType
<1>3. CASE AdoptToFinish(i)
  <2>1. /\ SetReg(i, Adopted(i, ref))
        /\ Goes(i, [op EXCEPT !.step = "afterRun"]) \/ Throws(i)
        /\ UNCHANGED <<git, at, known, held, bounds>>
    BY <1>1, <1>2, <1>3 DEF AdoptToFinish
  <2>2. registry' \in [Managers -> Registry]
    BY <2>1, AdoptedType, SetRegType
  <2>3. ops' \in Seq(Operation)
    BY <2>1, ChangedType, GoesType, ThrowsType
  <2> QED
    BY <2>1, <2>2, <2>3 DEF Typed, git, bounds
<1>4. CASE AfterRun(i)
  <2>1. UNCHANGED <<git, at, known, held, bounds>>
    BY <1>4 DEF AfterRun
  <2>2. CASE IsReady(ref)
    <3>1. PICK kept \in Reference : kept = Ref(ref.id, TreeAt(ref), "retained", None)
      BY <2>2, TreeType DEF Ref, Reference
    <3>2. SetReg(i, Update(Reg(i), kept)) /\ Goes(i, [op EXCEPT !.step = "return", !.ref = kept])
      BY <1>1, <1>2, <1>4, <2>2, <3>1 DEF AfterRun, Returns
    <3>3. registry' \in [Managers -> Registry]
      BY <3>2, OpType, RegistryType, SetRegType
    <3>4. ops' \in Seq(Operation)
      BY <3>2, ChangedType, GoesType
    <3> QED
      BY <2>1, <3>3, <3>4 DEF Typed, git, bounds
  <2>3. CASE ~IsReady(ref)
    <3>1. Throws(i) /\ UNCHANGED registry
      BY <1>1, <1>2, <1>4, <2>3 DEF AfterRun
    <3> QED
      BY <2>1, <3>1, ThrowsType DEF Typed, git, bounds
  <2> QED
    BY <2>2, <2>3
<1> QED
  BY <1>3, <1>4

LEMMA RemoveType ==
  ASSUME Typed, NEW i \in 1..Len(ops), AdoptToRemove(i) \/ RemoveWorktree(i)
  PROVE  Typed'
<1>1. PICK op \in Operation : op = ops[i]
  BY OpType
<1>2. PICK ref \in Reference : ref = op.ref
  BY <1>1, OpType
<1>3. CASE AdoptToRemove(i)
  <2>1. /\ SetReg(i, Adopted(i, ref))
        /\ \/ Goes(i, [op EXCEPT !.step = "return", !.ref = ref])
           \/ Goes(i, [op EXCEPT !.step = "beforeRemove"])
           \/ Throws(i)
        /\ UNCHANGED <<git, at, known, held, bounds>>
    BY <1>1, <1>2, <1>3, Zenon DEF AdoptToRemove, Returns
  <2>2. registry' \in [Managers -> Registry]
    BY <2>1, AdoptedType, SetRegType
  <2>3. ops' \in Seq(Operation)
    BY <2>1, ChangedType, GoesType, ThrowsType
  <2> QED
    BY <2>1, <2>2, <2>3 DEF Typed, git, bounds
<1>4. CASE RemoveWorktree(i)
  <2>1. PICK gone \in Reference : gone = [ref EXCEPT !.state = "released"]
    BY DEF Reference
  <2>2. /\ \/ /\ disk' = [disk EXCEPT ![Path[ref.id]] = None]
              /\ SetReg(i, Update(Reg(i), gone)) /\ Goes(i, [op EXCEPT !.step = "return", !.ref = gone])
           \/ Throws(i) /\ UNCHANGED <<disk, registry>>
        /\ UNCHANGED <<branches, at, known, held, bounds>>
    BY <1>1, <1>2, <1>4, <2>1, Zenon DEF RemoveWorktree, Returns
  <2>3. Reg(i) \in Registry /\ Path[ref.id] \in Paths
    BY OpType, PathType DEF Reference
  <2>4. registry' \in [Managers -> Registry]
    BY <2>2, <2>3, RegistryType, SetRegType DEF Typed
  <2>5. ops' \in Seq(Operation)
    BY <2>2, ChangedType, GoesType, ThrowsType
  <2>6. disk' \in [Paths -> Worktree \cup {None}]
    BY <2>2, <2>3 DEF Typed
  <2> QED
    BY <2>2, <2>4, <2>5, <2>6 DEF Typed, bounds
<1> QED
  BY <1>3, <1>4

LEMMA ReturnType ==
  ASSUME Typed, NEW i \in 1..Len(ops), Return(i)
  PROVE  Typed'
<1>1. PICK ref \in Reference : ref = ops[i].ref
  BY OpType
<1>2. /\ known' = [known EXCEPT ![ref.id] = ref] /\ Throws(i)
      /\ held' = [held EXCEPT ![ref.id] = ref.owner]
      /\ UNCHANGED <<git, registry, at, bounds>>
  BY <1>1 DEF Return, Throws
<1>3. known' \in [Ids -> Reference \cup {None}]
  BY <1>2 DEF Typed, Reference
<1>4. held' \in [Ids -> Attempts \cup {None}]
  BY <1>2 DEF Typed, Reference
<1> QED
  BY <1>2, <1>3, <1>4, ThrowsType DEF Typed, git, bounds

LEMMA EditType ==
  ASSUME Typed, NEW p \in Paths, Edit(p)
  PROVE  Typed'
<1>1. PICK dirty \in BOOLEAN :
        /\ disk' = [disk EXCEPT ![p] = [@ EXCEPT !.tree = edits + 1, !.dirty = dirty]]
        /\ branches' = IF dirty THEN branches ELSE [branches EXCEPT ![disk[p].branch] = edits + 1]
  BY DEF Edit
<1>2. PICK w \in Worktree : w = disk[p]
  BY DEF Edit, Typed
<1>3. edits + 1 \in Nat /\ edits' = edits + 1
  BY DEF Edit, Typed
<1>4. [w EXCEPT !.tree = edits + 1, !.dirty = dirty] \in Worktree
  BY <1>3 DEF Worktree
<1>5. disk' \in [Paths -> Worktree \cup {None}]
  BY <1>1, <1>2, <1>4 DEF Typed
<1>6. branches' \in [Ids -> Nat \cup {None}]
  BY <1>1, <1>2, <1>3 DEF Typed, Worktree
<1> QED
  BY <1>3, <1>5, <1>6 DEF Edit, Typed

LEMMA InitTyped == Init => Typed
<1> SUFFICES ASSUME Init PROVE Typed
  OBVIOUS
<1>1. ops \in Seq(Operation) /\ edits \in Nat
  BY DEF Init
<1> QED
  BY <1>1, EmptyRegistryType DEF Init, Typed

\* Every step keeps the types.
LEMMA NextTyped ==
  ASSUME Typed, [Next]_vars
  PROVE  Typed'
<1>1. CASE UNCHANGED vars
  BY <1>1 DEF vars, git, bounds, Typed
<1>2. ASSUME NEW m \in Managers, NEW id \in Ids,
             \/ \E a \in Attempts : Prepare(m, id, a) \/ Recover(m, id, a)
             \/ Finish(m, id)
             \/ \E discard \in BOOLEAN : RemoveWorkspace(m, id, discard)
      PROVE  Typed'
  BY <1>2, CallsType
<1>3. ASSUME NEW i \in 1..Len(ops), AddWorktree(i) PROVE Typed'
  BY <1>3, AddWorktreeType
<1>4. ASSUME NEW i \in 1..Len(ops), RegisterPrepared(i) PROVE Typed'
  BY <1>4, RegisterPreparedType
<1>5. ASSUME NEW i \in 1..Len(ops), AfterCreate(i) \/ AfterCreateFails(i) PROVE Typed'
  BY <1>5, AfterCreateType
<1>6. ASSUME NEW i \in 1..Len(ops), Take(i) PROVE Typed'
  BY <1>6, TakeType
<1>7. ASSUME NEW i \in 1..Len(ops), BeforeRun(i) \/ BeforeRunFails(i) PROVE Typed'
  BY <1>7, BeforeRunType
<1>8. ASSUME NEW i \in 1..Len(ops), AdoptToFinish(i) \/ AfterRun(i) PROVE Typed'
  BY <1>8, FinishType
<1>9. ASSUME NEW i \in 1..Len(ops), AdoptToRemove(i) \/ RemoveWorktree(i) PROVE Typed'
  BY <1>9, RemoveType
<1>10. ASSUME NEW i \in 1..Len(ops), Return(i) PROVE Typed'
  BY <1>10, ReturnType
<1>11. ASSUME NEW p \in Paths, Edit(p) PROVE Typed'
  BY <1>11, EditType
<1>12. ASSUME NEW m \in Managers, Renew(m) PROVE Typed'
  BY <1>12, EmptyRegistryType DEF Renew, Typed, git
<1>13. CASE Crash
  <2>1. ops' \in Seq(Operation)
    BY <1>13 DEF Crash
  <2> QED
    BY <1>13, <2>1, EmptyRegistryType DEF Crash, Typed, git
<1> QED
  BY <1>1, <1>2, <1>3, <1>4, <1>5, <1>6, <1>7, <1>8, <1>9, <1>10, <1>11, <1>12, <1>13 DEF Next

-----------------------------------------------------------------------------
(* Deletions *)

\* A path loses uncommitted changes only to a removal that was told to discard them.
Told == \E i \in 1..Len(ops) : ops[i].kind = "remove" /\ ops[i].discard
Kept(p) == disk[p] # None /\ disk'[p] = None /\ disk[p].dirty => Told

\* A worktree that is at a path and may be removed has no such changes.
LEMMA RemovableIsClean ==
  ASSUME NEW ref, Removable(ref), disk[Path[ref.id]] # None
  PROVE  ~disk[Path[ref.id]].dirty
  BY DEF Removable, Absent

\* Only a clean worktree is taken from its path.
LEMMA CleanRemoval ==
  ASSUME Typed, NEW ref \in Reference, NEW p \in Paths, Removable(ref),
         disk' = [disk EXCEPT ![Path[ref.id]] = None]
  PROVE  Kept(p)
<1>1. CASE p = Path[ref.id]
  BY <1>1, RemovableIsClean DEF Kept
<1>2. CASE p # Path[ref.id]
  BY <1>2 DEF Kept, Typed
<1> QED
  BY <1>1, <1>2

LEMMA UnchangedKept ==
  ASSUME UNCHANGED disk, NEW p \in Paths
  PROVE  Kept(p)
  BY DEF Kept

\* Each step that writes to the disk.
LEMMA StepKeeps ==
  ASSUME Typed, [Next]_vars, NEW p \in Paths
  PROVE  Kept(p)
<1>1. CASE UNCHANGED vars
  BY <1>1, UnchangedKept DEF vars, git
<1>2. ASSUME NEW m \in Managers, NEW id \in Ids,
             \/ \E a \in Attempts : Prepare(m, id, a) \/ Recover(m, id, a)
             \/ Finish(m, id)
             \/ \E discard \in BOOLEAN : RemoveWorkspace(m, id, discard)
      PROVE  Kept(p)
  BY <1>2, UnchangedKept DEF Prepare, Recover, Finish, RemoveWorkspace, Call, git
<1>3. ASSUME NEW i \in 1..Len(ops), AddWorktree(i) PROVE Kept(p)
  <2>1. PICK id \in Ids : id = ops[i].ref.id
    BY OpType
  <2>2. UNCHANGED disk \/ disk' = [disk EXCEPT ![Path[id]] = Added(id)]
    BY <1>3, <2>1 DEF AddWorktree, git
  <2>3. Added(id) # None
    BY AddedType, WorkspaceNone
  <2> QED
    BY <2>2, <2>3, UnchangedKept DEF Kept, Typed
<1>4. ASSUME NEW i \in 1..Len(ops), RegisterPrepared(i) PROVE Kept(p)
  <2>1. PICK ref \in Reference : ref = ops[i].ref
    BY OpType
  <2>2. UNCHANGED disk \/ (Removable(ref) /\ disk' = [disk EXCEPT ![Path[ref.id]] = None])
    BY <1>4, <2>1 DEF RegisterPrepared, RolledBack
  <2> QED
    BY <2>2, CleanRemoval, UnchangedKept
<1>5. ASSUME NEW i \in 1..Len(ops), AfterCreate(i) \/ AfterCreateFails(i) PROVE Kept(p)
  <2>1. PICK ref \in Reference : ref = ops[i].ref
    BY OpType
  <2>2. UNCHANGED disk \/ (Removable(ref) /\ disk' = [disk EXCEPT ![Path[ref.id]] = None])
    BY <1>5, <2>1 DEF AfterCreate, AfterCreateFails, RolledBack, git
  <2> QED
    BY <2>2, CleanRemoval, UnchangedKept
<1>6. ASSUME NEW i \in 1..Len(ops), RemoveWorktree(i) PROVE Kept(p)
  <2>1. PICK ref \in Reference : ref = ops[i].ref
    BY OpType
  <2>2. \/ UNCHANGED disk
        \/ ops[i].discard
        \/ Removable(ref) /\ disk' = [disk EXCEPT ![Path[ref.id]] = None]
    BY <1>6, <2>1 DEF RemoveWorktree, StillRemovable
  <2>3. ops[i].kind = "remove"
    BY <1>6 DEF RemoveWorktree, At
  <2>4. ops[i].discard => Kept(p)
    BY <2>3 DEF Kept, Told
  <2> QED
    BY <2>2, <2>4, CleanRemoval, UnchangedKept
<1>7. ASSUME NEW i \in 1..Len(ops),
             \/ Take(i) \/ BeforeRun(i) \/ BeforeRunFails(i)
             \/ AdoptToFinish(i) \/ AfterRun(i) \/ AdoptToRemove(i) \/ Return(i)
      PROVE  Kept(p)
  <2>1. UNCHANGED disk
    BY <1>7 DEF Take, BeforeRun, BeforeRunFails, AdoptToFinish, AfterRun, AdoptToRemove, Return, git
  <2> QED
    BY <2>1, UnchangedKept
<1>8. ASSUME NEW q \in Paths, Edit(q) PROVE Kept(p)
  <2>1. PICK dirty \in BOOLEAN : disk' = [disk EXCEPT ![q] = [@ EXCEPT !.tree = edits + 1, !.dirty = dirty]]
    BY <1>8 DEF Edit
  <2>2. PICK w \in Worktree : w = disk[q]
    BY <1>8 DEF Edit, Typed
  <2>3. [w EXCEPT !.tree = edits + 1, !.dirty = dirty] \in Worktree
    <3>1. edits + 1 \in Nat
      BY DEF Typed
    <3> QED
      BY <3>1 DEF Worktree
  <2>4. disk'[q] # None
    BY <2>1, <2>2, <2>3, WorkspaceNone DEF Typed
  <2>5. p # q => disk'[p] = disk[p]
    BY <2>1 DEF Typed
  <2> QED
    BY <2>4, <2>5 DEF Kept
<1>9. ASSUME NEW m \in Managers, Renew(m) PROVE Kept(p)
  BY <1>9, UnchangedKept DEF Renew, git
<1>10. CASE Crash
  BY <1>10, UnchangedKept DEF Crash, git
<1> QED
  BY <1>1, <1>2, <1>3, <1>4, <1>5, <1>6, <1>7, <1>8, <1>9, <1>10 DEF Next

-----------------------------------------------------------------------------
(* Theorems *)

\* Every variable keeps its type: what the manager and the driver write to the disk, to the
\* registries and to the operations under way.
THEOREM TypesKept == Spec => []Typed
<1>1. Init => Typed
  BY InitTyped
<1>2. Typed /\ [Next]_vars => Typed'
  BY NextTyped
<1> QED
  BY <1>1, <1>2, PTL DEF Spec

\* What was changed in a worktree and not committed is deleted by nothing but a removal that was
\* told to discard it: no rollback of #prepare, no failing hook, no remove() whose checks were
\* passed before a hook, an agent or a person wrote.
THEOREM UncommittedKept == Spec => NothingLost
<1>1. Typed /\ [Next]_vars =>
        [\A p \in Paths :
           disk[p] # None /\ disk'[p] = None /\ disk[p].dirty
             => \E i \in 1..Len(ops) : ops[i].kind = "remove" /\ ops[i].discard]_vars
  BY StepKeeps DEF Kept, Told
<1> QED
  BY <1>1, TypesKept, PTL DEF Spec, NothingLost

-----------------------------------------------------------------------------
(* The operations under way *)

\* A record of the same call, later.
Same(op, old) ==
  op.manager = old.manager /\ op.kind = old.kind /\ op.for = old.for /\ op.ref.id = old.ref.id

\* The elements of a sequence without one of them, in their order.
Leaves(s, i, t) ==
  \E f \in [1..Len(t) -> 1..Len(s)] :
    /\ \A k \in 1..Len(t) : t[k] = s[f[k]] /\ f[k] # i
    /\ \A k, l \in 1..Len(t) : k < l => f[k] < f[l]
    /\ \A k \in 1..Len(s) : k # i => \E l \in 1..Len(t) : f[l] = k

\* A sequence without one of its elements keeps the others in their order.
LEMMA RemoveAtMaps ==
  ASSUME NEW s \in Seq(Operation), NEW i \in 1..Len(s), NEW t, t = RemoveAt(s, i)
  PROVE  Leaves(s, i, t)
<1>1. PICK n \in Nat : n = Len(s)
  OBVIOUS
<1>2a. SubSeq(s, 1, i - 1) \in Seq(Operation) /\ SubSeq(s, i + 1, n) \in Seq(Operation)
  BY <1>1
<1>2. PICK a \in Seq(Operation), b \in Seq(Operation) : a = SubSeq(s, 1, i - 1) /\ b = SubSeq(s, i + 1, n)
  BY <1>2a, Zenon
<1>3. t = a \o b
  BY <1>1, <1>2 DEF RemoveAt
<1>4. Len(a) = i - 1 /\ Len(b) = n - i
  BY <1>1, <1>2
<1>5. Len(t) = n - 1
  BY <1>1, <1>3, <1>4
<1>6. \A k \in 1..(n - 1) : t[k] = s[IF k < i THEN k ELSE k + 1]
  <2> TAKE k \in 1..(n - 1)
  <2>1. CASE k < i
    <3>1. k \in 1..Len(a) /\ a[k] = s[k]
      BY <1>1, <1>2, <1>4, <2>1
    <3> QED
      BY <1>3, <2>1, <3>1
  <2>2. CASE ~(k < i)
    <3>1. PICK m \in 1..Len(b) : m = k - (i - 1)
      BY <1>1, <1>4, <2>2
    <3>a. m \in 1..(n - i) /\ i + m = k + 1
      BY <1>1, <1>4, <3>1
    <3>b. SubSeq(s, i + 1, n)[m] = s[(i + 1) + m - 1]
      BY <1>1, <3>a
    <3>c. (i + 1) + m - 1 = i + m
      BY <1>1, <3>a
    <3>2. b[m] = s[i + m] /\ i + m = k + 1
      BY <1>2, <3>a, <3>b, <3>c
    <3> QED
      BY <1>1, <1>3, <1>4, <2>2, <3>1, <3>2
  <2> QED
    BY <2>1, <2>2
<1> DEFINE f == [k \in 1..(n - 1) |-> IF k < i THEN k ELSE k + 1]
<1>7. f \in [1..(n - 1) -> 1..n]
  BY <1>1
<1>8. \A k \in 1..(n - 1) : f[k] = (IF k < i THEN k ELSE k + 1) /\ f[k] # i
  BY <1>1
<1>9. \A k, l \in 1..(n - 1) : k < l => f[k] < f[l]
  BY <1>8
<1>10. ASSUME NEW k \in 1..n, k # i PROVE \E l \in 1..(n - 1) : f[l] = k
  <2>1. CASE k < i
    <3>1. k \in 1..(n - 1) /\ f[k] = k
      BY <1>1, <2>1
    <3> QED
      BY <3>1
  <2>2. CASE k > i
    <3>1. (k - 1) \in 1..(n - 1) /\ f[k - 1] = k
      BY <1>1, <2>2
    <3> QED
      BY <3>1
  <2> QED
    BY <1>1, <1>10, <2>1, <2>2
<1> HIDE DEF f
<1>11. \A k \in 1..(n - 1) : t[k] = s[f[k]]
  BY <1>6, <1>8
<1>12. Len(t) = n - 1 /\ Len(s) = n
  BY <1>1, <1>5
<1>13. /\ f \in [1..Len(t) -> 1..Len(s)]
       /\ \A k \in 1..Len(t) : t[k] = s[f[k]] /\ f[k] # i
       /\ \A k, l \in 1..Len(t) : k < l => f[k] < f[l]
       /\ \A k \in 1..Len(s) : k # i => \E l \in 1..Len(t) : f[l] = k
  BY <1>7, <1>8, <1>9, <1>10, <1>11, <1>12
<1> QED
  BY <1>13, Zenon DEF Leaves

\* An operation that ends leaves the others in their order.
LEMMA ThrowsMaps ==
  ASSUME Typed, NEW i \in 1..Len(ops), Throws(i)
  PROVE  \E f \in [1..Len(ops') -> 1..Len(ops)] :
           /\ \A k \in 1..Len(ops') : ops'[k] = ops[f[k]] /\ f[k] # i
           /\ \A k, l \in 1..Len(ops') : k < l => f[k] < f[l]
           /\ \A k \in 1..Len(ops) : k # i => \E l \in 1..Len(ops') : f[l] = k
<1>1. ops \in Seq(Operation) /\ ops' = RemoveAt(ops, i)
  BY DEF Typed, Throws
<1>2. PICK s \in Seq(Operation) : s = ops
  BY <1>1, Zenon
<1>3. PICK t : t = ops'
  OBVIOUS
<1>4. s = ops /\ t = ops'
  BY <1>2, <1>3
<1>5. s \in Seq(Operation) /\ i \in 1..Len(s) /\ t = RemoveAt(s, i)
  BY <1>1, <1>4
<1>6. Leaves(s, i, t)
  BY <1>5, RemoveAtMaps
<1>7. PICK f \in [1..Len(t) -> 1..Len(s)] :
        /\ \A k \in 1..Len(t) : t[k] = s[f[k]] /\ f[k] # i
        /\ \A k, l \in 1..Len(t) : k < l => f[k] < f[l]
        /\ \A k \in 1..Len(s) : k # i => \E l \in 1..Len(t) : f[l] = k
  BY <1>6, Zenon DEF Leaves
<1>8. /\ f \in [1..Len(ops') -> 1..Len(ops)]
      /\ \A k \in 1..Len(ops') : ops'[k] = ops[f[k]] /\ f[k] # i
      /\ \A k, l \in 1..Len(ops') : k < l => f[k] < f[l]
      /\ \A k \in 1..Len(ops) : k # i => \E l \in 1..Len(ops') : f[l] = k
  BY <1>4, <1>7
<1> QED
  BY <1>8, Zenon

\* An operation that goes on is the only one that changes.
LEMMA GoesKeeps ==
  ASSUME Typed, NEW i \in 1..Len(ops), NEW op, Goes(i, op)
  PROVE  /\ Len(ops') = Len(ops) /\ ops'[i] = op
         /\ \A j \in 1..Len(ops) : j # i => ops'[j] = ops[j]
  BY DEF Goes, Typed

\* A call comes last.
LEMMA CallKeeps ==
  ASSUME Typed, NEW op, ops' = Append(ops, op)
  PROVE  /\ Len(ops') = Len(ops) + 1 /\ ops'[Len(ops) + 1] = op /\ Len(ops) \in Nat
         /\ \A j \in 1..Len(ops) : ops'[j] = ops[j]
  BY DEF Typed

-----------------------------------------------------------------------------
(* What the steps do *)

\* The worktree of the workspace is there.
Here(id) == disk[Path[id]] # None /\ disk[Path[id]].branch = id

\* What a step writes to the registry of its operation: the entry of an id, and its path.
Wrote(i, id, entry) ==
  \A m \in Managers, x \in Ids :
    registry'[m].byId[x] = IF m = ops[i].manager /\ x = id THEN entry ELSE registry[m].byId[x]
PathsStay == \A m \in Managers, p \in Paths : registry'[m].byPath[p] = registry[m].byPath[p]
PathTaken(i, id) ==
  \A m \in Managers, p \in Paths :
    registry'[m].byPath[p] = IF m = ops[i].manager /\ p = Path[id] THEN id ELSE registry[m].byPath[p]
PathFreed(i, id) ==
  \A m \in Managers, p \in Paths :
    registry'[m].byPath[p] =
      IF m = ops[i].manager /\ p = Path[id] /\ registry[m].byPath[p] = id THEN None ELSE registry[m].byPath[p]

LEMMA RegistryParts ==
  ASSUME Typed, NEW m \in Managers
  PROVE  /\ registry[m] = [byId |-> registry[m].byId, byPath |-> registry[m].byPath]
         /\ registry[m].byId \in [Ids -> Reference \cup {None}]
         /\ registry[m].byPath \in [Paths -> Ids \cup {None}]
<1>1. registry[m] \in Registry
  BY DEF Typed
<1> QED
  BY <1>1 DEF Registry

\* Every way in which a registry is written, as what it is afterwards.
LEMMA Writes ==
  ASSUME Typed, NEW i \in 1..Len(ops), NEW b \in [Ids -> Reference \cup {None}], NEW q \in [Paths -> Ids \cup {None}],
         SetReg(i, [byId |-> b, byPath |-> q])
  PROVE  \A m \in Managers :
           /\ registry'[m].byId = IF m = ops[i].manager THEN b ELSE registry[m].byId
           /\ registry'[m].byPath = IF m = ops[i].manager THEN q ELSE registry[m].byPath
<1>1. PICK n \in Managers : n = ops[i].manager
  BY OpType
<1>2. registry' = [registry EXCEPT ![n] = [byId |-> b, byPath |-> q]]
  BY <1>1 DEF SetReg
<1>3. \A m \in Managers : registry'[m] = IF m = n THEN [byId |-> b, byPath |-> q] ELSE registry[m]
  BY <1>2 DEF Typed
<1> QED
  BY <1>1, <1>3

LEMMA UpdateWrites ==
  ASSUME Typed, NEW i \in 1..Len(ops), NEW ref \in Reference, SetReg(i, Update(Reg(i), ref))
  PROVE  Wrote(i, ref.id, ref) /\ PathsStay
<1>1. PICK n \in Managers : n = ops[i].manager
  BY OpType
<1>2. ref.id \in Ids
  BY DEF Reference
<1>3. PICK b \in [Ids -> Reference \cup {None}], q \in [Paths -> Ids \cup {None}] :
        b = registry[n].byId /\ q = registry[n].byPath /\ registry[n] = [byId |-> b, byPath |-> q]
  BY RegistryParts
<1>4. PICK c \in [Ids -> Reference \cup {None}] : c = [b EXCEPT ![ref.id] = ref]
  BY <1>2
<1>5. Update(Reg(i), ref) = [byId |-> c, byPath |-> q]
  BY <1>1, <1>3, <1>4 DEF Update, Reg
<1>6. \A m \in Managers :
        /\ registry'[m].byId = IF m = n THEN c ELSE registry[m].byId
        /\ registry'[m].byPath = IF m = n THEN q ELSE registry[m].byPath
  BY <1>1, <1>5, Writes
<1>7. Wrote(i, ref.id, ref)
  BY <1>1, <1>3, <1>4, <1>6 DEF Wrote
<1>8. PathsStay
  BY <1>3, <1>6 DEF PathsStay
<1> QED
  BY <1>7, <1>8

\* The path is taken for the id, and the entry is the reference or a later one.
LEMMA RegisterWrites ==
  ASSUME Typed, NEW i \in 1..Len(ops), NEW ref \in Reference, NEW owned \in Reference, owned.id = ref.id,
         \/ SetReg(i, Register(Reg(i), ref)) /\ owned = ref
         \/ SetReg(i, Update(Register(Reg(i), ref), owned))
  PROVE  Wrote(i, ref.id, owned) /\ PathTaken(i, ref.id)
<1>1. PICK n \in Managers : n = ops[i].manager
  BY OpType
<1>2. ref.id \in Ids /\ Path[ref.id] \in Paths
  BY PathType DEF Reference
<1>3. PICK b \in [Ids -> Reference \cup {None}], q \in [Paths -> Ids \cup {None}] :
        b = registry[n].byId /\ q = registry[n].byPath /\ registry[n] = [byId |-> b, byPath |-> q]
  BY RegistryParts
<1>4. PICK c \in [Ids -> Reference \cup {None}] : c = [b EXCEPT ![ref.id] = ref]
  BY <1>2
<1>5. PICK d \in [Ids -> Reference \cup {None}] : d = [b EXCEPT ![ref.id] = owned]
  BY <1>2
<1>6. PICK r \in [Paths -> Ids \cup {None}] : r = [q EXCEPT ![Path[ref.id]] = ref.id]
  BY <1>2
<1>7. Update(Reg(i), ref) = [byId |-> c, byPath |-> q]
  BY <1>1, <1>3, <1>4 DEF Update, Reg
<1>8. Register(Reg(i), ref) = [byId |-> c, byPath |-> r]
  BY <1>6, <1>7 DEF Register
<1>9. [c EXCEPT ![ref.id] = owned] = d
  BY <1>2, <1>4, <1>5
<1>10. Update(Register(Reg(i), ref), owned) = [byId |-> d, byPath |-> r]
  BY <1>8, <1>9 DEF Update
<1>11. SetReg(i, [byId |-> d, byPath |-> r])
  BY <1>4, <1>5, <1>8, <1>10
<1>12. \A m \in Managers :
        /\ registry'[m].byId = IF m = n THEN d ELSE registry[m].byId
        /\ registry'[m].byPath = IF m = n THEN r ELSE registry[m].byPath
  BY <1>1, <1>11, Writes
<1>13. Wrote(i, ref.id, owned)
  BY <1>1, <1>3, <1>5, <1>12 DEF Wrote
<1>14. PathTaken(i, ref.id)
  BY <1>1, <1>3, <1>6, <1>12 DEF PathTaken
<1> QED
  BY <1>13, <1>14

LEMMA UnregisterWrites ==
  ASSUME Typed, NEW i \in 1..Len(ops), NEW ref \in Reference, SetReg(i, Unregister(Reg(i), ref))
  PROVE  Wrote(i, ref.id, None) /\ PathFreed(i, ref.id)
<1>1. PICK n \in Managers : n = ops[i].manager
  BY OpType
<1>2. ref.id \in Ids /\ Path[ref.id] \in Paths
  BY PathType DEF Reference
<1>3. PICK b \in [Ids -> Reference \cup {None}], q \in [Paths -> Ids \cup {None}] :
        b = registry[n].byId /\ q = registry[n].byPath /\ registry[n] = [byId |-> b, byPath |-> q]
  BY RegistryParts
<1>4. PICK c \in [Ids -> Reference \cup {None}] : c = [b EXCEPT ![ref.id] = None]
  BY <1>2
<1>5. PICK r \in [Paths -> Ids \cup {None}] : r = [q EXCEPT ![Path[ref.id]] = IF @ = ref.id THEN None ELSE @]
  BY <1>2
<1>6. Unregister(Reg(i), ref) = [byId |-> c, byPath |-> r]
  BY <1>1, <1>3, <1>4, <1>5 DEF Unregister, Reg
<1>7. \A m \in Managers :
        /\ registry'[m].byId = IF m = n THEN c ELSE registry[m].byId
        /\ registry'[m].byPath = IF m = n THEN r ELSE registry[m].byPath
  BY <1>1, <1>6, Writes
<1>8. Wrote(i, ref.id, None)
  BY <1>1, <1>3, <1>4, <1>7 DEF Wrote
<1>9. PathFreed(i, ref.id)
  BY <1>1, <1>3, <1>5, <1>7 DEF PathFreed
<1> QED
  BY <1>8, <1>9

\* An entry that a new owner may take: nobody uses the workspace, or it is the owner's.
Open(entry, owner) == entry # None /\ entry.state = "ready" => entry.owner = owner

\* For each action: the writes it may do, and what has to be so for them.
LEMMA AddWorktreeDoes ==
  ASSUME Typed, NEW i \in 1..Len(ops), NEW id, id = ops[i].ref.id, AddWorktree(i)
  PROVE  /\ CanRun(i) /\ ops[i].kind = "prepare" /\ ops[i].step = "add"
         /\ UNCHANGED <<registry, at, known, held, bounds>>
         /\ \/ Throws(i) /\ UNCHANGED git
            \/ \E op \in Operation :
                 /\ Goes(i, op) /\ Same(op, ops[i]) /\ op.step = "register"
                 /\ op.ref.owner = ops[i].ref.owner /\ op.ref.state = ops[i].ref.state
                 /\ \/ /\ UNCHANGED git /\ op.created = ops[i].created
                       /\ Here(id) /\ Reg(i).byId[id] # None /\ op.ref.tree = disk[Path[id]].tree
                    \/ /\ disk[Path[id]] = None /\ disk' = [disk EXCEPT ![Path[id]] = Added(id)]
                       /\ branches' = [branches EXCEPT ![id] = Added(id).tree]
                       /\ op.created /\ op.ref.tree = Added(id).tree
<1>1. PICK op \in Operation : op = ops[i]
  BY OpType
<1>2. PICK ref \in Reference : ref = op.ref
  BY <1>1, OpType
<1>3. id \in Ids /\ id = ref.id
  BY <1>1, <1>2 DEF Reference
<1>4. PICK before \in Reference \cup {None} : before = Reg(i).byId[id]
  BY <1>3, OpType DEF Registry
<1>5. PICK tree \in Nat \cup {None} : tree = IF before = None THEN None ELSE before.tree
  BY <1>4 DEF Reference
<1>6. PICK expected \in Reference : expected = [ref EXCEPT !.tree = tree]
  BY <1>5 DEF Reference
<1>7. expected.id = id /\ expected.owner = ref.owner /\ expected.state = ref.state /\ expected.tree = tree
  BY <1>3, <1>6 DEF Reference
<1>8. At(i, {"prepare"}, "add") /\ UNCHANGED <<registry, at, known, held, bounds>>
  BY DEF AddWorktree
<1>9. CanRun(i) /\ ops[i].kind = "prepare" /\ ops[i].step = "add"
  BY <1>8 DEF At
<1>10. \/ Throws(i) /\ UNCHANGED git
       \/ Recoverable(expected) /\ Goes(i, [op EXCEPT !.step = "register", !.ref = expected]) /\ UNCHANGED git
       \/ /\ disk[Path[id]] = None /\ disk' = [disk EXCEPT ![Path[id]] = Added(id)]
          /\ branches' = [branches EXCEPT ![id] = Added(id).tree]
          /\ Goes(i, [op EXCEPT !.step = "register", !.created = TRUE,
                        !.ref = [expected EXCEPT !.tree = Added(id).tree]])
  BY <1>1, <1>2, <1>3, <1>4, <1>5, <1>6, Zenon DEF AddWorktree
<1>11. ASSUME Recoverable(expected), Goes(i, [op EXCEPT !.step = "register", !.ref = expected]), UNCHANGED git
       PROVE  \E new \in Operation :
                 /\ Goes(i, new) /\ Same(new, ops[i]) /\ new.step = "register"
                 /\ new.ref.owner = ops[i].ref.owner /\ new.ref.state = ops[i].ref.state
                 /\ UNCHANGED git /\ new.created = ops[i].created
                 /\ Here(id) /\ Reg(i).byId[id] # None /\ new.ref.tree = disk[Path[id]].tree
  <2>1. PICK new \in Operation : new = [op EXCEPT !.step = "register", !.ref = expected]
    BY ChangedType
  <2>2. /\ new.manager = op.manager /\ new.kind = op.kind /\ new.for = op.for /\ new.created = op.created
        /\ new.step = "register" /\ new.ref = expected
    BY <2>1 DEF Operation
  <2>3. Same(new, ops[i])
    BY <1>1, <1>2, <1>3, <1>7, <2>2 DEF Same
  <2>4. Here(id) /\ expected.tree = disk[Path[id]].tree /\ tree # None
    BY <1>7, <1>11 DEF Recoverable, IsReady, TreeAt, Here
  <2>5. Reg(i).byId[id] # None
    BY <1>4, <1>5, <2>4
  <2> QED
    BY <1>1, <1>2, <1>7, <1>11, <2>1, <2>2, <2>3, <2>4, <2>5
<1>12. ASSUME Goes(i, [op EXCEPT !.step = "register", !.created = TRUE,
                        !.ref = [expected EXCEPT !.tree = Added(id).tree]])
       PROVE  \E new \in Operation :
                 /\ Goes(i, new) /\ Same(new, ops[i]) /\ new.step = "register"
                 /\ new.ref.owner = ops[i].ref.owner /\ new.ref.state = ops[i].ref.state
                 /\ new.created /\ new.ref.tree = Added(id).tree
  <2>1. PICK r \in Reference : r = [expected EXCEPT !.tree = Added(id).tree]
    BY <1>3, AddedType DEF Reference
  <2>2. r.id = id /\ r.owner = ref.owner /\ r.state = ref.state /\ r.tree = Added(id).tree
    BY <1>7, <2>1 DEF Reference
  <2>3. PICK new \in Operation : new = [op EXCEPT !.step = "register", !.created = TRUE, !.ref = r]
    BY ChangedType
  <2>4. /\ new.manager = op.manager /\ new.kind = op.kind /\ new.for = op.for /\ new.created
        /\ new.step = "register" /\ new.ref = r
    BY <2>3 DEF Operation
  <2>5. Same(new, ops[i])
    BY <1>1, <1>2, <1>3, <2>2, <2>4 DEF Same
  <2> QED
    BY <1>1, <1>2, <1>12, <2>1, <2>2, <2>3, <2>4, <2>5
<1> QED
  BY <1>8, <1>9, <1>10, <1>11, <1>12

LEMMA RegisterPreparedDoes ==
  ASSUME Typed, NEW i \in 1..Len(ops), NEW id, id = ops[i].ref.id, RegisterPrepared(i)
  PROVE  /\ CanRun(i) /\ ops[i].kind = "prepare" /\ ops[i].step = "register"
         /\ UNCHANGED <<branches, at, known, held, bounds>>
         /\ \/ /\ Open(Reg(i).byId[id], ops[i].ref.owner) /\ Reg(i).byPath[Path[id]] \in {None, id}
               /\ Wrote(i, id, ops[i].ref) /\ PathTaken(i, id) /\ UNCHANGED disk
               /\ \E op \in Operation :
                    /\ Goes(i, op) /\ Same(op, ops[i]) /\ op.ref = ops[i].ref /\ op.created = ops[i].created
                    /\ op.step = IF op.created THEN "afterCreate" ELSE "beforeRun"
            \/ /\ Throws(i) /\ UNCHANGED registry
               /\ IF ops[i].created /\ Removable(ops[i].ref) /\ Here(id)
                  THEN disk' = [disk EXCEPT ![Path[id]] = None] ELSE UNCHANGED disk
<1>1. PICK op \in Operation : op = ops[i]
  BY OpType
<1>2. PICK ref \in Reference : ref = op.ref
  BY <1>1, OpType
<1>3. id \in Ids /\ id = ref.id
  BY <1>1, <1>2 DEF Reference
<1>4. At(i, {"prepare"}, "register") /\ UNCHANGED <<branches, at, known, held, bounds>>
  BY DEF RegisterPrepared
<1>5. CanRun(i) /\ ops[i].kind = "prepare" /\ ops[i].step = "register"
  BY <1>4 DEF At
<1>6. PICK s \in {"afterCreate", "beforeRun"} : s = IF op.created THEN "afterCreate" ELSE "beforeRun"
  OBVIOUS
<1>7. \/ /\ MayRegister(Reg(i), ref) /\ SetReg(i, Register(Reg(i), ref)) /\ UNCHANGED disk
         /\ Goes(i, [op EXCEPT !.step = s])
      \/ /\ Throws(i) /\ UNCHANGED registry
         /\ disk' = IF op.created /\ Removable(ref) /\ ~Absent(ref) THEN [disk EXCEPT ![Path[id]] = None] ELSE disk
  BY <1>1, <1>2, <1>3, <1>6 DEF RegisterPrepared, RolledBack
<1>8. Removable(ref) => (Absent(ref) <=> ~Here(id))
  BY <1>3 DEF Removable, Absent, IsReady, Here
<1>9. ASSUME MayRegister(Reg(i), ref), SetReg(i, Register(Reg(i), ref)), Goes(i, [op EXCEPT !.step = s])
      PROVE  /\ Open(Reg(i).byId[id], ops[i].ref.owner) /\ Reg(i).byPath[Path[id]] \in {None, id}
             /\ Wrote(i, id, ops[i].ref) /\ PathTaken(i, id)
             /\ \E new \in Operation :
                    /\ Goes(i, new) /\ Same(new, ops[i]) /\ new.ref = ops[i].ref /\ new.created = ops[i].created
                    /\ new.step = IF new.created THEN "afterCreate" ELSE "beforeRun"
  <2>1. PICK new \in Operation : new = [op EXCEPT !.step = s]
    BY ChangedType
  <2>2. /\ new.manager = op.manager /\ new.kind = op.kind /\ new.for = op.for /\ new.created = op.created
        /\ new.step = s /\ new.ref = op.ref
    BY <2>1 DEF Operation
  <2>3. Same(new, ops[i])
    BY <1>1, <2>2 DEF Same
  <2>4. Open(Reg(i).byId[id], ops[i].ref.owner) /\ Reg(i).byPath[Path[id]] \in {None, id}
    BY <1>1, <1>2, <1>3, <1>9 DEF MayRegister, Open
  <2>5. Wrote(i, id, ops[i].ref) /\ PathTaken(i, id)
    BY <1>1, <1>2, <1>3, <1>9, RegisterWrites
  <2> QED
    BY <1>1, <1>2, <1>6, <1>9, <2>1, <2>2, <2>3, <2>4, <2>5
<1> QED
  BY <1>1, <1>2, <1>4, <1>5, <1>7, <1>8, <1>9

LEMMA AfterCreateDoes ==
  ASSUME Typed, NEW i \in 1..Len(ops), AfterCreate(i)
  PROVE  /\ ops[i].kind = "prepare" /\ ops[i].step = "afterCreate"
         /\ UNCHANGED <<git, registry, at, known, held, bounds>>
         /\ \E op \in Operation :
              /\ Goes(i, op) /\ Same(op, ops[i]) /\ op.ref = ops[i].ref /\ op.created = ops[i].created
              /\ op.step = "beforeRun"
<1>1. PICK op \in Operation : op = ops[i]
  BY OpType
<1>2. PICK new \in Operation : new = [op EXCEPT !.step = "beforeRun"]
  BY DEF Operation
<1>3. /\ new.manager = op.manager /\ new.kind = op.kind /\ new.for = op.for /\ new.created = op.created
      /\ new.step = "beforeRun" /\ new.ref = op.ref
  BY <1>2 DEF Operation
<1>4. Same(new, ops[i])
  BY <1>1, <1>3 DEF Same
<1>5. Goes(i, new) /\ At(i, {"prepare"}, "afterCreate") /\ UNCHANGED <<git, registry, at, known, held, bounds>>
  BY <1>1, <1>2 DEF AfterCreate
<1> QED
  BY <1>1, <1>2, <1>3, <1>4, <1>5 DEF At

\* What a failed hook leaves in the registry.
LEMMA ObservedWrites ==
  ASSUME Typed, NEW i \in 1..Len(ops), NEW id, id = ops[i].ref.id,
         SetReg(i, Update(Reg(i), RetainObserved(ops[i].ref)))
  PROVE  /\ PathsStay
         /\ \E r \in Reference :
              /\ r.id = id /\ r.state = "retained" /\ r.owner = None
              /\ r.tree = IF Here(id) THEN disk[Path[id]].tree ELSE ops[i].ref.tree
              /\ Wrote(i, id, r)
<1>1. PICK ref \in Reference : ref = ops[i].ref
  BY OpType
<1>2. PICK r \in Reference : r = RetainObserved(ref)
  BY TreeType
<1>3. /\ r.id = id /\ r.state = "retained" /\ r.owner = None
      /\ r.tree = IF Here(id) THEN disk[Path[id]].tree ELSE ref.tree
  BY <1>1, <1>2 DEF RetainObserved, Ref, IsReady, TreeAt, Here
<1>4. Wrote(i, id, r) /\ PathsStay
  BY <1>1, <1>2, <1>3, UpdateWrites
<1> QED
  BY <1>1, <1>3, <1>4

LEMMA AfterCreateFailsDoes ==
  ASSUME Typed, NEW i \in 1..Len(ops), NEW id, id = ops[i].ref.id, AfterCreateFails(i)
  PROVE  /\ ops[i].kind = "prepare" /\ ops[i].step = "afterCreate"
         /\ Throws(i) /\ UNCHANGED <<branches, at, known, held, bounds>>
         /\ \/ /\ Here(id) \/ disk[Path[id]] = None
               /\ disk' = [disk EXCEPT ![Path[id]] = None] /\ Wrote(i, id, None) /\ PathFreed(i, id)
            \/ /\ UNCHANGED disk /\ PathsStay
               /\ \E r \in Reference :
                    /\ r.id = id /\ r.state = "retained" /\ r.owner = None
                    /\ r.tree = IF Here(id) THEN disk[Path[id]].tree ELSE ops[i].ref.tree
                    /\ Wrote(i, id, r)
<1>1. PICK ref \in Reference : ref = ops[i].ref
  BY OpType
<1>2. /\ At(i, {"prepare"}, "afterCreate") /\ Throws(i) /\ UNCHANGED <<branches, at, known, held, bounds>>
      /\ \/ Removable(ref) /\ disk' = [disk EXCEPT ![Path[id]] = None] /\ SetReg(i, Unregister(Reg(i), ref))
         \/ UNCHANGED disk /\ SetReg(i, Update(Reg(i), RetainObserved(ref)))
  BY <1>1 DEF AfterCreateFails, RolledBack
<1>3. Removable(ref) => Here(id) \/ disk[Path[id]] = None
  BY <1>1 DEF Removable, Absent, IsReady, Here
<1>4. SetReg(i, Unregister(Reg(i), ref)) => Wrote(i, id, None) /\ PathFreed(i, id)
  BY <1>1, UnregisterWrites
<1>5. ops[i].kind = "prepare" /\ ops[i].step = "afterCreate"
  BY <1>2 DEF At
<1>6. CASE Removable(ref) /\ disk' = [disk EXCEPT ![Path[id]] = None] /\ SetReg(i, Unregister(Reg(i), ref))
  BY <1>2, <1>3, <1>4, <1>5, <1>6
<1>7. CASE UNCHANGED disk /\ SetReg(i, Update(Reg(i), RetainObserved(ref)))
  BY <1>1, <1>2, <1>5, <1>7, ObservedWrites
<1> QED
  BY <1>2, <1>6, <1>7

LEMMA TakeDoes ==
  ASSUME Typed, NEW i \in 1..Len(ops), NEW id, id = ops[i].ref.id, Take(i)
  PROVE  /\ CanRun(i) /\ ops[i].kind = "recover" /\ ops[i].step = "take"
         /\ UNCHANGED <<git, at, known, held, bounds>>
         /\ \/ Throws(i) /\ UNCHANGED registry
            \/ /\ Here(id) /\ Open(Reg(i).byId[id], ops[i].ref.owner) /\ Reg(i).byPath[Path[id]] \in {None, id}
               /\ PathTaken(i, id)
               /\ \E op \in Operation :
                    /\ Goes(i, op) /\ Same(op, ops[i]) /\ op.step = "beforeRun" /\ op.created = ops[i].created
                    /\ op.ref.owner = op.for /\ op.ref.state = "ready" /\ op.ref.tree = ops[i].ref.tree
                    /\ Wrote(i, id, op.ref)
<1>1. PICK op \in Operation : op = ops[i]
  BY OpType
<1>2. PICK ref \in Reference : ref = op.ref
  BY <1>1, OpType
<1>3. id \in Ids /\ id = ref.id
  BY <1>1, <1>2 DEF Reference
<1>4. PICK owned \in Reference : owned = [ref EXCEPT !.state = "ready", !.owner = op.for]
  BY <1>1, OpType DEF Reference
<1>5. owned.id = id /\ owned.owner = op.for /\ owned.state = "ready" /\ owned.tree = ref.tree
  BY <1>3, <1>4 DEF Reference
<1>6. At(i, {"recover"}, "take") /\ UNCHANGED <<git, at, known, held, bounds>>
  BY DEF Take
<1>7. CanRun(i) /\ ops[i].kind = "recover" /\ ops[i].step = "take"
  BY <1>6 DEF At
<1>8. \/ /\ Recoverable(ref) /\ MayRegister(Reg(i), ref) /\ SetReg(i, Update(Register(Reg(i), ref), owned))
         /\ Goes(i, [op EXCEPT !.step = "beforeRun", !.ref = owned])
      \/ Throws(i) /\ UNCHANGED registry
  BY <1>1, <1>2, <1>4, Zenon DEF Take
<1>9. ASSUME Recoverable(ref), MayRegister(Reg(i), ref), SetReg(i, Update(Register(Reg(i), ref), owned)),
             Goes(i, [op EXCEPT !.step = "beforeRun", !.ref = owned])
      PROVE  /\ Here(id) /\ Open(Reg(i).byId[id], ops[i].ref.owner) /\ Reg(i).byPath[Path[id]] \in {None, id}
             /\ PathTaken(i, id)
             /\ \E new \in Operation :
                    /\ Goes(i, new) /\ Same(new, ops[i]) /\ new.step = "beforeRun" /\ new.created = ops[i].created
                    /\ new.ref.owner = new.for /\ new.ref.state = "ready" /\ new.ref.tree = ops[i].ref.tree
                    /\ Wrote(i, id, new.ref)
  <2>1. PICK new \in Operation : new = [op EXCEPT !.step = "beforeRun", !.ref = owned]
    BY ChangedType
  <2>2. /\ new.manager = op.manager /\ new.kind = op.kind /\ new.for = op.for /\ new.created = op.created
        /\ new.step = "beforeRun" /\ new.ref = owned
    BY <2>1 DEF Operation
  <2>3. Same(new, ops[i])
    BY <1>1, <1>2, <1>3, <1>5, <2>2 DEF Same
  <2>4. Here(id) /\ Open(Reg(i).byId[id], ops[i].ref.owner) /\ Reg(i).byPath[Path[id]] \in {None, id}
    BY <1>1, <1>2, <1>3, <1>9 DEF MayRegister, Open, Recoverable, IsReady, Here
  <2>5. Wrote(i, id, owned) /\ PathTaken(i, id)
    BY <1>1, <1>3, <1>5, <1>9, RegisterWrites
  <2> QED
    BY <1>1, <1>2, <1>5, <1>9, <2>1, <2>2, <2>3, <2>4, <2>5
<1> QED
  BY <1>6, <1>7, <1>8, <1>9

LEMMA BeforeRunDoes ==
  ASSUME Typed, NEW i \in 1..Len(ops), NEW id, id = ops[i].ref.id, BeforeRun(i)
  PROVE  /\ ops[i].kind \in {"prepare", "recover"} /\ ops[i].step = "beforeRun"
         /\ UNCHANGED <<git, at, known, held, bounds>> /\ Here(id) /\ PathsStay
         /\ \E op \in Operation :
              /\ Goes(i, op) /\ Same(op, ops[i]) /\ op.step = "return" /\ op.created = ops[i].created
              /\ op.ref.owner = ops[i].ref.owner /\ op.ref.state = ops[i].ref.state
              /\ op.ref.tree = disk[Path[id]].tree
              /\ Wrote(i, id, op.ref)
<1>1. PICK op \in Operation : op = ops[i]
  BY OpType
<1>2. PICK ref \in Reference : ref = op.ref
  BY <1>1, OpType
<1>3. id \in Ids /\ id = ref.id
  BY <1>1, <1>2 DEF Reference
<1>4. IsReady(ref) /\ At(i, {"prepare", "recover"}, "beforeRun") /\ UNCHANGED <<git, at, known, held, bounds>>
  BY <1>1, <1>2 DEF BeforeRun
<1>5. PICK ready \in Reference : ready = [ref EXCEPT !.tree = TreeAt(ref)]
  BY <1>4, TreeType DEF Reference
<1>6. ready.id = id /\ ready.owner = ref.owner /\ ready.state = ref.state /\ ready.tree = disk[Path[id]].tree
  BY <1>3, <1>5 DEF TreeAt, Reference
<1>7. SetReg(i, Update(Reg(i), ready)) /\ Goes(i, [op EXCEPT !.step = "return", !.ref = ready])
  BY <1>1, <1>2, <1>5, Zenon DEF BeforeRun, Returns
<1>8. PICK new \in Operation : new = [op EXCEPT !.step = "return", !.ref = ready]
  BY ChangedType
<1>9. /\ new.manager = op.manager /\ new.kind = op.kind /\ new.for = op.for /\ new.created = op.created
      /\ new.step = "return" /\ new.ref = ready
  BY <1>8 DEF Operation
<1>10. Same(new, ops[i])
  BY <1>1, <1>2, <1>3, <1>6, <1>9 DEF Same
<1>11. Wrote(i, id, ready) /\ PathsStay
  BY <1>6, <1>7, UpdateWrites
<1>12. Here(id)
  BY <1>3, <1>4 DEF IsReady, Here
<1>13. ops[i].kind \in {"prepare", "recover"} /\ ops[i].step = "beforeRun"
  BY <1>4 DEF At
<1> QED
  BY <1>1, <1>2, <1>4, <1>6, <1>7, <1>8, <1>9, <1>10, <1>11, <1>12, <1>13

LEMMA BeforeRunFailsDoes ==
  ASSUME Typed, NEW i \in 1..Len(ops), NEW id, id = ops[i].ref.id, BeforeRunFails(i)
  PROVE  /\ ops[i].kind \in {"prepare", "recover"} /\ ops[i].step = "beforeRun"
         /\ Throws(i) /\ UNCHANGED <<git, at, known, held, bounds>> /\ PathsStay
         /\ \E r \in Reference :
              /\ r.id = id /\ r.state = "retained" /\ r.owner = None
              /\ r.tree = IF Here(id) THEN disk[Path[id]].tree ELSE ops[i].ref.tree
              /\ Wrote(i, id, r)
<1>1. /\ At(i, {"prepare", "recover"}, "beforeRun") /\ SetReg(i, Update(Reg(i), RetainObserved(ops[i].ref)))
      /\ Throws(i) /\ UNCHANGED <<git, at, known, held, bounds>>
  BY DEF BeforeRunFails
<1>2. ops[i].kind \in {"prepare", "recover"} /\ ops[i].step = "beforeRun"
  BY <1>1 DEF At
<1> QED
  BY <1>1, <1>2, ObservedWrites

\* A workspace that a finish or a removal takes over, or not.
Adopts(i, id) ==
  /\ Reg(i).byId[id] = None /\ Reg(i).byPath[Path[id]] = None
  /\ Wrote(i, id, ops[i].ref) /\ PathTaken(i, id)

LEMMA AdoptedDoes ==
  ASSUME Typed, NEW i \in 1..Len(ops), NEW id, id = ops[i].ref.id, SetReg(i, Adopted(i, ops[i].ref))
  PROVE  UNCHANGED registry \/ (Adopts(i, id) /\ Adoptable(i, ops[i].ref))
<1>1. PICK ref \in Reference : ref = ops[i].ref
  BY OpType
<1>2. CASE Reg(i).byId[id] = None /\ Adoptable(i, ref) /\ MayRegister(Reg(i), ref)
  <2>1. SetReg(i, Register(Reg(i), ref))
    BY <1>1, <1>2 DEF Adopted
  <2>2. Wrote(i, id, ref) /\ PathTaken(i, id)
    BY <1>1, <2>1, RegisterWrites
  <2>3. Reg(i).byPath[Path[id]] = None
    BY <1>1, <1>2 DEF Adoptable
  <2> QED
    BY <1>1, <1>2, <2>2, <2>3 DEF Adopts
<1>3. CASE ~(Reg(i).byId[id] = None /\ Adoptable(i, ref) /\ MayRegister(Reg(i), ref))
  <2>1. SetReg(i, Reg(i))
    BY <1>1, <1>3 DEF Adopted
  <2>2. UNCHANGED registry
    BY <2>1 DEF SetReg, Reg, Typed
  <2> QED
    BY <2>2
<1> QED
  BY <1>2, <1>3

\* What is required of the registry that was written is so in it.
LEMMA RequiredIsWritten ==
  ASSUME Typed, NEW i \in 1..Len(ops), NEW id, id = ops[i].ref.id,
         SetReg(i, Adopted(i, ops[i].ref)), Required(Adopted(i, ops[i].ref), ops[i].ref)
  PROVE  registry'[ops[i].manager].byId[id] = ops[i].ref
BY OpType DEF SetReg, Required, Typed

LEMMA AdoptToFinishDoes ==
  ASSUME Typed, NEW i \in 1..Len(ops), NEW id, id = ops[i].ref.id, AdoptToFinish(i)
  PROVE  /\ CanRun(i) /\ ops[i].kind = "finish" /\ ops[i].step = "adopt"
         /\ UNCHANGED <<git, at, known, held, bounds>>
         /\ UNCHANGED registry \/ Adopts(i, id)
         /\ \/ Throws(i)
            \/ /\ ops[i].ref.state = "ready" /\ registry'[ops[i].manager].byId[id] = ops[i].ref
               /\ \E op \in Operation :
                    /\ Goes(i, op) /\ Same(op, ops[i]) /\ op.ref = ops[i].ref /\ op.created = ops[i].created
                    /\ op.step = "afterRun"
<1>1. PICK op \in Operation : op = ops[i]
  BY OpType
<1>2. PICK new \in Operation : new = [op EXCEPT !.step = "afterRun"]
  BY DEF Operation
<1>3. /\ new.manager = op.manager /\ new.kind = op.kind /\ new.for = op.for /\ new.created = op.created
      /\ new.step = "afterRun" /\ new.ref = op.ref
  BY <1>2 DEF Operation
<1>4. Same(new, ops[i])
  BY <1>1, <1>3 DEF Same
<1>5. /\ At(i, {"finish"}, "adopt") /\ UNCHANGED <<git, at, known, held, bounds>>
      /\ SetReg(i, Adopted(i, ops[i].ref))
      /\ \/ Throws(i)
         \/ Required(Adopted(i, ops[i].ref), ops[i].ref) /\ ops[i].ref.state = "ready" /\ Goes(i, new)
  BY <1>1, <1>2 DEF AdoptToFinish
<1>6. UNCHANGED registry \/ Adopts(i, id)
  BY <1>5, AdoptedDoes
<1>7. Required(Adopted(i, ops[i].ref), ops[i].ref) => registry'[ops[i].manager].byId[id] = ops[i].ref
  BY <1>5, RequiredIsWritten
<1>8. CanRun(i) /\ ops[i].kind = "finish" /\ ops[i].step = "adopt"
  BY <1>5 DEF At
<1> QED
  BY <1>1, <1>3, <1>4, <1>5, <1>6, <1>7, <1>8

LEMMA AfterRunDoes ==
  ASSUME Typed, NEW i \in 1..Len(ops), NEW id, id = ops[i].ref.id, AfterRun(i)
  PROVE  /\ ops[i].kind = "finish" /\ ops[i].step = "afterRun" /\ UNCHANGED <<git, at, known, held, bounds>>
         /\ \/ Throws(i) /\ UNCHANGED registry
            \/ /\ Here(id) /\ PathsStay
               /\ \E op \in Operation :
                    /\ Goes(i, op) /\ Same(op, ops[i]) /\ op.step = "return" /\ op.created = ops[i].created
                    /\ op.ref.owner = None /\ op.ref.state = "retained" /\ op.ref.tree = disk[Path[id]].tree
                    /\ Wrote(i, id, op.ref)
<1>1. PICK op \in Operation : op = ops[i]
  BY OpType
<1>2. PICK ref \in Reference : ref = op.ref
  BY <1>1, OpType
<1>3. id \in Ids /\ id = ref.id
  BY <1>1, <1>2 DEF Reference
<1>4. At(i, {"finish"}, "afterRun") /\ UNCHANGED <<git, at, known, held, bounds>>
  BY DEF AfterRun
<1>5. ops[i].kind = "finish" /\ ops[i].step = "afterRun"
  BY <1>4 DEF At
<1>6. CASE IsReady(ref)
  <2>1. PICK kept \in Reference : kept = Ref(ref.id, TreeAt(ref), "retained", None)
    BY <1>6, TreeType DEF Ref, Reference
  <2>2. kept.id = id /\ kept.owner = None /\ kept.state = "retained" /\ kept.tree = disk[Path[id]].tree
    BY <1>3, <2>1 DEF Ref, TreeAt
  <2>3. SetReg(i, Update(Reg(i), kept)) /\ Goes(i, [op EXCEPT !.step = "return", !.ref = kept])
    BY <1>1, <1>2, <1>6, <2>1 DEF AfterRun, Returns
  <2>4. PICK new \in Operation : new = [op EXCEPT !.step = "return", !.ref = kept]
    BY ChangedType
  <2>5. /\ new.manager = op.manager /\ new.kind = op.kind /\ new.for = op.for /\ new.created = op.created
        /\ new.step = "return" /\ new.ref = kept
    BY <2>4 DEF Operation
  <2>6. Same(new, ops[i])
    BY <1>1, <1>2, <1>3, <2>2, <2>5 DEF Same
  <2>7. Wrote(i, id, kept) /\ PathsStay
    BY <2>2, <2>3, UpdateWrites
  <2>8. Here(id)
    BY <1>3, <1>6 DEF IsReady, Here
  <2> QED
    BY <1>1, <1>4, <1>5, <2>2, <2>3, <2>4, <2>5, <2>6, <2>7, <2>8
<1>7. CASE ~IsReady(ref)
  <2>1. Throws(i) /\ UNCHANGED registry
    BY <1>1, <1>2, <1>7 DEF AfterRun
  <2> QED
    BY <1>4, <1>5, <2>1
<1> QED
  BY <1>6, <1>7

LEMMA AdoptToRemoveDoes ==
  ASSUME Typed, NEW i \in 1..Len(ops), NEW id, id = ops[i].ref.id, AdoptToRemove(i)
  PROVE  /\ CanRun(i) /\ ops[i].kind = "remove" /\ ops[i].step = "adopt"
         /\ UNCHANGED <<git, at, known, held, bounds>>
         /\ UNCHANGED registry \/ (Adopts(i, id) /\ ops[i].ref.state # "ready")
         /\ \/ Throws(i)
            \/ /\ registry'[ops[i].manager].byId[id] = ops[i].ref
               /\ \E op \in Operation :
                    /\ Goes(i, op) /\ Same(op, ops[i]) /\ op.ref = ops[i].ref /\ op.created = ops[i].created
                    /\ \/ op.step = "return" /\ op.ref.state = "released"
                       \/ op.step = "beforeRemove" /\ op.ref.state = "retained" /\ op.ref.owner = None
<1>1. PICK op \in Operation : op = ops[i]
  BY OpType
<1>2. PICK new \in Operation : new = [op EXCEPT !.step = "beforeRemove"]
  BY DEF Operation
<1>3. /\ new.manager = op.manager /\ new.kind = op.kind /\ new.for = op.for /\ new.created = op.created
      /\ new.step = "beforeRemove" /\ new.ref = op.ref
  BY <1>2 DEF Operation
<1>4. PICK gone \in Operation : gone = [op EXCEPT !.step = "return", !.ref = ops[i].ref]
  BY <1>1, OpType, ChangedType
<1>5. /\ gone.manager = op.manager /\ gone.kind = op.kind /\ gone.for = op.for /\ gone.created = op.created
      /\ gone.step = "return" /\ gone.ref = op.ref
  BY <1>1, <1>4 DEF Operation
<1>6. Same(new, ops[i]) /\ Same(gone, ops[i])
  BY <1>1, <1>3, <1>5 DEF Same
<1>7. At(i, {"remove"}, "adopt") /\ UNCHANGED <<git, at, known, held, bounds>> /\ SetReg(i, Adopted(i, ops[i].ref))
  BY DEF AdoptToRemove
<1>8. \/ Throws(i)
      \/ /\ Required(Adopted(i, ops[i].ref), ops[i].ref)
         /\ \/ ops[i].ref.state = "released" /\ Goes(i, gone)
            \/ ops[i].ref.state = "retained" /\ ops[i].ref.owner = None /\ Goes(i, new)
  BY <1>1, <1>2, <1>4, Zenon DEF AdoptToRemove, Returns
<1>9. UNCHANGED registry \/ (Adopts(i, id) /\ ops[i].ref.state # "ready")
  <2>1. ops[i].kind = "remove"
    BY <1>7 DEF At
  <2>2. Adoptable(i, ops[i].ref) => ops[i].ref.state # "ready"
    BY <2>1 DEF Adoptable
  <2> QED
    BY <1>7, <2>2, AdoptedDoes
<1>10. Required(Adopted(i, ops[i].ref), ops[i].ref) => registry'[ops[i].manager].byId[id] = ops[i].ref
  BY <1>7, RequiredIsWritten
<1>11. CanRun(i) /\ ops[i].kind = "remove" /\ ops[i].step = "adopt"
  BY <1>7 DEF At
<1>12. gone.ref = ops[i].ref /\ new.ref = ops[i].ref /\ gone.created = ops[i].created /\ new.created = ops[i].created
  BY <1>1, <1>3, <1>5
<1>13. CASE Throws(i)
  BY <1>7, <1>9, <1>11, <1>13
<1>14. CASE /\ Required(Adopted(i, ops[i].ref), ops[i].ref) /\ ops[i].ref.state = "released" /\ Goes(i, gone)
  BY <1>5, <1>6, <1>7, <1>9, <1>10, <1>11, <1>12, <1>14
<1>15. CASE /\ Required(Adopted(i, ops[i].ref), ops[i].ref)
            /\ ops[i].ref.state = "retained" /\ ops[i].ref.owner = None /\ Goes(i, new)
  BY <1>3, <1>6, <1>7, <1>9, <1>10, <1>11, <1>12, <1>15
<1> QED
  BY <1>8, <1>13, <1>14, <1>15

LEMMA RemoveWorktreeDoes ==
  ASSUME Typed, NEW i \in 1..Len(ops), NEW id, id = ops[i].ref.id, RemoveWorktree(i)
  PROVE  /\ ops[i].kind = "remove" /\ ops[i].step = "beforeRemove"
         /\ UNCHANGED <<branches, at, known, held, bounds>>
         /\ \/ Throws(i) /\ UNCHANGED <<disk, registry>>
            \/ /\ Here(id) \/ disk[Path[id]] = None
               /\ disk' = [disk EXCEPT ![Path[id]] = None] /\ PathsStay
               /\ \E op \in Operation :
                    /\ Goes(i, op) /\ Same(op, ops[i]) /\ op.step = "return" /\ op.created = ops[i].created
                    /\ op.ref.owner = ops[i].ref.owner /\ op.ref.state = "released" /\ op.ref.tree = ops[i].ref.tree
                    /\ Wrote(i, id, op.ref)
<1>1. PICK op \in Operation : op = ops[i]
  BY OpType
<1>2. PICK ref \in Reference : ref = op.ref
  BY <1>1, OpType
<1>3. id \in Ids /\ id = ref.id
  BY <1>1, <1>2 DEF Reference
<1>4. PICK gone \in Reference : gone = [ref EXCEPT !.state = "released"]
  BY DEF Reference
<1>5. gone.id = id /\ gone.owner = ref.owner /\ gone.state = "released" /\ gone.tree = ref.tree
  BY <1>3, <1>4 DEF Reference
<1>6. At(i, {"remove"}, "beforeRemove") /\ UNCHANGED <<branches, at, known, held, bounds>>
  BY DEF RemoveWorktree
<1>7. \/ Throws(i) /\ UNCHANGED <<disk, registry>>
      \/ /\ IsReady(ref) \/ StillRemovable(ref)
         /\ disk' = [disk EXCEPT ![Path[id]] = None]
         /\ SetReg(i, Update(Reg(i), gone)) /\ Goes(i, [op EXCEPT !.step = "return", !.ref = gone])
  BY <1>1, <1>2, <1>3, <1>4, Zenon DEF RemoveWorktree, Returns
<1>8. IsReady(ref) \/ StillRemovable(ref) => Here(id) \/ disk[Path[id]] = None
  BY <1>3 DEF StillRemovable, Removable, Absent, IsReady, Here
<1>9. PICK new \in Operation : new = [op EXCEPT !.step = "return", !.ref = gone]
  BY ChangedType
<1>10. /\ new.manager = op.manager /\ new.kind = op.kind /\ new.for = op.for /\ new.created = op.created
       /\ new.step = "return" /\ new.ref = gone
  BY <1>9 DEF Operation
<1>11. Same(new, ops[i])
  BY <1>1, <1>2, <1>3, <1>5, <1>10 DEF Same
<1>12. SetReg(i, Update(Reg(i), gone)) => Wrote(i, id, gone) /\ PathsStay
  BY <1>5, UpdateWrites
<1>13. ops[i].kind = "remove" /\ ops[i].step = "beforeRemove"
  BY <1>6 DEF At
<1> QED
  BY <1>1, <1>2, <1>5, <1>6, <1>7, <1>8, <1>9, <1>10, <1>11, <1>12, <1>13

-----------------------------------------------------------------------------
(* Operations and their order *)

\* The steps of each call, and whose workspace its reference says it is.
Shape(op) ==
  /\ op.kind = "prepare" =>
       /\ op.step \in {"add", "register", "afterCreate", "beforeRun", "return"}
       /\ op.for # None /\ op.ref.owner = op.for /\ op.ref.state = "ready"
  /\ op.kind = "recover" =>
       /\ op.step \in {"take", "beforeRun", "return"} /\ op.for # None
       /\ op.step = "take" => op.ref.owner = None
       /\ op.step # "take" => op.ref.owner = op.for /\ op.ref.state = "ready"
  /\ op.kind = "finish" => op.step \in {"adopt", "afterRun", "return"} /\ op.for = None
  /\ op.kind = "remove" => op.step \in {"adopt", "beforeRemove", "return"} /\ op.for = None
  /\ op.kind \in {"finish", "remove"} /\ op.step = "return" => op.ref.owner = None
  /\ op.ref.state # "ready" => op.ref.owner = None
  /\ op.step = "afterCreate" => op.created
  /\ op.created => op.kind = "prepare" /\ op.step # "add"
  /\ op.step = "afterRun" => op.ref.state = "ready"
  /\ op.step = "beforeRemove" => op.ref.state = "retained"

\* Operations wait for their turn at these steps: #exclusive.
Waiting == {"add", "take", "adopt"}

Alike(x, y) == x.manager = y.manager /\ Path[x.ref.id] = Path[y.ref.id]
InOrder ==
  \A i, j \in 1..Len(ops) :
    i < j /\ Alike(ops[i], ops[j]) /\ ops[j].step \notin Waiting => ops[i].step = "return"

\* The log names the holder of each workspace.
KnownRight(id) ==
  IF known[id] = None THEN held[id] = None
  ELSE /\ known[id].id = id /\ held[id] = known[id].owner
       /\ known[id].state # "ready" => known[id].owner = None

Queued ==
  /\ \A i \in 1..Len(ops) : Shape(ops[i]) /\ at[ops[i].ref.id] = ops[i].manager
  /\ InOrder
  /\ \A id \in Ids : KnownRight(id)

LEMMA InitQueued == Init => Queued
<1> SUFFICES ASSUME Init PROVE Queued
  OBVIOUS
<1>1. Len(ops) = 0
  BY DEF Init
<1> QED
  BY <1>1 DEF Init, Queued, InOrder, KnownRight

\* A step is made when its turn has come.
LEMMA TurnIsFirst ==
  ASSUME Typed, Queued, NEW i \in 1..Len(ops), CanRun(i) \/ ops[i].step \notin Waiting,
         NEW j \in 1..Len(ops), j < i, Alike(ops[j], ops[i])
  PROVE  ops[j].step = "return"
<1>1. CASE ops[i].step \notin Waiting
  BY <1>1 DEF Queued, InOrder
<1>2. CASE CanRun(i)
  <2>1. j \in 1..(i - 1)
    OBVIOUS
  <2> QED
    BY <1>2, <2>1 DEF CanRun, Alike
<1> QED
  BY <1>1, <1>2

\* The later ones still wait.
LEMMA OthersWait ==
  ASSUME Typed, Queued, NEW i \in 1..Len(ops), ops[i].step # "return",
         NEW j \in 1..Len(ops), i < j, Alike(ops[i], ops[j])
  PROVE  ops[j].step \in Waiting
BY DEF Queued, InOrder

\* An operation goes on.
LEMMA GoesQueued ==
  ASSUME Typed, Queued, NEW i \in 1..Len(ops), NEW op \in Operation, Goes(i, op), Same(op, ops[i]), Shape(op),
         CanRun(i) \/ ops[i].step \notin Waiting, ops[i].step # "return", UNCHANGED <<at, known, held>>
  PROVE  Queued'
<1>1. /\ Len(ops') = Len(ops) /\ ops'[i] = op
      /\ \A j \in 1..Len(ops) : j # i => ops'[j] = ops[j]
  BY GoesKeeps
<1>2. \A x : Alike(x, op) = Alike(x, ops[i]) /\ Alike(op, x) = Alike(ops[i], x)
  BY DEF Same, Alike
<1>3. \A j \in 1..Len(ops') : Shape(ops'[j]) /\ at'[ops'[j].ref.id] = ops'[j].manager
  BY <1>1 DEF Queued, Same
<1>4. ASSUME NEW j \in 1..Len(ops'), NEW k \in 1..Len(ops'), j < k, Alike(ops'[j], ops'[k]), ops'[k].step \notin Waiting
      PROVE  ops'[j].step = "return"
  <2>1. CASE k = i
    BY <1>1, <1>2, <1>4, <2>1, TurnIsFirst
  <2>2. CASE j = i
    BY <1>1, <1>2, <1>4, <2>2, OthersWait
  <2>3. CASE j # i /\ k # i
    BY <1>1, <1>4, <2>3 DEF Queued, InOrder
  <2> QED
    BY <2>1, <2>2, <2>3
<1>5. InOrder'
  BY <1>4 DEF InOrder, Alike
<1>6. \A id \in Ids : KnownRight(id)'
  BY DEF Queued, KnownRight
<1> QED
  BY <1>3, <1>5, <1>6 DEF Queued, Shape

\* An operation ends.
LEMMA EndsQueued ==
  ASSUME Typed, Queued, NEW i \in 1..Len(ops), Throws(i), UNCHANGED at, \A id \in Ids : KnownRight(id)'
  PROVE  Queued'
<1>1. PICK f \in [1..Len(ops') -> 1..Len(ops)] :
           /\ \A k \in 1..Len(ops') : ops'[k] = ops[f[k]] /\ f[k] # i
           /\ \A k, l \in 1..Len(ops') : k < l => f[k] < f[l]
  BY ThrowsMaps
<1>2. \A j \in 1..Len(ops') : Shape(ops'[j]) /\ at'[ops'[j].ref.id] = ops'[j].manager
  BY <1>1 DEF Queued
<1>3. ASSUME NEW j \in 1..Len(ops'), NEW k \in 1..Len(ops'), j < k, Alike(ops'[j], ops'[k]), ops'[k].step \notin Waiting
      PROVE  ops'[j].step = "return"
  BY <1>1, <1>3 DEF Queued, InOrder
<1>4. InOrder'
  BY <1>3 DEF InOrder, Alike
<1> QED
  BY <1>2, <1>4 DEF Queued, Shape

\* A call is the last to have its turn.
LEMMA CallQueued ==
  ASSUME Typed, Queued, NEW m \in Managers, NEW kind \in {"prepare", "recover", "finish", "remove"},
         NEW s \in Waiting, NEW ref \in Reference, NEW a \in Attempts \cup {None},
         NEW discard \in BOOLEAN, Call(m, kind, s, ref, a, discard),
         Shape([manager |-> m, kind |-> kind, step |-> s, ref |-> ref, for |-> a, created |-> FALSE, discard |-> discard])
  PROVE  Queued'
<1>1. PICK op : op = [manager |-> m, kind |-> kind, step |-> s, ref |-> ref, for |-> a,
                      created |-> FALSE, discard |-> discard]
  OBVIOUS
<1>2. op.step \in Waiting /\ op.manager = m /\ op.ref = ref /\ Shape(op)
  BY <1>1
<1>3. /\ ops' = Append(ops, op) /\ at' = [at EXCEPT ![ref.id] = m] /\ UNCHANGED <<known, held>> /\ Claimed(m, ref.id)
  BY <1>1 DEF Call
<1>4. /\ Len(ops') = Len(ops) + 1 /\ ops'[Len(ops) + 1] = op /\ Len(ops) \in Nat
      /\ \A j \in 1..Len(ops) : ops'[j] = ops[j]
  BY <1>3, CallKeeps
<1>5. ref.id \in Ids /\ at'[ref.id] = m /\ \A id \in Ids : id # ref.id => at'[id] = at[id]
  BY <1>3 DEF Typed, Reference
<1>6. ASSUME NEW j \in 1..Len(ops) PROVE at'[ops[j].ref.id] = ops[j].manager
  BY <1>3, <1>5, OpType DEF Claimed, Queued
<1>7. \A j \in 1..Len(ops') : Shape(ops'[j]) /\ at'[ops'[j].ref.id] = ops'[j].manager
  <2> TAKE j \in 1..Len(ops')
  <2>1. CASE j \in 1..Len(ops)
    BY <1>4, <1>6, <2>1 DEF Queued
  <2>2. CASE j = Len(ops) + 1
    BY <1>2, <1>4, <1>5, <2>2
  <2> QED
    BY <1>4, <2>1, <2>2
<1>8. ASSUME NEW j \in 1..Len(ops'), NEW k \in 1..Len(ops'), j < k, Alike(ops'[j], ops'[k]), ops'[k].step \notin Waiting
      PROVE  ops'[j].step = "return"
  <2>1. k # Len(ops) + 1
    BY <1>2, <1>4, <1>8
  <2>2. j \in 1..Len(ops) /\ k \in 1..Len(ops)
    BY <1>4, <1>8, <2>1
  <2> QED
    BY <1>4, <1>8, <2>2 DEF Queued, InOrder
<1>9. InOrder'
  BY <1>8 DEF InOrder, Alike
<1>10. \A id \in Ids : KnownRight(id)'
  BY <1>3 DEF Queued, KnownRight
<1> QED
  BY <1>7, <1>9, <1>10 DEF Queued, Shape

LEMMA CallsQueued ==
  ASSUME Typed, Queued, NEW m \in Managers, NEW id \in Ids,
         \/ \E a \in Attempts : Prepare(m, id, a) \/ Recover(m, id, a)
         \/ Finish(m, id)
         \/ \E discard \in BOOLEAN : RemoveWorkspace(m, id, discard)
  PROVE  Queued'
<1>1. ASSUME NEW a \in Attempts, Prepare(m, id, a) PROVE Queued'
  <2>1. PICK ref \in Reference : ref = Ref(id, None, "ready", a)
    BY DEF Ref, Reference
  <2>2. ref.owner = a /\ ref.state = "ready" /\ a # None
    BY <2>1, WorkspaceNone DEF Ref
  <2>3. Shape([manager |-> m, kind |-> "prepare", step |-> "add", ref |-> ref, for |-> a,
               created |-> FALSE, discard |-> FALSE])
    BY <2>2 DEF Shape
  <2>4. Call(m, "prepare", "add", ref, a, FALSE)
    BY <1>1, <2>1 DEF Prepare
  <2> QED
    BY <2>3, <2>4, CallQueued DEF Waiting
<1>2. ASSUME known[id] # None
      PROVE  /\ known[id] \in Reference /\ (known[id].state # "ready" => known[id].owner = None)
             /\ \A kind \in {"finish", "remove"}, discard \in BOOLEAN :
                  Shape([manager |-> m, kind |-> kind, step |-> "adopt", ref |-> known[id], for |-> None,
                         created |-> FALSE, discard |-> discard])
  <2>1. known[id] \in Reference /\ (known[id].state # "ready" => known[id].owner = None)
    BY <1>2 DEF Typed, Queued, KnownRight
  <2> QED
    BY <2>1 DEF Shape
<1>3. ASSUME NEW a \in Attempts, Recover(m, id, a) PROVE Queued'
  <2>1. known[id] # None /\ known[id].owner = None /\ a # None /\ Call(m, "recover", "take", known[id], a, FALSE)
    BY <1>3, WorkspaceNone DEF Recover
  <2>2. Shape([manager |-> m, kind |-> "recover", step |-> "take", ref |-> known[id], for |-> a,
               created |-> FALSE, discard |-> FALSE])
    BY <2>1 DEF Shape
  <2> QED
    BY <1>2, <2>1, <2>2, CallQueued DEF Waiting
<1>4. CASE Finish(m, id)
  BY <1>2, <1>4, CallQueued DEF Finish, Waiting
<1>5. ASSUME NEW discard \in BOOLEAN, RemoveWorkspace(m, id, discard) PROVE Queued'
  BY <1>2, <1>5, CallQueued DEF RemoveWorkspace, Waiting
<1> QED
  BY <1>1, <1>3, <1>4, <1>5

LEMMA KnownStays ==
  ASSUME Queued, UNCHANGED <<known, held>>
  PROVE  \A id \in Ids : KnownRight(id)'
BY DEF Queued, KnownRight

\* The steps of the operations.
LEMMA StepsQueued ==
  ASSUME Typed, Queued, NEW i \in 1..Len(ops),
         \/ AddWorktree(i) \/ RegisterPrepared(i) \/ AfterCreate(i) \/ AfterCreateFails(i)
         \/ Take(i) \/ BeforeRun(i) \/ BeforeRunFails(i)
         \/ AdoptToFinish(i) \/ AfterRun(i)
         \/ AdoptToRemove(i) \/ RemoveWorktree(i)
  PROVE  Queued'
<1>1. PICK id \in Ids : id = ops[i].ref.id
  BY OpType
<1>2. Shape(ops[i])
  BY DEF Queued
<1>3. CASE AddWorktree(i)
  <2>1. CASE Throws(i)
    BY <1>1, <1>3, <2>1, AddWorktreeDoes, EndsQueued, KnownStays
  <2>2. CASE ~Throws(i)
    <3>1. PICK op \in Operation :
            /\ Goes(i, op) /\ Same(op, ops[i]) /\ op.step = "register"
            /\ op.ref.owner = ops[i].ref.owner /\ op.ref.state = ops[i].ref.state
      BY <1>1, <1>3, <2>2, AddWorktreeDoes
    <3>2. /\ CanRun(i) /\ ops[i].kind = "prepare" /\ ops[i].step = "add"
          /\ UNCHANGED <<at, known, held>>
      BY <1>1, <1>3, AddWorktreeDoes
    <3>3. Shape(op)
      BY <1>2, <3>1, <3>2 DEF Shape, Same
    <3> QED
      BY <3>1, <3>2, <3>3, GoesQueued
  <2> QED
    BY <2>1, <2>2
<1>4. CASE RegisterPrepared(i)
  <2>1. CASE Throws(i)
    BY <1>1, <1>4, <2>1, RegisterPreparedDoes, EndsQueued, KnownStays
  <2>2. CASE ~Throws(i)
    <3>1. PICK op \in Operation :
            /\ Goes(i, op) /\ Same(op, ops[i]) /\ op.ref = ops[i].ref /\ op.created = ops[i].created
            /\ op.step = IF op.created THEN "afterCreate" ELSE "beforeRun"
      BY <1>1, <1>4, <2>2, RegisterPreparedDoes
    <3>2. CanRun(i) /\ ops[i].kind = "prepare" /\ ops[i].step = "register" /\ UNCHANGED <<at, known, held>>
      BY <1>1, <1>4, RegisterPreparedDoes
    <3>3. Shape(op)
      BY <1>2, <3>1, <3>2 DEF Shape, Same
    <3> QED
      BY <3>1, <3>2, <3>3, GoesQueued
  <2> QED
    BY <2>1, <2>2
<1>5. CASE AfterCreate(i)
  <2>1. PICK op \in Operation :
            /\ Goes(i, op) /\ Same(op, ops[i]) /\ op.ref = ops[i].ref /\ op.created = ops[i].created
            /\ op.step = "beforeRun"
    BY <1>5, AfterCreateDoes
  <2>2. ops[i].kind = "prepare" /\ ops[i].step = "afterCreate" /\ UNCHANGED <<at, known, held>>
    BY <1>5, AfterCreateDoes
  <2>3. Shape(op)
    BY <1>2, <2>1, <2>2 DEF Shape, Same
  <2> QED
    BY <2>1, <2>2, <2>3, GoesQueued DEF Waiting
<1>6. CASE AfterCreateFails(i)
  BY <1>1, <1>6, AfterCreateFailsDoes, EndsQueued, KnownStays
<1>7. CASE Take(i)
  <2>1. CASE Throws(i)
    BY <1>1, <1>7, <2>1, TakeDoes, EndsQueued, KnownStays
  <2>2. CASE ~Throws(i)
    <3>1. PICK op \in Operation :
            /\ Goes(i, op) /\ Same(op, ops[i]) /\ op.step = "beforeRun" /\ op.created = ops[i].created
            /\ op.ref.owner = op.for /\ op.ref.state = "ready"
      BY <1>1, <1>7, <2>2, TakeDoes
    <3>2. CanRun(i) /\ ops[i].kind = "recover" /\ ops[i].step = "take" /\ UNCHANGED <<at, known, held>>
      BY <1>1, <1>7, TakeDoes
    <3>3. Shape(op)
      BY <1>2, <3>1, <3>2 DEF Shape, Same
    <3> QED
      BY <3>1, <3>2, <3>3, GoesQueued
  <2> QED
    BY <2>1, <2>2
<1>8. CASE BeforeRun(i)
  <2>1. PICK op \in Operation :
            /\ Goes(i, op) /\ Same(op, ops[i]) /\ op.step = "return" /\ op.created = ops[i].created
            /\ op.ref.owner = ops[i].ref.owner /\ op.ref.state = ops[i].ref.state
    BY <1>1, <1>8, BeforeRunDoes
  <2>2. /\ ops[i].kind \in {"prepare", "recover"} /\ ops[i].step = "beforeRun"
        /\ UNCHANGED <<at, known, held>>
    BY <1>1, <1>8, BeforeRunDoes
  <2>3. Shape(op)
    BY <1>2, <2>1, <2>2 DEF Shape, Same
  <2> QED
    BY <2>1, <2>2, <2>3, GoesQueued DEF Waiting
<1>9. CASE BeforeRunFails(i)
  BY <1>1, <1>9, BeforeRunFailsDoes, EndsQueued, KnownStays
<1>10. CASE AdoptToFinish(i)
  <2>1. CASE Throws(i)
    BY <1>1, <1>10, <2>1, AdoptToFinishDoes, EndsQueued, KnownStays
  <2>2. CASE ~Throws(i)
    <3>1. PICK op \in Operation :
            /\ Goes(i, op) /\ Same(op, ops[i]) /\ op.ref = ops[i].ref /\ op.created = ops[i].created
            /\ op.step = "afterRun"
      BY <1>1, <1>10, <2>2, AdoptToFinishDoes
    <3>2. /\ CanRun(i) /\ ops[i].kind = "finish" /\ ops[i].step = "adopt" /\ UNCHANGED <<at, known, held>>
          /\ ops[i].ref.state = "ready"
      BY <1>1, <1>10, <2>2, AdoptToFinishDoes
    <3>3. Shape(op)
      BY <1>2, <3>1, <3>2 DEF Shape, Same
    <3> QED
      BY <3>1, <3>2, <3>3, GoesQueued
  <2> QED
    BY <2>1, <2>2
<1>11. CASE AfterRun(i)
  <2>1. CASE Throws(i)
    BY <1>1, <1>11, <2>1, AfterRunDoes, EndsQueued, KnownStays
  <2>2. CASE ~Throws(i)
    <3>1. PICK op \in Operation :
            /\ Goes(i, op) /\ Same(op, ops[i]) /\ op.step = "return" /\ op.created = ops[i].created
            /\ op.ref.owner = None /\ op.ref.state = "retained"
      BY <1>1, <1>11, <2>2, AfterRunDoes
    <3>2. ops[i].kind = "finish" /\ ops[i].step = "afterRun" /\ UNCHANGED <<at, known, held>>
      BY <1>1, <1>11, AfterRunDoes
    <3>3. Shape(op)
      BY <1>2, <3>1, <3>2 DEF Shape, Same
    <3> QED
      BY <3>1, <3>2, <3>3, GoesQueued DEF Waiting
  <2> QED
    BY <2>1, <2>2
<1>12. CASE AdoptToRemove(i)
  <2>1. CASE Throws(i)
    BY <1>1, <1>12, <2>1, AdoptToRemoveDoes, EndsQueued, KnownStays
  <2>2. CASE ~Throws(i)
    <3>1. PICK op \in Operation :
            /\ Goes(i, op) /\ Same(op, ops[i]) /\ op.ref = ops[i].ref /\ op.created = ops[i].created
            /\ \/ op.step = "return" /\ op.ref.state = "released"
               \/ op.step = "beforeRemove" /\ op.ref.state = "retained" /\ op.ref.owner = None
      BY <1>1, <1>12, <2>2, AdoptToRemoveDoes
    <3>2. CanRun(i) /\ ops[i].kind = "remove" /\ ops[i].step = "adopt" /\ UNCHANGED <<at, known, held>>
      BY <1>1, <1>12, AdoptToRemoveDoes
    <3>3. Shape(op)
      BY <1>2, <3>1, <3>2 DEF Shape, Same
    <3> QED
      BY <3>1, <3>2, <3>3, GoesQueued
  <2> QED
    BY <2>1, <2>2
<1>13. CASE RemoveWorktree(i)
  <2>1. CASE Throws(i)
    BY <1>1, <1>13, <2>1, RemoveWorktreeDoes, EndsQueued, KnownStays
  <2>2. CASE ~Throws(i)
    <3>1. PICK op \in Operation :
            /\ Goes(i, op) /\ Same(op, ops[i]) /\ op.step = "return" /\ op.created = ops[i].created
            /\ op.ref.owner = ops[i].ref.owner /\ op.ref.state = "released"
      BY <1>1, <1>13, <2>2, RemoveWorktreeDoes
    <3>2. ops[i].kind = "remove" /\ ops[i].step = "beforeRemove" /\ UNCHANGED <<at, known, held>>
      BY <1>1, <1>13, RemoveWorktreeDoes
    <3>3. Shape(op)
      BY <1>2, <3>1, <3>2 DEF Shape, Same
    <3> QED
      BY <3>1, <3>2, <3>3, GoesQueued DEF Waiting
  <2> QED
    BY <2>1, <2>2
<1> QED
  BY <1>3, <1>4, <1>5, <1>6, <1>7, <1>8, <1>9, <1>10, <1>11, <1>12, <1>13

LEMMA ReturnDoes ==
  ASSUME Typed, NEW i \in 1..Len(ops), NEW id, id = ops[i].ref.id, Return(i)
  PROVE  /\ ops[i].step = "return" /\ \A j \in 1..(i - 1) : ops[j].ref.id # id
         /\ Throws(i) /\ UNCHANGED <<git, registry, at, bounds>>
         /\ known'[id] = ops[i].ref /\ held'[id] = ops[i].ref.owner
         /\ \A x \in Ids : x # id => known'[x] = known[x] /\ held'[x] = held[x]
<1>1. PICK ref \in Reference : ref = ops[i].ref
  BY OpType
<1>2. id \in Ids
  BY OpType
<1>3. /\ known' = [known EXCEPT ![id] = ref] /\ held' = [held EXCEPT ![id] = ref.owner]
  BY <1>1 DEF Return
<1>4. Throws(i) /\ UNCHANGED <<git, registry, at, bounds>>
  BY DEF Return, Throws
<1>5. ops[i].step = "return" /\ \A j \in 1..(i - 1) : ops[j].ref.id # id
  BY DEF Return
<1> QED
  BY <1>1, <1>2, <1>3, <1>4, <1>5 DEF Typed

LEMMA ReturnQueued ==
  ASSUME Typed, Queued, NEW i \in 1..Len(ops), Return(i)
  PROVE  Queued'
<1>1. PICK id \in Ids : id = ops[i].ref.id
  BY OpType
<1>2. ops[i].ref \in Reference /\ Shape(ops[i])
  BY OpType DEF Queued
<1>3. ops[i].ref # None
  BY <1>2, WorkspaceNone
<1>4. ASSUME NEW x \in Ids PROVE KnownRight(x)'
  <2>1. CASE x = id
    BY <1>1, <1>2, <1>3, <2>1, ReturnDoes DEF KnownRight, Shape
  <2>2. CASE x # id
    BY <1>1, <2>2, ReturnDoes DEF KnownRight, Queued
  <2> QED
    BY <2>1, <2>2
<1>5. Throws(i) /\ UNCHANGED at
  BY <1>1, ReturnDoes
<1> QED
  BY <1>4, <1>5, EndsQueued

LEMMA NextQueued ==
  ASSUME Typed, Queued, [Next]_vars
  PROVE  Queued'
<1>1. ASSUME UNCHANGED <<ops, at, known, held>> PROVE Queued'
  BY <1>1 DEF Queued, InOrder, Alike, KnownRight, Shape
<1>2. ASSUME NEW p \in Paths, Edit(p) PROVE Queued'
  BY <1>1, <1>2 DEF Edit
<1>3. ASSUME NEW m \in Managers, Renew(m) PROVE Queued'
  BY <1>1, <1>3 DEF Renew
<1>4. CASE Crash
  <2>1. Len(ops') = 0 /\ UNCHANGED <<at, known, held>>
    BY <1>4 DEF Crash
  <2> QED
    BY <2>1 DEF Queued, InOrder, KnownRight
<1>5. CASE UNCHANGED vars
  BY <1>1, <1>5 DEF vars
<1>6. ASSUME NEW m \in Managers, NEW id \in Ids,
             \/ \E a \in Attempts : Prepare(m, id, a) \/ Recover(m, id, a)
             \/ Finish(m, id)
             \/ \E discard \in BOOLEAN : RemoveWorkspace(m, id, discard)
      PROVE  Queued'
  BY <1>6, CallsQueued
<1>7. ASSUME NEW i \in 1..Len(ops),
             \/ AddWorktree(i) \/ RegisterPrepared(i) \/ AfterCreate(i) \/ AfterCreateFails(i)
             \/ Take(i) \/ BeforeRun(i) \/ BeforeRunFails(i)
             \/ AdoptToFinish(i) \/ AfterRun(i)
             \/ AdoptToRemove(i) \/ RemoveWorktree(i)
      PROVE  Queued'
  BY <1>7, StepsQueued
<1>8. ASSUME NEW i \in 1..Len(ops), Return(i) PROVE Queued'
  BY <1>8, ReturnQueued
<1> QED
  BY <1>2, <1>3, <1>4, <1>5, <1>6, <1>7, <1>8 DEF Next

-----------------------------------------------------------------------------
(* Holders *)

\* The operations about a workspace, what they return, and its entry at the manager that is called.
Of(id) == {i \in 1..Len(ops) : ops[i].ref.id = id}
SomeBack(id) == \E i \in Of(id) : ops[i].step = "return"
NoOwnerBack(id) == \A i \in Of(id) : ops[i].step = "return" => ops[i].ref.owner = None
Entry(id) == registry[at[id]].byId[id]
HasIt(id, a) == Entry(id) # None /\ Entry(id).state = "ready" /\ Entry(id).owner = a

\* Nobody holds the workspace when what is on its way has arrived; nobody has it now either.
Free(id) == NoOwnerBack(id) /\ (held[id] = None \/ SomeBack(id))
Clear(id) == NoOwnerBack(id) /\ held[id] = None

\* Two operations about a workspace that a has.
Apart(x, y, a) ==
  /\ x.for # None => x.for # y.for /\ y.ref.owner # x.for
  /\ y.step = "return" => x.ref.owner = None
  /\ x.kind = "finish" /\ x.step # "return" /\ y.step \in {"take", "adopt"} /\ x.ref.owner = a /\ a # None
       => y.ref.owner = a
PairsRight(id) == \A i, j \in Of(id) : i < j => Apart(ops[i], ops[j], held[id])

\* A holder does not ask again.
AskedRight(id) == \A i \in Of(id) : ops[i].for # None => held[id] # ops[i].for

\* The workspace of an Attempt that will hold it is there and is the Attempt's.
BackRight(id) ==
  \A i \in Of(id) :
    ops[i].step = "return" /\ ops[i].ref.owner # None =>
      /\ Here(id) /\ HasIt(id, ops[i].ref.owner)
      /\ held[id] # None => \E j \in Of(id) : j < i /\ ops[j].step = "return"

\* So is that of the Attempt that holds it, until it is finished; a manager may have forgotten it.
HeldRight(id) ==
  held[id] # None =>
    /\ Here(id) /\ at[id] # None
    /\ ~SomeBack(id) => Entry(id) = None \/ HasIt(id, held[id])
    /\ \A i \in Of(id) :
         ops[i].step \in {"take", "adopt"} /\ ops[i].ref.owner # held[id] => ~SomeBack(id) /\ HasIt(id, held[id])

\* What an operation may rely on at each of its steps.
StepOk(id, op) ==
  /\ op.step = "register" =>
       /\ op.created => Clear(id)
       /\ ~SomeBack(id) /\ held[id] # None => HasIt(id, held[id])
  /\ op.step \in {"afterCreate", "beforeRemove"} => Clear(id)
  /\ op.step = "beforeRun" => Free(id)
  /\ op.step = "afterRun" => NoOwnerBack(id) /\ (held[id] # None /\ ~SomeBack(id) => op.ref.owner = held[id])
StepRight(id) == \A i \in Of(id) : StepOk(id, ops[i])

IdRight(id) == AskedRight(id) /\ PairsRight(id) /\ BackRight(id) /\ HeldRight(id) /\ StepRight(id)

\* The operations about one workspace before and after the one whose turn it is.
LEMMA OwnTurn ==
  ASSUME Typed, Queued, NEW i \in 1..Len(ops), NEW id, id = ops[i].ref.id,
         CanRun(i) \/ ops[i].step \notin Waiting, ops[i].step # "return", NEW j \in Of(id)
  PROVE  /\ j \in 1..Len(ops) /\ ops[j].ref.id = id
         /\ j < i => ops[j].step = "return"
         /\ j > i => ops[j].step \in Waiting
         /\ j < i \/ j = i \/ j > i
<1>1. j \in 1..Len(ops) /\ ops[j].ref.id = id
  BY DEF Of
<1>2. Alike(ops[i], ops[j]) /\ Alike(ops[j], ops[i])
  BY <1>1 DEF Alike, Queued
<1>3. j < i => ops[j].step = "return"
  BY <1>1, <1>2, TurnIsFirst
<1>4. j > i => ops[j].step \in Waiting
  BY <1>1, <1>2, OthersWait
<1> QED
  BY <1>1, <1>3, <1>4

\* Where the operations about a workspace were before a step that is not about it.
Traced(f, x) ==
  /\ \A k \in 1..Len(ops') : ops'[k].ref.id = x => f[k] \in 1..Len(ops) /\ ops'[k] = ops[f[k]]
  /\ \A k, l \in 1..Len(ops') : ops'[k].ref.id = x /\ ops'[l].ref.id = x /\ k < l => f[k] < f[l]
  /\ \A k \in 1..Len(ops) : ops[k].ref.id = x => \E l \in 1..Len(ops') : f[l] = k /\ ops'[l] = ops[k]

\* A workspace that a step is not about keeps what is right of it.
LEMMA OthersRight ==
  ASSUME NEW x \in Ids, IdRight(x), NEW f, Traced(f, x),
         held'[x] = held[x], at'[x] = at[x], Here(x) => Here(x)',
         registry'[at[x]].byId[x] = registry[at[x]].byId[x]
  PROVE  IdRight(x)'
<1>1. Entry(x)' = Entry(x)
  BY DEF Entry
<1>2. \A a : HasIt(x, a)' = HasIt(x, a)
  BY <1>1 DEF HasIt
<1>3. \A k \in Of(x)' : k \in 1..Len(ops') /\ f[k] \in Of(x) /\ ops'[k] = ops[f[k]]
  BY DEF Of, Traced
<1>4. \A k, l \in Of(x)' : k < l => f[k] < f[l]
  BY DEF Of, Traced
<1>5. \A k \in Of(x) : \E l \in Of(x)' : f[l] = k /\ ops'[l] = ops[k]
  BY DEF Of, Traced
<1>6. SomeBack(x)' = SomeBack(x)
  BY <1>3, <1>5 DEF SomeBack
<1>7. NoOwnerBack(x)' = NoOwnerBack(x)
  BY <1>3, <1>5 DEF NoOwnerBack
<1>8. AskedRight(x)'
  BY <1>3 DEF AskedRight, IdRight
<1>9. PairsRight(x)'
  BY <1>3, <1>4 DEF PairsRight, IdRight, Apart
<1>10. \A k, l \in Of(x)' : f[k] < f[l] => k < l
  BY <1>3, <1>4 DEF Of
<1>11. BackRight(x)'
  <2> SUFFICES ASSUME NEW i \in Of(x)', ops'[i].step = "return", NEW a, a = ops'[i].ref.owner, a # None
               PROVE  /\ Here(x)' /\ HasIt(x, a)'
                      /\ held'[x] # None => \E j \in Of(x)' : j < i /\ ops'[j].step = "return"
    BY DEF BackRight, HasIt
  <2>1. f[i] \in Of(x) /\ ops'[i] = ops[f[i]]
    BY <1>3
  <2>2. Here(x) /\ HasIt(x, a)
    BY <2>1 DEF IdRight, BackRight
  <2>3. ASSUME held[x] # None PROVE \E j \in Of(x)' : j < i /\ ops'[j].step = "return"
    <3>1. PICK j \in Of(x) : j < f[i] /\ ops[j].step = "return"
      BY <2>1, <2>3 DEF IdRight, BackRight
    <3>2. PICK l \in Of(x)' : f[l] = j /\ ops'[l] = ops[j]
      BY <1>5, <3>1
    <3>3. l < i
      BY <1>10, <3>1, <3>2
    <3> QED
      BY <3>1, <3>2, <3>3
  <2> QED
    BY <1>2, <2>1, <2>2, <2>3
<1>12. HeldRight(x)'
  BY <1>1, <1>2, <1>3, <1>6 DEF HeldRight, IdRight
<1>13. StepRight(x)'
  BY <1>2, <1>3, <1>6, <1>7 DEF StepRight, StepOk, Free, Clear, IdRight
<1> QED
  BY <1>8, <1>9, <1>11, <1>12, <1>13 DEF IdRight

\* An entry that a step has not written, or that says no more than what is known of the holder.
EntryStays(id) == Free(id) \/ Entry(id)' = Entry(id) \/ (Entry(id) = None /\ HasIt(id, held[id])')

LEMMA WaitingSteps == \A s \in Waiting : s # "return" /\ s \in {"add", "take", "adopt"}
  BY DEF Waiting

\* What an entry says of a holder is still said.
LEMMA EntryStaysRight ==
  ASSUME NEW id, EntryStays(id), held'[id] = held[id]
  PROVE  /\ ~Free(id) /\ Entry(id) # None => Entry(id)' = Entry(id)
         /\ \A a : ~Free(id) /\ HasIt(id, a) => HasIt(id, a)'
         /\ ~Free(id) /\ Entry(id) = None => Entry(id)' = None \/ HasIt(id, held[id])'
BY DEF EntryStays, HasIt

\* An operation goes on, not yet to return.
LEMMA OwnGoes ==
  ASSUME Typed, Queued, NEW i \in 1..Len(ops), NEW id \in Ids, id = ops[i].ref.id, IdRight(id),
         CanRun(i) \/ ops[i].step \notin Waiting, ops[i].step # "return",
         NEW op \in Operation, Goes(i, op), Same(op, ops[i]), op.step \notin Waiting \cup {"return"},
         op.ref.owner = ops[i].ref.owner \/ (op.ref.owner = op.for /\ op.kind # "finish"),
         UNCHANGED <<at, held>>, Here(id) => Here(id)', EntryStays(id),
         StepOk(id, op), op.step = "register" => Entry(id)' = Entry(id)
  PROVE  IdRight(id)'
<1>1. /\ Len(ops') = Len(ops) /\ ops'[i] = op
      /\ \A j \in 1..Len(ops) : j # i => ops'[j] = ops[j]
  BY GoesKeeps
<1>2. op.manager = ops[i].manager /\ op.kind = ops[i].kind /\ op.for = ops[i].for /\ op.ref.id = id
  BY DEF Same
<1>3. /\ Of(id)' = Of(id) /\ i \in Of(id)
      /\ \A j \in Of(id) : j # i => ops'[j] = ops[j]
  BY <1>1, <1>2 DEF Of
<1>4. SomeBack(id)' = SomeBack(id) /\ NoOwnerBack(id)' = NoOwnerBack(id)
  BY <1>1, <1>3 DEF SomeBack, NoOwnerBack
<1>5. Free(id)' = Free(id) /\ Clear(id)' = Clear(id)
  BY <1>4 DEF Free, Clear
<1>6. \A j \in Of(id) : /\ j < i => ops[j].step = "return"
                        /\ j > i => ops[j].step \in Waiting
                        /\ j \in Nat /\ i \in Nat
  BY OwnTurn DEF Of
<1>7. AskedRight(id)'
  BY <1>1, <1>2, <1>3 DEF AskedRight, IdRight
<1>8. PairsRight(id)'
  <2> SUFFICES ASSUME NEW j \in Of(id), NEW k \in Of(id), j < k PROVE Apart(ops'[j], ops'[k], held[id])
    BY <1>3 DEF PairsRight
  <2>1. Apart(ops[j], ops[k], held[id])
    BY DEF IdRight, PairsRight
  <2>2. CASE j = i
    <3>1. ops'[j] = op /\ ops'[k] = ops[k] /\ ops[k].step # "return"
      BY <1>1, <1>3, <1>6, <2>2, WaitingSteps
    <3> QED
      BY <1>2, <2>1, <2>2, <3>1 DEF Apart
  <2>3. CASE k = i
    <3>1. ops'[j] = ops[j] /\ ops'[k] = op /\ op.step \notin {"take", "adopt", "return"}
      BY <1>1, <1>3, <1>6, <2>3 DEF Waiting
    <3> QED
      BY <1>2, <2>1, <2>3, <3>1 DEF Apart
  <2>4. CASE j # i /\ k # i
    BY <1>3, <2>1, <2>4
  <2> QED
    BY <2>2, <2>3, <2>4
<1>9. BackRight(id)'
  <2> SUFFICES ASSUME NEW j \in Of(id), ops'[j].step = "return", NEW a, a = ops'[j].ref.owner, a # None
               PROVE  /\ Here(id)' /\ HasIt(id, a)'
                      /\ held[id] # None => \E k \in Of(id) : k < j /\ ops'[k].step = "return"
    BY <1>3 DEF BackRight, HasIt
  <2>1. j # i /\ ops'[j] = ops[j]
    BY <1>1, <1>3
  <2>2. ~Free(id) /\ Here(id) /\ HasIt(id, a)
    BY <2>1 DEF Free, NoOwnerBack, IdRight, BackRight
  <2>3. Here(id)' /\ HasIt(id, a)'
    BY <2>2, EntryStaysRight
  <2>4. held[id] # None => \E k \in Of(id) : k < j /\ ops[k].step = "return"
    BY <2>1 DEF IdRight, BackRight
  <2> QED
    BY <1>3, <2>3, <2>4
<1>10. HeldRight(id)'
  <2> SUFFICES ASSUME held[id] # None
               PROVE  /\ Here(id)' /\ at[id] # None
                      /\ ~SomeBack(id) => Entry(id)' = None \/ HasIt(id, held[id])'
                      /\ \A j \in Of(id) : ops'[j].step \in {"take", "adopt"} /\ ops'[j].ref.owner # held[id]
                                             => ~SomeBack(id) /\ HasIt(id, held[id])'
    BY <1>3, <1>4 DEF HeldRight, HasIt
  <2>1. Here(id)' /\ at[id] # None
    BY DEF IdRight, HeldRight
  <2>2. ASSUME ~SomeBack(id) PROVE Entry(id)' = None \/ HasIt(id, held[id])'
    <3>1. ~Free(id) /\ (Entry(id) = None \/ HasIt(id, held[id]))
      BY <2>2 DEF Free, IdRight, HeldRight
    <3> QED
      BY <3>1, EntryStaysRight
  <2>3. ASSUME NEW j \in Of(id), ops'[j].step \in {"take", "adopt"}, ops'[j].ref.owner # held[id]
        PROVE  ~SomeBack(id) /\ HasIt(id, held[id])'
    <3>1. j # i /\ ops'[j] = ops[j]
      BY <1>1, <1>3, <2>3 DEF Waiting
    <3>2. ~SomeBack(id) /\ HasIt(id, held[id])
      BY <2>3, <3>1 DEF IdRight, HeldRight
    <3>3. ~Free(id)
      BY <3>2 DEF Free
    <3> QED
      BY <3>2, <3>3, EntryStaysRight
  <2> QED
    BY <2>1, <2>2, <2>3
<1>11. StepRight(id)'
  <2> SUFFICES ASSUME NEW j \in Of(id), NEW o, o = ops'[j] PROVE StepOk(id, o)'
    BY <1>3 DEF StepRight, StepOk, HasIt
  <2>1. CASE j = i
    <3>1. o = op
      BY <1>1, <2>1
    <3>2. op.step = "register" => \A a : HasIt(id, a)' = HasIt(id, a)
      BY DEF HasIt
    <3> QED
      BY <1>4, <1>5, <3>1, <3>2 DEF StepOk
  <2>2. CASE j # i
    <3>1. o = ops[j] /\ o.step \in Waiting \cup {"return"}
      BY <1>3, <1>6, <2>2
    <3> QED
      BY <3>1 DEF StepOk, Waiting
  <2> QED
    BY <2>1, <2>2
<1> QED
  BY <1>7, <1>8, <1>9, <1>10, <1>11 DEF IdRight

\* An operation ends that did not return.
LEMMA OwnEnds ==
  ASSUME Typed, Queued, NEW i \in 1..Len(ops), NEW id \in Ids, id = ops[i].ref.id, IdRight(id),
         CanRun(i) \/ ops[i].step \notin Waiting, ops[i].step # "return", Throws(i),
         UNCHANGED <<at, held>>, (Here(id) => Here(id)') \/ Clear(id), EntryStays(id)
  PROVE  IdRight(id)'
<1>1. PICK f \in [1..Len(ops') -> 1..Len(ops)] :
           /\ \A k \in 1..Len(ops') : ops'[k] = ops[f[k]] /\ f[k] # i
           /\ \A k, l \in 1..Len(ops') : k < l => f[k] < f[l]
           /\ \A k \in 1..Len(ops) : k # i => \E l \in 1..Len(ops') : f[l] = k
  BY ThrowsMaps
<1>2. \A k \in Of(id)' : k \in 1..Len(ops') /\ f[k] \in Of(id) /\ ops'[k] = ops[f[k]] /\ f[k] # i
  BY <1>1 DEF Of
<1>3. \A k, l \in Of(id)' : k < l => f[k] < f[l]
  BY <1>1 DEF Of
<1>4. \A k \in Of(id) : k # i => \E l \in Of(id)' : f[l] = k /\ ops'[l] = ops[k]
  BY <1>1 DEF Of
<1>5. SomeBack(id)' = SomeBack(id)
  BY <1>2, <1>4 DEF SomeBack
<1>6. NoOwnerBack(id)' = NoOwnerBack(id)
  BY <1>2, <1>4 DEF NoOwnerBack
<1>7. \A k \in Of(id)' : ops'[k].step \in Waiting \cup {"return"}
  BY <1>2, OwnTurn
<1>8. AskedRight(id)'
  BY <1>2 DEF AskedRight, IdRight
<1>9. PairsRight(id)'
  BY <1>2, <1>3 DEF PairsRight, IdRight, Apart
<1>10. \A k, l \in Of(id)' : f[k] < f[l] => k < l
  <2> TAKE k \in Of(id)', l \in Of(id)'
  <2>1. k \in 1..Len(ops') /\ l \in 1..Len(ops')
    BY <1>2
  <2>2. f[k] \in 1..Len(ops) /\ f[l] \in 1..Len(ops)
    BY <1>1, <2>1
  <2>3. l < k => f[l] < f[k]
    BY <1>3
  <2> QED
    BY <2>1, <2>2, <2>3
<1>11. Clear(id) => Free(id)
  BY DEF Clear, Free
<1>12. BackRight(id)'
  <2> SUFFICES ASSUME NEW j \in Of(id)', ops'[j].step = "return", NEW a, a = ops'[j].ref.owner, a # None
               PROVE  /\ Here(id)' /\ HasIt(id, a)'
                      /\ held'[id] # None => \E k \in Of(id)' : k < j /\ ops'[k].step = "return"
    BY DEF BackRight, HasIt
  <2>1. f[j] \in Of(id) /\ ops'[j] = ops[f[j]]
    BY <1>2
  <2>2. ~Free(id) /\ Here(id) /\ HasIt(id, a)
    BY <2>1 DEF Free, NoOwnerBack, IdRight, BackRight
  <2>3. Here(id)' /\ HasIt(id, a)'
    BY <1>11, <2>2, EntryStaysRight
  <2>4. ASSUME held[id] # None PROVE \E k \in Of(id)' : k < j /\ ops'[k].step = "return"
    <3>1. PICK k \in Of(id) : k < f[j] /\ ops[k].step = "return"
      BY <2>1, <2>4 DEF IdRight, BackRight
    <3>2. PICK l \in Of(id)' : f[l] = k /\ ops'[l] = ops[k]
      BY <1>4, <3>1
    <3>3. l < j
      BY <1>10, <3>1, <3>2
    <3> QED
      BY <3>1, <3>2, <3>3
  <2> QED
    BY <2>3, <2>4
<1>13. HeldRight(id)'
  <2> SUFFICES ASSUME held[id] # None
               PROVE  /\ Here(id)' /\ at[id] # None
                      /\ ~SomeBack(id) => Entry(id)' = None \/ HasIt(id, held[id])'
                      /\ \A j \in Of(id)' : ops'[j].step \in {"take", "adopt"} /\ ops'[j].ref.owner # held[id]
                                             => ~SomeBack(id) /\ HasIt(id, held[id])'
    BY <1>5 DEF HeldRight, HasIt
  <2>1. Here(id)' /\ at[id] # None
    BY DEF IdRight, HeldRight, Clear
  <2>2. ASSUME ~SomeBack(id) PROVE Entry(id)' = None \/ HasIt(id, held[id])'
    <3>1. ~Free(id) /\ (Entry(id) = None \/ HasIt(id, held[id]))
      BY <2>2 DEF Free, IdRight, HeldRight
    <3> QED
      BY <3>1, EntryStaysRight
  <2>3. ASSUME NEW j \in Of(id)', ops'[j].step \in {"take", "adopt"}, ops'[j].ref.owner # held[id]
        PROVE  ~SomeBack(id) /\ HasIt(id, held[id])'
    <3>1. f[j] \in Of(id) /\ ops'[j] = ops[f[j]]
      BY <1>2
    <3>2. ~SomeBack(id) /\ HasIt(id, held[id])
      BY <2>3, <3>1 DEF IdRight, HeldRight
    <3>3. ~Free(id)
      BY <3>2 DEF Free
    <3> QED
      BY <3>2, <3>3, EntryStaysRight
  <2> QED
    BY <2>1, <2>2, <2>3
<1>14. StepRight(id)'
  BY <1>7 DEF StepRight, StepOk, Waiting
<1> QED
  BY <1>8, <1>9, <1>12, <1>13, <1>14 DEF IdRight

\* An operation is to return: without an owner, when nobody else's workspace is on its way, or
\* with one, when nobody has the workspace.
LEMMA OwnReturns ==
  ASSUME Typed, Queued, NEW i \in 1..Len(ops), NEW id \in Ids, id = ops[i].ref.id, IdRight(id),
         CanRun(i) \/ ops[i].step \notin Waiting, ops[i].step # "return",
         NEW op \in Operation, Goes(i, op), Same(op, ops[i]), op.step = "return",
         op.ref.owner \in {None, ops[i].ref.owner},
         UNCHANGED <<at, held>>, held[id] # None => (Here(id) => Here(id)'), NoOwnerBack(id),
         \A j \in Of(id) : j # i /\ held[id] # None /\ ops[j].step \in {"take", "adopt"} => ops[j].ref.owner = held[id],
         op.ref.owner # None => Free(id) /\ Here(id)' /\ HasIt(id, op.ref.owner)'
  PROVE  IdRight(id)'
<1>1. /\ Len(ops') = Len(ops) /\ ops'[i] = op
      /\ \A j \in 1..Len(ops) : j # i => ops'[j] = ops[j]
  BY GoesKeeps
<1>2. op.manager = ops[i].manager /\ op.kind = ops[i].kind /\ op.for = ops[i].for /\ op.ref.id = id
  BY DEF Same
<1>3. /\ Of(id)' = Of(id) /\ i \in Of(id)
      /\ \A j \in Of(id) : j # i => ops'[j] = ops[j]
  BY <1>1, <1>2 DEF Of
<1>4. \A j \in Of(id) : /\ j < i => ops[j].step = "return"
                        /\ j > i => ops[j].step \in Waiting
                        /\ j < i \/ j = i \/ j > i
                        /\ j \in Nat /\ i \in Nat
  BY OwnTurn DEF Of
<1>5. AskedRight(id)'
  BY <1>1, <1>2, <1>3 DEF AskedRight, IdRight
<1>6. PairsRight(id)'
  <2> SUFFICES ASSUME NEW j \in Of(id), NEW k \in Of(id), j < k PROVE Apart(ops'[j], ops'[k], held[id])
    BY <1>3 DEF PairsRight
  <2>1. Apart(ops[j], ops[k], held[id])
    BY DEF IdRight, PairsRight
  <2>2. CASE j = i
    <3>1. ops'[j] = op /\ ops'[k] = ops[k] /\ ops[k].step # "return"
      BY <1>1, <1>3, <1>4, <2>2, WaitingSteps
    <3> QED
      BY <1>2, <2>1, <2>2, <3>1 DEF Apart
  <2>3. CASE k = i
    <3>1. ops'[j] = ops[j] /\ ops'[k] = op /\ ops[j].step = "return"
      BY <1>1, <1>3, <1>4, <2>3
    <3>2. ops[j].ref.owner = None
      BY <3>1 DEF NoOwnerBack
    <3> QED
      BY <1>2, <2>1, <2>3, <3>1, <3>2 DEF Apart
  <2>4. CASE j # i /\ k # i
    BY <1>3, <2>1, <2>4
  <2> QED
    BY <2>2, <2>3, <2>4
<1>7. BackRight(id)'
  <2> SUFFICES ASSUME NEW j \in Of(id), ops'[j].step = "return", NEW a, a = ops'[j].ref.owner, a # None
               PROVE  /\ Here(id)' /\ HasIt(id, a)'
                      /\ held[id] # None => \E k \in Of(id) : k < j /\ ops'[k].step = "return"
    BY <1>3 DEF BackRight, HasIt
  <2>1. j = i
    BY <1>3 DEF NoOwnerBack
  <2>2. a = op.ref.owner /\ Free(id) /\ Here(id)' /\ HasIt(id, a)'
    BY <1>1, <2>1
  <2>3. ASSUME held[id] # None PROVE \E k \in Of(id) : k < i /\ ops'[k].step = "return"
    <3>1. PICK k \in Of(id) : ops[k].step = "return"
      BY <2>2, <2>3 DEF Free, SomeBack
    <3>2. k # i /\ ~(k > i)
      BY <1>4, <3>1, WaitingSteps
    <3>3. k < i /\ ops'[k] = ops[k]
      BY <1>3, <1>4, <3>2
    <3> QED
      BY <3>1, <3>3
  <2> QED
    BY <2>1, <2>2, <2>3
<1>8. HeldRight(id)'
  <2> SUFFICES ASSUME held[id] # None
               PROVE  /\ Here(id)' /\ at[id] # None /\ SomeBack(id)'
                      /\ \A j \in Of(id) : ops'[j].step \in {"take", "adopt"} => ops'[j].ref.owner = held[id]
    BY <1>3 DEF HeldRight
  <2>1. Here(id)' /\ at[id] # None
    BY DEF IdRight, HeldRight
  <2>2. SomeBack(id)'
    BY <1>1, <1>3 DEF SomeBack
  <2>3. \A j \in Of(id) : ops'[j].step \in {"take", "adopt"} => j # i /\ ops'[j] = ops[j]
    BY <1>1, <1>3
  <2> QED
    BY <2>1, <2>2, <2>3
<1>9. StepRight(id)'
  <2>1. \A j \in Of(id) : ops'[j].step \in Waiting \cup {"return"}
    BY <1>1, <1>3, <1>4
  <2> QED
    BY <1>3, <2>1 DEF StepRight, StepOk, Waiting
<1> QED
  BY <1>5, <1>6, <1>7, <1>8, <1>9 DEF IdRight

\* An operation returns: whom the workspace is given to has it alone.
LEMMA ReturnRight ==
  ASSUME Typed, Queued, NEW i \in 1..Len(ops), NEW id \in Ids, id = ops[i].ref.id, IdRight(id), Return(i)
  PROVE  /\ IdRight(id)'
         /\ held[id] # None => ops[i].ref.owner = None
<1>1. /\ ops[i].step = "return" /\ (\A j \in 1..(i - 1) : ops[j].ref.id # id)
      /\ Throws(i) /\ UNCHANGED <<git, registry, at, bounds>> /\ held'[id] = ops[i].ref.owner
  BY ReturnDoes
<1>2. PICK a : a = ops[i].ref.owner
  OBVIOUS
<1>3. PICK f \in [1..Len(ops') -> 1..Len(ops)] :
           /\ \A k \in 1..Len(ops') : ops'[k] = ops[f[k]] /\ f[k] # i
           /\ \A k, l \in 1..Len(ops') : k < l => f[k] < f[l]
           /\ \A k \in 1..Len(ops) : k # i => \E l \in 1..Len(ops') : f[l] = k
  BY <1>1, ThrowsMaps
<1>4. \A k \in Of(id)' : k \in 1..Len(ops') /\ f[k] \in Of(id) /\ ops'[k] = ops[f[k]] /\ f[k] # i
  BY <1>3 DEF Of
<1>5. \A k, l \in Of(id)' : k < l => f[k] < f[l]
  BY <1>3 DEF Of
<1>6. \A k \in Of(id) : k # i => \E l \in Of(id)' : f[l] = k /\ ops'[l] = ops[k]
  BY <1>3 DEF Of
<1>7. i \in Of(id) /\ \A k \in Of(id) : k # i => i < k
  <2>1. i \in Of(id)
    BY DEF Of
  <2>2. ASSUME NEW k \in Of(id), k # i PROVE i < k
    <3>1. k \in 1..Len(ops) /\ ops[k].ref.id = id
      BY DEF Of
    <3>2. k \notin 1..(i - 1)
      BY <1>1, <3>1
    <3> QED
      BY <2>2, <3>1, <3>2
  <2> QED
    BY <2>1, <2>2
<1>8. ASSUME a # None PROVE held[id] = None /\ Here(id) /\ HasIt(id, a) /\ ~NoOwnerBack(id)
  <2>1. /\ Here(id) /\ HasIt(id, a)
        /\ held[id] # None => \E j \in Of(id) : j < i /\ ops[j].step = "return"
    BY <1>1, <1>2, <1>7, <1>8 DEF IdRight, BackRight
  <2>2. \A j \in Of(id) : ~(j < i)
    BY <1>7 DEF Of
  <2>3. ~NoOwnerBack(id)
    BY <1>1, <1>2, <1>7, <1>8 DEF NoOwnerBack
  <2> QED
    BY <2>1, <2>2, <2>3
<1>9. \A k \in Of(id) : k # i => Apart(ops[i], ops[k], held[id])
  BY <1>7 DEF IdRight, PairsRight
<1>10. ASSUME a # None PROVE \A k \in Of(id) : k # i => /\ ops[k].step # "return"
                                                       /\ ops[k].for # a /\ ops[k].ref.owner # a
  <2>1. Shape(ops[i]) /\ ops[i].kind \in {"prepare", "recover", "finish", "remove"}
    BY OpType DEF Queued, Operation
  <2>2. ops[i].for = a
    BY <1>1, <1>2, <1>10, <2>1 DEF Shape
  <2> QED
    BY <1>2, <1>9, <1>10, <2>2 DEF Apart
<1>11. Here(id)' = Here(id) /\ Entry(id)' = Entry(id) /\ \A b : HasIt(id, b)' = HasIt(id, b)
  BY <1>1 DEF git, Here, Entry, HasIt
<1>12. held'[id] = a
  BY <1>1, <1>2
<1>13. AskedRight(id)'
  <2>1. \A k \in Of(id) : k # i /\ ops[k].for # None => a # ops[k].for
    BY <1>10
  <2> QED
    BY <1>4, <1>12, <2>1 DEF AskedRight
<1>14. PairsRight(id)'
  <2> SUFFICES ASSUME NEW j \in Of(id)', NEW k \in Of(id)', j < k PROVE Apart(ops'[j], ops'[k], a)
    BY <1>12 DEF PairsRight
  <2>1. f[j] \in Of(id) /\ f[k] \in Of(id) /\ f[j] < f[k] /\ f[j] # i /\ f[k] # i
        /\ ops'[j] = ops[f[j]] /\ ops'[k] = ops[f[k]]
    BY <1>4, <1>5
  <2>2. Apart(ops[f[j]], ops[f[k]], held[id])
    BY <2>1 DEF IdRight, PairsRight
  <2>3. a # None => ops[f[j]].ref.owner # a
    BY <1>10, <2>1
  <2> QED
    BY <2>1, <2>2, <2>3 DEF Apart
<1>15. ASSUME a # None PROVE ~SomeBack(id)'
  BY <1>4, <1>10, <1>15 DEF SomeBack
<1>16. \A k \in Of(id)' : ops'[k].step = "return" => f[k] \in Of(id) /\ ops[f[k]].step = "return" /\ f[k] # i
  BY <1>4
<1>17. BackRight(id)'
  <2> SUFFICES ASSUME NEW j \in Of(id)', ops'[j].step = "return", NEW b, b = ops'[j].ref.owner, b # None
               PROVE  /\ Here(id)' /\ HasIt(id, b)'
                      /\ held'[id] # None => \E k \in Of(id)' : k < j /\ ops'[k].step = "return"
    BY DEF BackRight, HasIt
  <2>1. Here(id) /\ HasIt(id, b)
    BY <1>4 DEF IdRight, BackRight
  <2>2. a = None
    BY <1>15 DEF SomeBack
  <2> QED
    BY <1>11, <1>12, <2>1, <2>2
<1>18. HeldRight(id)'
  <2> SUFFICES ASSUME a # None
               PROVE  /\ Here(id)' /\ at[id] # None /\ ~SomeBack(id)' /\ HasIt(id, a)'
    BY <1>1, <1>12 DEF HeldRight, HasIt
  <2>1. at[id] # None
    BY OpType, WorkspaceNone DEF Queued
  <2> QED
    BY <1>8, <1>11, <1>15, <2>1
<1>19. StepRight(id)'
  <2> SUFFICES ASSUME NEW j \in Of(id)', NEW o, o = ops'[j] PROVE StepOk(id, o)'
    BY DEF StepRight, StepOk, HasIt
  <2>1. f[j] \in Of(id) /\ f[j] # i /\ o = ops[f[j]] /\ StepOk(id, o)
    BY <1>4 DEF IdRight, StepRight
  <2>2. CASE a # None
    <3>1. ~NoOwnerBack(id) /\ HasIt(id, a)'
      BY <1>8, <1>11, <2>2
    <3>2. o.step \notin {"afterCreate", "beforeRemove", "beforeRun", "afterRun"} /\ (o.step = "register" => ~o.created)
      BY <2>1, <3>1 DEF StepOk, Free, Clear
    <3>3. o.step = "register" => HasIt(id, a)'
      BY <3>1
    <3> QED
      BY <1>12, <3>2, <3>3 DEF StepOk, HasIt
  <2>3. CASE a = None
    <3>1. held'[id] = None
      BY <1>12, <2>3
    <3>2. NoOwnerBack(id) => NoOwnerBack(id)'
      BY <1>4 DEF NoOwnerBack
    <3> QED
      BY <2>1, <3>1, <3>2 DEF StepOk, Free, Clear
  <2> QED
    BY <2>2, <2>3
<1> QED
  BY <1>2, <1>8, <1>13, <1>14, <1>17, <1>18, <1>19 DEF IdRight

\* A call about a workspace.
LEMMA OwnCall ==
  ASSUME Typed, Queued, NEW id \in Ids, IdRight(id),
         NEW m \in Managers, NEW op, op.ref.id = id, op.step \in Waiting, Claimed(m, id),
         ops' = Append(ops, op), at' = [at EXCEPT ![id] = m], UNCHANGED <<git, registry, held>>,
         op.for # None => held[id] # op.for /\ \A i \in 1..Len(ops) : ops[i].ref.id = id => ops[i].for # op.for,
         op.ref.owner = held[id] \/ op.ref.owner = op.for,
         op.step \in {"take", "adopt"} => op.ref.owner = held[id]
  PROVE  IdRight(id)'
<1>1. /\ Len(ops') = Len(ops) + 1 /\ ops'[Len(ops) + 1] = op /\ Len(ops) \in Nat
      /\ \A j \in 1..Len(ops) : ops'[j] = ops[j]
  BY CallKeeps
<1>2. PICK n \in Nat : n = Len(ops) + 1
  BY <1>1
<1>3. Of(id)' = Of(id) \cup {n} /\ n \notin Of(id) /\ ops'[n] = op /\ \A j \in Of(id) : ops'[j] = ops[j] /\ j < n
  BY <1>1, <1>2 DEF Of
<1>4. op.step # "return" /\ op.step \in Waiting
  BY WaitingSteps
<1>5. at'[id] = m /\ m # None
  BY WorkspaceNone DEF Typed
<1>6. \A j \in Of(id) : ops[j].manager = m /\ at[id] = m
  BY DEF Of, Claimed, Queued
<1>7. SomeBack(id)' = SomeBack(id) /\ NoOwnerBack(id)' = NoOwnerBack(id)
  BY <1>3, <1>4 DEF SomeBack, NoOwnerBack
<1>8. Here(id)' = Here(id)
  BY DEF Here, git
<1>9. Entry(id)' = Entry(id) \/ (Of(id) = {} /\ Entry(id)' = None)
  <2>1. Entry(id)' = registry[m].byId[id]
    BY <1>5 DEF Entry
  <2>2. CASE at[id] = m
    BY <2>1, <2>2 DEF Entry
  <2>3. CASE at[id] # m
    BY <1>6, <2>1, <2>3 DEF Claimed
  <2> QED
    BY <2>2, <2>3
<1>10. Of(id) # {} => \A a : HasIt(id, a)' = HasIt(id, a)
  BY <1>9 DEF HasIt
<1>11. AskedRight(id)'
  BY <1>3 DEF AskedRight, IdRight
<1>12. PairsRight(id)'
  <2> SUFFICES ASSUME NEW j \in Of(id) \cup {n}, NEW k \in Of(id) \cup {n}, j < k
               PROVE  Apart(ops'[j], ops'[k], held[id])
    BY <1>3 DEF PairsRight
  <2>1. j \in Of(id)
    <3>1. j = n => k \notin Of(id) /\ k # n
      BY <1>2, <1>3 DEF Of
    <3> QED
      BY <3>1
  <2>2. CASE k \in Of(id)
    BY <1>3, <2>1, <2>2 DEF IdRight, PairsRight
  <2>3. CASE k = n
    <3>1. ops'[j] = ops[j] /\ ops'[k] = op /\ ops[j].ref.id = id /\ j \in 1..Len(ops)
      BY <1>3, <2>1, <2>3 DEF Of
    <3>2. ops[j].for # None => ops[j].for # op.for /\ op.ref.owner # ops[j].for
      BY <2>1, <3>1 DEF IdRight, AskedRight
    <3> QED
      BY <1>4, <3>1, <3>2 DEF Apart
  <2> QED
    BY <2>2, <2>3
<1>13. BackRight(id)'
  <2> SUFFICES ASSUME NEW j \in Of(id) \cup {n}, ops'[j].step = "return", NEW a, a = ops'[j].ref.owner, a # None
               PROVE  /\ Here(id)' /\ HasIt(id, a)'
                      /\ held[id] # None => \E k \in Of(id) : k < j /\ ops'[k].step = "return"
    BY <1>3 DEF BackRight, HasIt
  <2>1. j \in Of(id) /\ ops'[j] = ops[j]
    BY <1>3, <1>4
  <2>2. Here(id) /\ HasIt(id, a) /\ (held[id] # None => \E k \in Of(id) : k < j /\ ops[k].step = "return")
    BY <2>1 DEF IdRight, BackRight
  <2> QED
    BY <1>3, <1>8, <1>10, <2>1, <2>2
<1>14. HeldRight(id)'
  <2> SUFFICES ASSUME held[id] # None
               PROVE  /\ Here(id)' /\ at'[id] # None
                      /\ ~SomeBack(id) => Entry(id)' = None \/ HasIt(id, held[id])'
                      /\ \A j \in Of(id) \cup {n} : ops'[j].step \in {"take", "adopt"} /\ ops'[j].ref.owner # held[id]
                                                      => ~SomeBack(id) /\ HasIt(id, held[id])'
    BY <1>3, <1>7 DEF HeldRight, HasIt
  <2>1. Here(id)' /\ at'[id] # None
    BY <1>5, <1>8 DEF IdRight, HeldRight
  <2>2. ~SomeBack(id) => Entry(id)' = None \/ HasIt(id, held[id])'
    BY <1>9 DEF IdRight, HeldRight, HasIt
  <2>3. ASSUME NEW j \in Of(id) \cup {n}, ops'[j].step \in {"take", "adopt"}, ops'[j].ref.owner # held[id]
        PROVE  ~SomeBack(id) /\ HasIt(id, held[id])'
    <3>1. j \in Of(id) /\ ops'[j] = ops[j]
      BY <1>3, <2>3
    <3> QED
      BY <1>10, <2>3, <3>1 DEF IdRight, HeldRight
  <2> QED
    BY <2>1, <2>2, <2>3
<1>15. StepRight(id)'
  <2> SUFFICES ASSUME NEW j \in Of(id) \cup {n}, NEW o, o = ops'[j] PROVE StepOk(id, o)'
    BY <1>3 DEF StepRight, StepOk, HasIt
  <2>1. CASE j = n
    BY <1>3, <1>4, <2>1 DEF StepOk, Waiting
  <2>2. CASE j \in Of(id)
    <3>1. StepOk(id, o) /\ \A a : HasIt(id, a)' = HasIt(id, a)
      BY <1>3, <1>10, <2>2 DEF IdRight, StepRight
    <3> QED
      BY <1>7, <3>1 DEF StepOk, Free, Clear
  <2> QED
    BY <2>1, <2>2
<1> QED
  BY <1>11, <1>12, <1>13, <1>14, <1>15 DEF IdRight

LEMMA CallRight ==
  ASSUME Typed, Queued, NEW id \in Ids, \A x \in Ids : IdRight(x),
         NEW m \in Managers, NEW kind \in {"prepare", "recover", "finish", "remove"},
         NEW s \in Waiting, NEW ref \in Reference, ref.id = id, NEW a \in Attempts \cup {None},
         NEW discard \in BOOLEAN, Call(m, kind, s, ref, a, discard),
         a # None => MayAsk(id, a),
         ref.owner = held[id] \/ ref.owner = a,
         s \in {"take", "adopt"} => ref.owner = held[id]
  PROVE  \A x \in Ids : IdRight(x)'
<1>1. PICK op : op = [manager |-> m, kind |-> kind, step |-> s, ref |-> ref, for |-> a,
                      created |-> FALSE, discard |-> discard]
  OBVIOUS
<1>2. op.step = s /\ op.ref = ref /\ op.for = a
  BY <1>1
<1>3. /\ ops' = Append(ops, op) /\ at' = [at EXCEPT ![id] = m] /\ UNCHANGED <<git, registry, held>> /\ Claimed(m, id)
  BY <1>1 DEF Call
<1>4. IdRight(id)'
  BY <1>2, <1>3, OwnCall DEF MayAsk
<1>5. /\ Len(ops') = Len(ops) + 1 /\ ops'[Len(ops) + 1] = op /\ Len(ops) \in Nat
      /\ \A j \in 1..Len(ops) : ops'[j] = ops[j]
  BY <1>3, CallKeeps
<1>6. ASSUME NEW x \in Ids, x # id PROVE IdRight(x)'
  <2>1. PICK f : f = [k \in 1..Len(ops') |-> k]
    OBVIOUS
  <2>2. \A k \in 1..Len(ops') : f[k] = k
    BY <2>1
  <2>3. \A k \in 1..Len(ops') : ops'[k].ref.id = x => k \in 1..Len(ops)
    BY <1>2, <1>5, <1>6
  <2>4. \A k \in 1..Len(ops') : ops'[k].ref.id = x => f[k] \in 1..Len(ops) /\ ops'[k] = ops[f[k]]
    BY <1>5, <2>2, <2>3
  <2>5. \A k, l \in 1..Len(ops') : ops'[k].ref.id = x /\ ops'[l].ref.id = x /\ k < l => f[k] < f[l]
    BY <2>2
  <2>6. \A k \in 1..Len(ops) : ops[k].ref.id = x => \E l \in 1..Len(ops') : f[l] = k /\ ops'[l] = ops[k]
    <3> TAKE k \in 1..Len(ops)
    <3>1. k \in 1..Len(ops')
      BY <1>5
    <3> QED
      BY <1>5, <2>2, <3>1
  <2>7. held'[x] = held[x] /\ at'[x] = at[x]
    BY <1>3, <1>6 DEF Typed
  <2>8. (Here(x) => Here(x)') /\ registry'[at[x]].byId[x] = registry[at[x]].byId[x]
    BY <1>3 DEF git, Here
  <2>9. Traced(f, x)
    BY <2>4, <2>5, <2>6 DEF Traced
  <2> QED
    BY <2>7, <2>8, <2>9, OthersRight
<1> QED
  BY <1>4, <1>6

LEMMA CallsRight ==
  ASSUME Typed, Queued, \A x \in Ids : IdRight(x), NEW m \in Managers, NEW id \in Ids,
         \/ \E a \in Attempts : Prepare(m, id, a) \/ Recover(m, id, a)
         \/ Finish(m, id)
         \/ \E discard \in BOOLEAN : RemoveWorkspace(m, id, discard)
  PROVE  \A x \in Ids : IdRight(x)'
<1>1. ASSUME NEW a \in Attempts, Prepare(m, id, a) PROVE \A x \in Ids : IdRight(x)'
  <2>1. PICK ref \in Reference : ref = Ref(id, None, "ready", a)
    BY DEF Ref, Reference
  <2>2. ref.owner = a /\ ref.id = id
    BY <2>1 DEF Ref
  <2>3. Call(m, "prepare", "add", ref, a, FALSE) /\ MayAsk(id, a)
    BY <1>1, <2>1 DEF Prepare
  <2> QED
    BY <2>2, <2>3, CallRight DEF Waiting
<1>2. known[id] # None => known[id] \in Reference /\ known[id].id = id /\ known[id].owner = held[id]
  BY DEF Typed, Queued, KnownRight
<1>3. ASSUME NEW a \in Attempts, Recover(m, id, a) PROVE \A x \in Ids : IdRight(x)'
  <2>1. known[id] # None /\ MayAsk(id, a) /\ Call(m, "recover", "take", known[id], a, FALSE)
    BY <1>3 DEF Recover
  <2> QED
    BY <1>2, <2>1, CallRight DEF Waiting
<1>4. CASE Finish(m, id)
  BY <1>2, <1>4, CallRight DEF Finish, Waiting
<1>5. ASSUME NEW discard \in BOOLEAN, RemoveWorkspace(m, id, discard) PROVE \A x \in Ids : IdRight(x)'
  BY <1>2, <1>5, CallRight DEF RemoveWorkspace, Waiting
<1> QED
  BY <1>1, <1>3, <1>4, <1>5

\* A manager that is followed by another one has no operation under way.
LEMMA ForgottenRight ==
  ASSUME Typed, Queued, NEW x \in Ids, IdRight(x), UNCHANGED <<git, at, held>>,
         \/ UNCHANGED <<ops, registry>>
         \/ /\ UNCHANGED ops \/ ops' = <<>>
            /\ \A i \in 1..Len(ops') : ops'[i].manager # at[x]
            /\ at[x] # None => registry'[at[x]].byId[x] = None
         \/ UNCHANGED ops /\ registry'[at[x]].byId[x] = registry[at[x]].byId[x]
  PROVE  IdRight(x)'
<1>1. Here(x)' = Here(x)
  BY DEF Here, git
<1>2. CASE UNCHANGED ops /\ registry'[at[x]].byId[x] = registry[at[x]].byId[x]
  <2>1. Entry(x)' = Entry(x)
    BY <1>2 DEF Entry
  <2>2. (\A a : HasIt(x, a)' = HasIt(x, a)) /\ Of(x)' = Of(x) /\ SomeBack(x)' = SomeBack(x) /\ NoOwnerBack(x)' = NoOwnerBack(x)
    BY <1>2, <2>1 DEF HasIt, SomeBack, NoOwnerBack, Of
  <2>3. AskedRight(x)' /\ PairsRight(x)'
    BY <1>2, <2>2 DEF IdRight, AskedRight, PairsRight
  <2>4. BackRight(x)'
    BY <1>1, <1>2, <2>2 DEF IdRight, BackRight
  <2>5. HeldRight(x)'
    BY <1>1, <1>2, <2>1, <2>2 DEF IdRight, HeldRight
  <2>6. StepRight(x)'
    BY <1>2, <2>2 DEF IdRight, StepRight, StepOk, Free, Clear
  <2> QED
    BY <2>3, <2>4, <2>5, <2>6 DEF IdRight
<1>3. CASE /\ UNCHANGED ops \/ ops' = <<>>
           /\ \A i \in 1..Len(ops') : ops'[i].manager # at[x]
           /\ at[x] # None => registry'[at[x]].byId[x] = None
  <2>1. Of(x)' = {}
    BY <1>3 DEF Of, Queued
  <2>2. at[x] # None => Entry(x)' = None
    BY <1>3 DEF Entry
  <2> QED
    BY <1>1, <2>1, <2>2 DEF IdRight, AskedRight, PairsRight, BackRight, HeldRight, StepRight
<1> QED
  BY <1>2, <1>3

\* The entry of a workspace is the one in the registry that its operations write to.
LEMMA EntryOf ==
  ASSUME Typed, Queued, NEW i \in 1..Len(ops), NEW id \in Ids, id = ops[i].ref.id, UNCHANGED at
  PROVE  /\ Entry(id) = Reg(i).byId[id]
         /\ UNCHANGED registry => Entry(id)' = Entry(id)
         /\ Entry(id)' = registry'[ops[i].manager].byId[id]
         /\ \A e : Wrote(i, id, e) => Entry(id)' = e
<1>1. at[id] = ops[i].manager /\ ops[i].manager \in Managers
  BY OpType DEF Queued
<1> QED
  BY <1>1 DEF Entry, Reg, Wrote

\* Whoever may take the entry finds no workspace on its way to an Attempt.
LEMMA OpenIsNotBack ==
  ASSUME Typed, Queued, NEW i \in 1..Len(ops), NEW id \in Ids, id = ops[i].ref.id, IdRight(id),
         CanRun(i) \/ ops[i].step \notin Waiting, ops[i].step # "return",
         Open(Entry(id), ops[i].ref.owner)
  PROVE  NoOwnerBack(id)
<1> SUFFICES ASSUME NEW j \in Of(id), ops[j].step = "return", ops[j].ref.owner # None PROVE FALSE
  BY DEF NoOwnerBack
<1>1. j \in 1..Len(ops) /\ j < i /\ i \in Of(id)
  BY OwnTurn, WaitingSteps DEF Of
<1>2. HasIt(id, ops[j].ref.owner)
  BY DEF IdRight, BackRight
<1>3. ops[j].ref.owner = ops[i].ref.owner
  BY <1>2 DEF HasIt, Open
<1>4. Shape(ops[j]) /\ ops[j].kind \in {"prepare", "recover", "finish", "remove"}
  BY <1>1, OpType DEF Queued, Operation
<1>5. ops[j].for = ops[j].ref.owner
  BY <1>4 DEF Shape
<1>6. Apart(ops[j], ops[i], held[id])
  BY <1>1 DEF IdRight, PairsRight
<1> QED
  BY <1>3, <1>5, <1>6 DEF Apart

\* A finish or a removal that takes a workspace over says nothing of a holder that is not so.
LEMMA AdoptStays ==
  ASSUME Typed, Queued, NEW i \in 1..Len(ops), NEW id \in Ids, id = ops[i].ref.id, IdRight(id),
         CanRun(i), ops[i].step = "adopt", UNCHANGED <<at, held>>, UNCHANGED registry \/ Adopts(i, id)
  PROVE  EntryStays(id)
<1>1. CASE UNCHANGED registry
  BY <1>1, EntryOf DEF EntryStays
<1>2. CASE Adopts(i, id)
  <2>1. Entry(id) = None /\ Entry(id)' = ops[i].ref
    BY <1>2, EntryOf DEF Adopts
  <2>2. NoOwnerBack(id)
    BY <2>1, OpenIsNotBack DEF Open
  <2> SUFFICES ASSUME ~Free(id) PROVE HasIt(id, held[id])'
    BY <2>1 DEF EntryStays
  <2>3. held[id] # None /\ i \in Of(id)
    BY <2>2 DEF Free, Of
  <2>4. ~HasIt(id, held[id])
    BY <2>1 DEF HasIt
  <2>5. ops[i].ref.owner = held[id]
    BY <2>3, <2>4 DEF IdRight, HeldRight
  <2>6. ops[i].ref.state = "ready" /\ ops[i].ref # None
    BY <2>3, <2>5, OpType, WorkspaceNone DEF Queued, Shape
  <2> QED
    BY <2>1, <2>5, <2>6 DEF HasIt
<1> QED
  BY <1>1, <1>2

\* What a finish or a removal has found to be required is nobody else's.
LEMMA AdoptedIsFound ==
  ASSUME Typed, Queued, NEW i \in 1..Len(ops), NEW id \in Ids, id = ops[i].ref.id, IdRight(id),
         CanRun(i), ops[i].step = "adopt", UNCHANGED <<at, held>>, UNCHANGED registry \/ Adopts(i, id),
         registry'[ops[i].manager].byId[id] = ops[i].ref
  PROVE  /\ NoOwnerBack(id)
         /\ held[id] # None => ops[i].ref.owner = held[id]
<1>1. Entry(id) = None \/ Entry(id) = ops[i].ref
  BY EntryOf DEF Adopts
<1>2. NoOwnerBack(id)
  BY <1>1, OpenIsNotBack DEF Open
<1>3. ASSUME held[id] # None, ops[i].ref.owner # held[id] PROVE FALSE
  <2>1. HasIt(id, held[id])
    BY <1>3 DEF IdRight, HeldRight, Of
  <2> QED
    BY <1>1, <1>3, <2>1 DEF HasIt
<1> QED
  BY <1>2, <1>3

LEMMA AddWorktreeOwn ==
  ASSUME Typed, Queued, NEW i \in 1..Len(ops), NEW id \in Ids, id = ops[i].ref.id, IdRight(id), AddWorktree(i)
  PROVE  IdRight(id)'
<1>1. CanRun(i) /\ ops[i].kind = "prepare" /\ ops[i].step = "add" /\ UNCHANGED <<registry, at, held>>
  BY AddWorktreeDoes
<1>2. EntryStays(id) /\ Entry(id)' = Entry(id)
  BY <1>1, EntryOf DEF EntryStays
<1>3. CASE Throws(i) /\ UNCHANGED git
  <2>1. Here(id)' = Here(id)
    BY <1>3 DEF git, Here
  <2> QED
    BY <1>1, <1>2, <1>3, <2>1, OwnEnds
<1>4. CASE ~(Throws(i) /\ UNCHANGED git)
  <2>1. PICK op \in Operation :
          /\ Goes(i, op) /\ Same(op, ops[i]) /\ op.step = "register" /\ op.ref.owner = ops[i].ref.owner
          /\ \/ /\ UNCHANGED git /\ op.created = ops[i].created
                /\ Here(id) /\ Reg(i).byId[id] # None
             \/ disk[Path[id]] = None
    BY <1>4, AddWorktreeDoes
  <2>2. ~ops[i].created
    BY <1>1 DEF Queued, Shape
  <2>3. disk[Path[id]] = None => Clear(id)
    BY DEF IdRight, BackRight, HeldRight, Here, Clear, NoOwnerBack
  <2>4. Here(id) => Here(id)'
    BY <2>1 DEF git, Here
  <2>5. StepOk(id, op)
    <3>1. CASE disk[Path[id]] = None
      BY <2>1, <2>3, <3>1 DEF StepOk, Clear
    <3>2. CASE op.created = ops[i].created /\ Reg(i).byId[id] # None
      <4>1. Entry(id) # None
        BY <1>1, <3>2, EntryOf
      <4> QED
        BY <2>1, <2>2, <3>2, <4>1 DEF StepOk, IdRight, HeldRight
    <3> QED
      BY <2>1, <3>1, <3>2
  <2> QED
    BY <1>1, <1>2, <2>1, <2>4, <2>5, OwnGoes DEF Waiting
<1> QED
  BY <1>3, <1>4

LEMMA RegisterPreparedOwn ==
  ASSUME Typed, Queued, NEW i \in 1..Len(ops), NEW id \in Ids, id = ops[i].ref.id, IdRight(id), RegisterPrepared(i)
  PROVE  IdRight(id)'
<1>1. CanRun(i) /\ ops[i].kind = "prepare" /\ ops[i].step = "register" /\ UNCHANGED <<at, held>>
  BY RegisterPreparedDoes
<1>2. i \in Of(id) /\ StepOk(id, ops[i]) /\ Shape(ops[i])
  BY DEF Of, IdRight, StepRight, Queued
<1>3. CASE Throws(i) /\ UNCHANGED registry
  <2>1. EntryStays(id)
    BY <1>1, <1>3, EntryOf DEF EntryStays
  <2>2. UNCHANGED disk \/ ops[i].created
    <3>1. CASE ~Throws(i)
      BY <1>3, <3>1
    <3> QED
      BY <3>1, RegisterPreparedDoes
  <2>3. (Here(id) => Here(id)') \/ Clear(id)
    BY <1>1, <1>2, <2>2 DEF Here, StepOk
  <2> QED
    BY <1>1, <1>3, <2>1, <2>3, OwnEnds
<1>4. CASE ~(Throws(i) /\ UNCHANGED registry)
  <2>1. /\ Open(Reg(i).byId[id], ops[i].ref.owner) /\ UNCHANGED disk
        /\ \E op \in Operation :
                    /\ Goes(i, op) /\ Same(op, ops[i]) /\ op.ref = ops[i].ref /\ op.created = ops[i].created
                    /\ op.step = IF op.created THEN "afterCreate" ELSE "beforeRun"
    BY <1>4, RegisterPreparedDoes
  <2>2. PICK op \in Operation :
                    /\ Goes(i, op) /\ Same(op, ops[i]) /\ op.ref = ops[i].ref /\ op.created = ops[i].created
                    /\ op.step = IF op.created THEN "afterCreate" ELSE "beforeRun"
    BY <2>1
  <2>3. Open(Entry(id), ops[i].ref.owner)
    BY <1>1, <2>1, EntryOf
  <2>4. NoOwnerBack(id)
    BY <1>1, <2>3, OpenIsNotBack
  <2>5. Free(id)
    <3> SUFFICES ASSUME held[id] # None, ~SomeBack(id) PROVE FALSE
      BY <2>4 DEF Free
    <3>1. HasIt(id, held[id])
      BY <1>1, <1>2 DEF StepOk
    <3>2. ops[i].ref.owner = held[id]
      BY <2>3, <3>1 DEF HasIt, Open
    <3>3. ops[i].for = held[id]
      BY <1>1, <1>2, <3>2 DEF Shape
    <3> QED
      BY <1>2, <3>3 DEF IdRight, AskedRight
  <2>6. EntryStays(id) /\ (Here(id) => Here(id)')
    BY <2>1, <2>5 DEF EntryStays, Here
  <2>7. StepOk(id, op)
    BY <1>1, <1>2, <2>2, <2>5 DEF StepOk
  <2>8. op.step \notin Waiting \cup {"return", "register"}
    BY <2>2 DEF Waiting
  <2> QED
    BY <1>1, <2>2, <2>6, <2>7, <2>8, OwnGoes
<1> QED
  BY <1>3, <1>4

LEMMA AfterCreateOwn ==
  ASSUME Typed, Queued, NEW i \in 1..Len(ops), NEW id \in Ids, id = ops[i].ref.id, IdRight(id),
         AfterCreate(i) \/ AfterCreateFails(i)
  PROVE  IdRight(id)'
<1>1. i \in Of(id) /\ StepOk(id, ops[i])
  BY DEF Of, IdRight, StepRight
<1>2. ops[i].step = "afterCreate" /\ ops[i].step \notin Waiting \cup {"return"} /\ UNCHANGED <<at, held>>
  BY AfterCreateDoes, AfterCreateFailsDoes DEF Waiting
<1>3. Clear(id) /\ Free(id)
  BY <1>1, <1>2 DEF StepOk, Clear, Free
<1>4. EntryStays(id)
  BY <1>3 DEF EntryStays
<1>5. CASE AfterCreate(i)
  <2>1. PICK op \in Operation :
              /\ Goes(i, op) /\ Same(op, ops[i]) /\ op.ref = ops[i].ref /\ op.created = ops[i].created
              /\ op.step = "beforeRun"
    BY <1>5, AfterCreateDoes
  <2>2. Here(id)' = Here(id)
    BY <1>5, AfterCreateDoes DEF git, Here
  <2>3. StepOk(id, op) /\ op.step \notin Waiting \cup {"return", "register"}
    BY <1>3, <2>1 DEF StepOk, Waiting
  <2> QED
    BY <1>2, <1>4, <2>1, <2>2, <2>3, OwnGoes
<1>6. CASE AfterCreateFails(i)
  <2>1. Throws(i)
    BY <1>6, AfterCreateFailsDoes
  <2> QED
    BY <1>2, <1>3, <1>4, <2>1, OwnEnds
<1> QED
  BY <1>5, <1>6

LEMMA TakeOwn ==
  ASSUME Typed, Queued, NEW i \in 1..Len(ops), NEW id \in Ids, id = ops[i].ref.id, IdRight(id), Take(i)
  PROVE  IdRight(id)'
<1>1. CanRun(i) /\ ops[i].kind = "recover" /\ ops[i].step = "take" /\ UNCHANGED <<at, held, git>>
  BY TakeDoes
<1>2. i \in Of(id) /\ Shape(ops[i])
  BY DEF Of, Queued
<1>3. Here(id) => Here(id)'
  BY <1>1 DEF git, Here
<1>4. CASE Throws(i) /\ UNCHANGED registry
  <2>1. EntryStays(id)
    BY <1>1, <1>4, EntryOf DEF EntryStays
  <2> QED
    BY <1>1, <1>3, <1>4, <2>1, OwnEnds
<1>5. CASE ~(Throws(i) /\ UNCHANGED registry)
  <2>1. Open(Reg(i).byId[id], ops[i].ref.owner)
    BY <1>5, TakeDoes
  <2>2. PICK op \in Operation :
          /\ Goes(i, op) /\ Same(op, ops[i]) /\ op.step = "beforeRun" /\ op.ref.owner = op.for
    BY <1>5, TakeDoes
  <2>3. Open(Entry(id), None) /\ ops[i].ref.owner = None
    BY <1>1, <1>2, <2>1, EntryOf DEF Shape
  <2>4. NoOwnerBack(id)
    BY <1>1, <2>3, OpenIsNotBack
  <2>5. Free(id)
    <3> SUFFICES ASSUME held[id] # None, ~SomeBack(id) PROVE FALSE
      BY <2>4 DEF Free
    <3>1. HasIt(id, held[id])
      BY <1>1, <1>2, <2>3 DEF IdRight, HeldRight
    <3> QED
      BY <2>3, <3>1 DEF HasIt, Open
  <2>6. EntryStays(id)
    BY <2>5 DEF EntryStays
  <2>7. StepOk(id, op) /\ op.step \notin Waiting \cup {"return", "register"}
    BY <2>2, <2>5 DEF StepOk, Waiting
  <2>8. op.kind # "finish"
    BY <1>1, <2>2 DEF Same
  <2> QED
    BY <1>1, <1>3, <2>2, <2>6, <2>7, <2>8, OwnGoes
<1> QED
  BY <1>4, <1>5

LEMMA BeforeRunOwn ==
  ASSUME Typed, Queued, NEW i \in 1..Len(ops), NEW id \in Ids, id = ops[i].ref.id, IdRight(id),
         BeforeRun(i) \/ BeforeRunFails(i)
  PROVE  IdRight(id)'
<1>1. i \in Of(id) /\ StepOk(id, ops[i]) /\ Shape(ops[i])
  BY DEF Of, IdRight, StepRight, Queued
<1>2. /\ ops[i].kind \in {"prepare", "recover"} /\ ops[i].step = "beforeRun"
      /\ ops[i].step \notin Waiting \cup {"return"} /\ UNCHANGED <<at, held, git>>
  BY BeforeRunDoes, BeforeRunFailsDoes DEF Waiting
<1>3. Free(id)
  BY <1>1, <1>2 DEF StepOk
<1>4. EntryStays(id) /\ Here(id)' = Here(id)
  BY <1>2, <1>3 DEF EntryStays, git, Here
<1>5. CASE BeforeRun(i)
  <2>1. PICK op \in Operation :
              /\ Goes(i, op) /\ Same(op, ops[i]) /\ op.step = "return"
              /\ op.ref.owner = ops[i].ref.owner /\ op.ref.state = ops[i].ref.state
              /\ Wrote(i, id, op.ref)
    BY <1>5, BeforeRunDoes
  <2>2. Here(id)
    BY <1>5, BeforeRunDoes
  <2>3. op.ref \in Reference /\ op.ref.state = "ready"
    BY <1>1, <1>2, <2>1 DEF Shape, Operation
  <2>4. HasIt(id, op.ref.owner)'
    <3>1. PICK r \in Reference : r = op.ref
      BY <2>3
    <3>2. Entry(id)' = r
      BY <1>2, <2>1, <3>1, EntryOf
    <3>3. r # None
      BY WorkspaceNone
    <3> QED
      BY <2>3, <3>1, <3>2, <3>3 DEF HasIt
  <2>5. \A j \in Of(id) : j # i /\ held[id] # None /\ ops[j].step \in {"take", "adopt"} => ops[j].ref.owner = held[id]
    BY <1>3 DEF Free, IdRight, HeldRight
  <2>6. NoOwnerBack(id)
    BY <1>3 DEF Free
  <2> QED
    BY <1>2, <1>3, <1>4, <2>1, <2>2, <2>4, <2>5, <2>6, OwnReturns
<1>6. CASE BeforeRunFails(i)
  <2>1. Throws(i)
    BY <1>6, BeforeRunFailsDoes
  <2> QED
    BY <1>2, <1>4, <2>1, OwnEnds
<1> QED
  BY <1>5, <1>6

LEMMA AdoptToFinishOwn ==
  ASSUME Typed, Queued, NEW i \in 1..Len(ops), NEW id \in Ids, id = ops[i].ref.id, IdRight(id), AdoptToFinish(i)
  PROVE  IdRight(id)'
<1>1. /\ CanRun(i) /\ ops[i].kind = "finish" /\ ops[i].step = "adopt" /\ UNCHANGED <<at, held, git>>
      /\ UNCHANGED registry \/ Adopts(i, id)
  BY AdoptToFinishDoes
<1>2. EntryStays(id) /\ Here(id)' = Here(id)
  BY <1>1, AdoptStays DEF git, Here
<1>3. CASE Throws(i)
  BY <1>1, <1>2, <1>3, OwnEnds
<1>4. CASE ~Throws(i)
  <2>1. PICK op \in Operation :
                    /\ Goes(i, op) /\ Same(op, ops[i]) /\ op.ref = ops[i].ref /\ op.created = ops[i].created
                    /\ op.step = "afterRun"
    BY <1>4, AdoptToFinishDoes
  <2>2. registry'[ops[i].manager].byId[id] = ops[i].ref
    BY <1>4, AdoptToFinishDoes
  <2>3. NoOwnerBack(id) /\ (held[id] # None => ops[i].ref.owner = held[id])
    BY <1>1, <2>2, AdoptedIsFound
  <2>4. StepOk(id, op) /\ op.step \notin Waiting \cup {"return", "register"}
    BY <2>1, <2>3 DEF StepOk, Waiting
  <2> QED
    BY <1>1, <1>2, <2>1, <2>4, OwnGoes
<1> QED
  BY <1>3, <1>4

LEMMA AfterRunOwn ==
  ASSUME Typed, Queued, NEW i \in 1..Len(ops), NEW id \in Ids, id = ops[i].ref.id, IdRight(id), AfterRun(i)
  PROVE  IdRight(id)'
<1>1. i \in Of(id) /\ StepOk(id, ops[i])
  BY DEF Of, IdRight, StepRight
<1>2. /\ ops[i].kind = "finish" /\ ops[i].step = "afterRun"
      /\ ops[i].step \notin Waiting \cup {"return"} /\ UNCHANGED <<at, held, git>>
  BY AfterRunDoes DEF Waiting
<1>3. NoOwnerBack(id) /\ (held[id] # None /\ ~SomeBack(id) => ops[i].ref.owner = held[id])
  BY <1>1, <1>2 DEF StepOk
<1>4. Here(id)' = Here(id)
  BY <1>2 DEF git, Here
<1>5. CASE Throws(i) /\ UNCHANGED registry
  <2>1. EntryStays(id)
    BY <1>2, <1>5, EntryOf DEF EntryStays
  <2> QED
    BY <1>2, <1>4, <1>5, <2>1, OwnEnds
<1>6. CASE ~(Throws(i) /\ UNCHANGED registry)
  <2>1. PICK op \in Operation :
          Goes(i, op) /\ Same(op, ops[i]) /\ op.step = "return" /\ op.ref.owner = None
    BY <1>6, AfterRunDoes
  <2>2. ASSUME NEW j \in Of(id), j # i, held[id] # None, ops[j].step \in {"take", "adopt"}
        PROVE  ops[j].ref.owner = held[id]
    <3>1. CASE SomeBack(id)
      BY <2>2, <3>1 DEF IdRight, HeldRight
    <3>2. CASE ~SomeBack(id)
      <4>1. i < j
        BY <1>2, <2>2, OwnTurn
      <4>2. Apart(ops[i], ops[j], held[id])
        BY <1>1, <4>1 DEF IdRight, PairsRight
      <4> QED
        BY <1>2, <1>3, <2>2, <3>2, <4>2 DEF Apart
    <3> QED
      BY <3>1, <3>2
  <2> QED
    BY <1>2, <1>3, <1>4, <2>1, <2>2, OwnReturns
<1> QED
  BY <1>5, <1>6

LEMMA AdoptToRemoveOwn ==
  ASSUME Typed, Queued, NEW i \in 1..Len(ops), NEW id \in Ids, id = ops[i].ref.id, IdRight(id), AdoptToRemove(i)
  PROVE  IdRight(id)'
<1>1. /\ CanRun(i) /\ ops[i].kind = "remove" /\ ops[i].step = "adopt" /\ UNCHANGED <<at, held, git>>
      /\ UNCHANGED registry \/ Adopts(i, id)
  BY AdoptToRemoveDoes
<1>2. EntryStays(id) /\ Here(id)' = Here(id)
  BY <1>1, AdoptStays DEF git, Here
<1>3. CASE Throws(i)
  BY <1>1, <1>2, <1>3, OwnEnds
<1>4. CASE ~Throws(i)
  <2>1. PICK op \in Operation :
                    /\ Goes(i, op) /\ Same(op, ops[i]) /\ op.ref = ops[i].ref
                    /\ \/ op.step = "return" /\ op.ref.state = "released"
                       \/ op.step = "beforeRemove" /\ op.ref.state = "retained" /\ op.ref.owner = None
    BY <1>4, AdoptToRemoveDoes
  <2>2. registry'[ops[i].manager].byId[id] = ops[i].ref
    BY <1>4, AdoptToRemoveDoes
  <2>3. NoOwnerBack(id) /\ (held[id] # None => ops[i].ref.owner = held[id])
    BY <1>1, <2>2, AdoptedIsFound
  <2>4. ops[i].ref.owner = None
    BY <2>1 DEF Queued, Shape
  <2>5. Clear(id) /\ held[id] = None
    BY <2>3, <2>4 DEF Clear
  <2>6. CASE op.step = "beforeRemove"
    <3>1. StepOk(id, op) /\ op.step \notin Waiting \cup {"return", "register"}
      BY <2>5, <2>6 DEF StepOk, Waiting
    <3> QED
      BY <1>1, <1>2, <2>1, <3>1, OwnGoes
  <2>7. CASE op.step = "return"
    BY <1>1, <1>2, <2>1, <2>3, <2>4, <2>5, <2>7, OwnReturns
  <2> QED
    BY <2>1, <2>6, <2>7
<1> QED
  BY <1>3, <1>4

LEMMA RemoveWorktreeOwn ==
  ASSUME Typed, Queued, NEW i \in 1..Len(ops), NEW id \in Ids, id = ops[i].ref.id, IdRight(id), RemoveWorktree(i)
  PROVE  IdRight(id)'
<1>1. i \in Of(id) /\ StepOk(id, ops[i]) /\ Shape(ops[i])
  BY DEF Of, IdRight, StepRight, Queued
<1>2. /\ ops[i].step = "beforeRemove" /\ ops[i].step \notin Waiting \cup {"return"} /\ UNCHANGED <<at, held>>
  BY RemoveWorktreeDoes DEF Waiting
<1>3. Clear(id) /\ Free(id) /\ held[id] = None /\ NoOwnerBack(id)
  BY <1>1, <1>2 DEF StepOk, Clear, Free
<1>4. EntryStays(id)
  BY <1>3 DEF EntryStays
<1>5. CASE Throws(i)
  BY <1>2, <1>3, <1>4, <1>5, OwnEnds
<1>6. CASE ~Throws(i)
  <2>1. PICK op \in Operation :
          Goes(i, op) /\ Same(op, ops[i]) /\ op.step = "return" /\ op.ref.owner = ops[i].ref.owner
    BY <1>6, RemoveWorktreeDoes
  <2>2. op.ref.owner = None
    BY <1>1, <1>2, <2>1 DEF Shape
  <2> QED
    BY <1>2, <1>3, <2>1, <2>2, OwnReturns
<1> QED
  BY <1>5, <1>6

\* The steps of an operation leave the other workspaces.
LEMMA StepOthers ==
  ASSUME Typed, Queued, NEW i \in 1..Len(ops), NEW id \in Ids, id = ops[i].ref.id,
         NEW x \in Ids, x # id, IdRight(x),
         Throws(i) \/ \E op \in Operation : Goes(i, op) /\ Same(op, ops[i]),
         UNCHANGED at, held'[x] = held[x], Here(x) => Here(x)',
         UNCHANGED registry \/ \E e : Wrote(i, id, e)
  PROVE  IdRight(x)'
<1>1. PICK f : Traced(f, x)
  <2>1. CASE Throws(i)
    <3>1. PICK f \in [1..Len(ops') -> 1..Len(ops)] :
           /\ \A k \in 1..Len(ops') : ops'[k] = ops[f[k]] /\ f[k] # i
           /\ \A k, l \in 1..Len(ops') : k < l => f[k] < f[l]
           /\ \A k \in 1..Len(ops) : k # i => \E l \in 1..Len(ops') : f[l] = k
      BY <2>1, ThrowsMaps
    <3>2. \A k \in 1..Len(ops) : ops[k].ref.id = x => k # i
      OBVIOUS
    <3>a. \A k \in 1..Len(ops') : f[k] \in 1..Len(ops) /\ ops'[k] = ops[f[k]]
      BY <3>1
    <3>b. \A k \in 1..Len(ops) : ops[k].ref.id = x => \E l \in 1..Len(ops') : f[l] = k /\ ops'[l] = ops[k]
      BY <3>1, <3>2
    <3>c. \A k, l \in 1..Len(ops') : ops'[k].ref.id = x /\ ops'[l].ref.id = x /\ k < l => f[k] < f[l]
      BY <3>1
    <3>3. Traced(f, x)
      BY <3>a, <3>b, <3>c DEF Traced
    <3> QED
      BY <3>3
  <2>2. ASSUME NEW op \in Operation, Goes(i, op), Same(op, ops[i]) PROVE \E f : Traced(f, x)
    <3>1. /\ Len(ops') = Len(ops) /\ ops'[i] = op
          /\ \A j \in 1..Len(ops) : j # i => ops'[j] = ops[j]
      BY <2>2, GoesKeeps
    <3>2. PICK f : f = [k \in 1..Len(ops') |-> k]
      OBVIOUS
    <3>3. op.ref.id # x
      BY <2>2 DEF Same
    <3>4. \A k \in 1..Len(ops) : f[k] = k /\ (ops[k].ref.id = x \/ ops'[k].ref.id = x => ops'[k] = ops[k])
      BY <3>1, <3>2, <3>3
    <3>5. Traced(f, x)
      BY <3>1, <3>4 DEF Traced
    <3> QED
      BY <3>5
  <2> QED
    BY <2>1, <2>2
<1>2. CASE at[x] \in Managers
  <2>1. registry'[at[x]].byId[x] = registry[at[x]].byId[x]
    BY <1>2 DEF Wrote
  <2>2. at'[x] = at[x]
    OBVIOUS
  <2> QED
    BY <1>1, <2>1, <2>2, OthersRight
<1>3. CASE at[x] \notin Managers
  <2>1. Of(x) = {}
    BY <1>3, OpType DEF Of, Queued
  <2>2. Of(x)' = {}
    BY <1>1, <2>1 DEF Of, Traced
  <2>3. held'[x] = None
    BY <1>3 DEF IdRight, HeldRight, Typed
  <2> QED
    BY <2>2, <2>3 DEF IdRight, AskedRight, PairsRight, BackRight, HeldRight, StepRight
<1> QED
  BY <1>2, <1>3

\* What another workspace has at its path is not removed, and nothing takes its place.
LEMMA HereStays ==
  ASSUME Typed, NEW id \in Ids, NEW x \in Ids, x # id, NEW w \in {None, Added(id)},
         UNCHANGED disk \/ (disk' = [disk EXCEPT ![Path[id]] = w] /\ (Here(id) \/ disk[Path[id]] = None))
  PROVE  Here(x) => Here(x)'
<1>1. Path[id] \in Paths /\ Path[x] \in Paths
  BY PathType
<1> QED
  BY <1>1 DEF Here, Typed

\* Each step of an operation, for the workspaces that it is not about.
LEMMA StepsOthers ==
  ASSUME Typed, Queued, NEW i \in 1..Len(ops), NEW id \in Ids, id = ops[i].ref.id,
         NEW x \in Ids, x # id, IdRight(x),
         \/ AddWorktree(i) \/ RegisterPrepared(i) \/ AfterCreate(i) \/ AfterCreateFails(i)
         \/ Take(i) \/ BeforeRun(i) \/ BeforeRunFails(i)
         \/ AdoptToFinish(i) \/ AfterRun(i)
         \/ AdoptToRemove(i) \/ RemoveWorktree(i)
  PROVE  IdRight(x)'
<1>1. CASE AddWorktree(i)
  <2>1. UNCHANGED <<registry, at, held>>
    BY <1>1, AddWorktreeDoes
  <2>2. Throws(i) \/ \E op \in Operation : Goes(i, op) /\ Same(op, ops[i])
    BY <1>1, AddWorktreeDoes
  <2>3. UNCHANGED disk \/ (disk' = [disk EXCEPT ![Path[id]] = Added(id)] /\ disk[Path[id]] = None)
    BY <1>1, AddWorktreeDoes DEF git
  <2>4. Here(x) => Here(x)'
    BY <2>3, HereStays
  <2> QED
    BY <2>1, <2>2, <2>4, StepOthers
<1>2. CASE RegisterPrepared(i)
  <2>1. UNCHANGED <<at, held>>
    BY <1>2, RegisterPreparedDoes
  <2>2. Throws(i) \/ \E op \in Operation : Goes(i, op) /\ Same(op, ops[i])
    BY <1>2, RegisterPreparedDoes
  <2>3. UNCHANGED disk \/ (disk' = [disk EXCEPT ![Path[id]] = None] /\ Here(id))
    BY <1>2, RegisterPreparedDoes
  <2>4. Here(x) => Here(x)'
    BY <2>3, HereStays
  <2>5. UNCHANGED registry \/ \E e : Wrote(i, id, e)
    BY <1>2, RegisterPreparedDoes
  <2> QED
    BY <2>1, <2>2, <2>4, <2>5, StepOthers
<1>3. CASE AfterCreate(i)
  <2>1. UNCHANGED <<git, registry, at, held>> /\ \E op \in Operation : Goes(i, op) /\ Same(op, ops[i])
    BY <1>3, AfterCreateDoes
  <2>2. Here(x) => Here(x)'
    BY <2>1 DEF git, Here
  <2> QED
    BY <2>1, <2>2, StepOthers
<1>4. CASE AfterCreateFails(i)
  <2>1. UNCHANGED <<at, held>> /\ Throws(i)
    BY <1>4, AfterCreateFailsDoes
  <2>2. UNCHANGED disk \/ (disk' = [disk EXCEPT ![Path[id]] = None] /\ (Here(id) \/ disk[Path[id]] = None))
    BY <1>4, AfterCreateFailsDoes
  <2>3. Here(x) => Here(x)'
    BY <2>2, HereStays
  <2>4. \E e : Wrote(i, id, e)
    BY <1>4, AfterCreateFailsDoes
  <2> QED
    BY <2>1, <2>3, <2>4, StepOthers
<1>5. CASE Take(i)
  <2>1. UNCHANGED <<git, at, held>>
    BY <1>5, TakeDoes
  <2>2. Throws(i) \/ \E op \in Operation : Goes(i, op) /\ Same(op, ops[i])
    BY <1>5, TakeDoes
  <2>3. Here(x) => Here(x)'
    BY <2>1 DEF git, Here
  <2>4. UNCHANGED registry \/ \E e : Wrote(i, id, e)
    BY <1>5, TakeDoes
  <2> QED
    BY <2>1, <2>2, <2>3, <2>4, StepOthers
<1>6. CASE BeforeRun(i)
  <2>1. UNCHANGED <<git, at, held>>
    BY <1>6, BeforeRunDoes
  <2>2. \E op \in Operation : Goes(i, op) /\ Same(op, ops[i])
    BY <1>6, BeforeRunDoes
  <2>3. Here(x) => Here(x)'
    BY <2>1 DEF git, Here
  <2>4. \E e : Wrote(i, id, e)
    BY <1>6, BeforeRunDoes
  <2> QED
    BY <2>1, <2>2, <2>3, <2>4, StepOthers
<1>7. CASE BeforeRunFails(i)
  <2>1. UNCHANGED <<git, at, held>> /\ Throws(i)
    BY <1>7, BeforeRunFailsDoes
  <2>2. Here(x) => Here(x)'
    BY <2>1 DEF git, Here
  <2>3. \E e : Wrote(i, id, e)
    BY <1>7, BeforeRunFailsDoes
  <2> QED
    BY <2>1, <2>2, <2>3, StepOthers
<1>8. CASE AdoptToFinish(i)
  <2>1. UNCHANGED <<git, at, held>> /\ (UNCHANGED registry \/ Adopts(i, id))
    BY <1>8, AdoptToFinishDoes
  <2>2. Throws(i) \/ \E op \in Operation : Goes(i, op) /\ Same(op, ops[i])
    BY <1>8, AdoptToFinishDoes
  <2>3. Here(x) => Here(x)'
    BY <2>1 DEF git, Here
  <2>4. UNCHANGED registry \/ \E e : Wrote(i, id, e)
    BY <2>1 DEF Adopts
  <2> QED
    BY <2>1, <2>2, <2>3, <2>4, StepOthers
<1>9. CASE AfterRun(i)
  <2>1. UNCHANGED <<git, at, held>>
    BY <1>9, AfterRunDoes
  <2>2. Throws(i) \/ \E op \in Operation : Goes(i, op) /\ Same(op, ops[i])
    BY <1>9, AfterRunDoes
  <2>3. Here(x) => Here(x)'
    BY <2>1 DEF git, Here
  <2>4. UNCHANGED registry \/ \E e : Wrote(i, id, e)
    BY <1>9, AfterRunDoes
  <2> QED
    BY <2>1, <2>2, <2>3, <2>4, StepOthers
<1>10. CASE AdoptToRemove(i)
  <2>1. UNCHANGED <<git, at, held>> /\ (UNCHANGED registry \/ Adopts(i, id))
    BY <1>10, AdoptToRemoveDoes
  <2>2. Throws(i) \/ \E op \in Operation : Goes(i, op) /\ Same(op, ops[i])
    BY <1>10, AdoptToRemoveDoes
  <2>3. Here(x) => Here(x)'
    BY <2>1 DEF git, Here
  <2>4. UNCHANGED registry \/ \E e : Wrote(i, id, e)
    BY <2>1 DEF Adopts
  <2> QED
    BY <2>1, <2>2, <2>3, <2>4, StepOthers
<1>11. CASE RemoveWorktree(i)
  <2>1. UNCHANGED <<at, held>>
    BY <1>11, RemoveWorktreeDoes
  <2>2. Throws(i) \/ \E op \in Operation : Goes(i, op) /\ Same(op, ops[i])
    BY <1>11, RemoveWorktreeDoes
  <2>3. UNCHANGED disk \/ (disk' = [disk EXCEPT ![Path[id]] = None] /\ (Here(id) \/ disk[Path[id]] = None))
    BY <1>11, RemoveWorktreeDoes
  <2>4. Here(x) => Here(x)'
    BY <2>3, HereStays
  <2>5. UNCHANGED registry \/ \E e : Wrote(i, id, e)
    BY <1>11, RemoveWorktreeDoes
  <2> QED
    BY <2>1, <2>2, <2>4, <2>5, StepOthers
<1> QED
  BY <1>1, <1>2, <1>3, <1>4, <1>5, <1>6, <1>7, <1>8, <1>9, <1>10, <1>11

LEMMA StepsRight ==
  ASSUME Typed, Queued, \A x \in Ids : IdRight(x), NEW i \in 1..Len(ops),
         \/ AddWorktree(i) \/ RegisterPrepared(i) \/ AfterCreate(i) \/ AfterCreateFails(i)
         \/ Take(i) \/ BeforeRun(i) \/ BeforeRunFails(i)
         \/ AdoptToFinish(i) \/ AfterRun(i)
         \/ AdoptToRemove(i) \/ RemoveWorktree(i)
  PROVE  \A x \in Ids : IdRight(x)'
<1>1. PICK id \in Ids : id = ops[i].ref.id
  BY OpType
<1>2. IdRight(id)'
  BY <1>1, AddWorktreeOwn, RegisterPreparedOwn, AfterCreateOwn, TakeOwn, BeforeRunOwn, AdoptToFinishOwn, AfterRunOwn,
     AdoptToRemoveOwn, RemoveWorktreeOwn
<1>3. ASSUME NEW x \in Ids, x # id PROVE IdRight(x)'
  BY <1>1, <1>3, StepsOthers
<1> QED
  BY <1>2, <1>3

LEMMA ReturnsRight ==
  ASSUME Typed, Queued, \A x \in Ids : IdRight(x), NEW i \in 1..Len(ops), Return(i)
  PROVE  \A x \in Ids : IdRight(x)'
<1>1. PICK id \in Ids : id = ops[i].ref.id
  BY OpType
<1>2. IdRight(id)'
  BY <1>1, ReturnRight
<1>3. ASSUME NEW x \in Ids, x # id PROVE IdRight(x)'
  <2>1. Throws(i) /\ UNCHANGED <<git, registry, at>> /\ held'[x] = held[x]
    BY <1>1, <1>3, ReturnDoes
  <2>2. Here(x) => Here(x)'
    BY <2>1 DEF git, Here
  <2>3. IdRight(x)
    OBVIOUS
  <2> QED
    BY <1>1, <1>3, <2>1, <2>2, <2>3, StepOthers
<1> QED
  BY <1>2, <1>3

LEMMA EditRight ==
  ASSUME Typed, Queued, \A x \in Ids : IdRight(x), NEW p \in Paths, Edit(p)
  PROVE  \A x \in Ids : IdRight(x)'
<1> SUFFICES ASSUME NEW x \in Ids PROVE IdRight(x)'
  OBVIOUS
<1>1. PICK dirty \in BOOLEAN : disk' = [disk EXCEPT ![p] = [@ EXCEPT !.tree = edits + 1, !.dirty = dirty]]
  BY DEF Edit
<1>2. PICK w \in Worktree : w = disk[p]
  BY DEF Edit, Typed
<1>3. PICK v \in Worktree : v = [w EXCEPT !.tree = edits + 1, !.dirty = dirty]
  <2>1. edits + 1 \in Nat
    BY DEF Typed
  <2> QED
    BY <2>1 DEF Worktree
<1>4. v.branch = w.branch /\ v # None
  BY <1>3, WorkspaceNone DEF Worktree
<1>5. disk' = [disk EXCEPT ![p] = v]
  BY <1>1, <1>2, <1>3
<1>6. Here(x)' = Here(x)
  <2>1. Path[x] \in Paths /\ disk[p] # None
    BY PathType DEF Edit
  <2>2. disk'[Path[x]] = IF Path[x] = p THEN v ELSE disk[Path[x]]
    BY <1>5, <2>1 DEF Typed
  <2> QED
    BY <1>2, <1>4, <2>1, <2>2 DEF Here
<1>7. UNCHANGED <<registry, ops, at, held>>
  BY DEF Edit
<1>8. PICK f : f = [k \in 1..Len(ops') |-> k]
  OBVIOUS
<1>9. \A k \in 1..Len(ops) : f[k] = k
  BY <1>7, <1>8
<1>10. Traced(f, x)
  BY <1>7, <1>9 DEF Traced
<1>11. IdRight(x) /\ held'[x] = held[x] /\ at'[x] = at[x] /\ registry'[at[x]].byId[x] = registry[at[x]].byId[x]
  BY <1>7
<1> QED
  BY <1>6, <1>10, <1>11, OthersRight

LEMMA RenewRight ==
  ASSUME Typed, Queued, \A x \in Ids : IdRight(x), NEW m \in Managers, Renew(m)
  PROVE  \A x \in Ids : IdRight(x)'
<1> SUFFICES ASSUME NEW x \in Ids PROVE IdRight(x)'
  OBVIOUS
<1>1. /\ UNCHANGED <<git, ops, at, held>> /\ registry' = [registry EXCEPT ![m] = EmptyRegistry]
      /\ \A i \in 1..Len(ops) : ops[i].manager # m
  BY DEF Renew
<1>2. IdRight(x)
  OBVIOUS
<1>3. CASE at[x] = m
  <2>1. registry'[at[x]].byId[x] = None
    BY <1>1, <1>3 DEF Typed, EmptyRegistry
  <2>2. \A i \in 1..Len(ops') : ops'[i].manager # at[x]
    BY <1>1, <1>3
  <2> QED
    BY <1>1, <1>2, <2>1, <2>2, ForgottenRight
<1>4. CASE at[x] # m
  <2>1. registry'[at[x]] = registry[at[x]]
    BY <1>1, <1>4 DEF Typed
  <2> QED
    BY <1>1, <1>2, <2>1, ForgottenRight
<1> QED
  BY <1>3, <1>4

LEMMA CrashRight ==
  ASSUME Typed, Queued, \A x \in Ids : IdRight(x), Crash
  PROVE  \A x \in Ids : IdRight(x)'
<1> SUFFICES ASSUME NEW x \in Ids PROVE IdRight(x)'
  OBVIOUS
<1>1. UNCHANGED <<git, at, held>> /\ ops' = <<>> /\ registry' = [m \in Managers |-> EmptyRegistry]
  BY DEF Crash
<1>2. at[x] # None => registry'[at[x]].byId[x] = None
  BY <1>1 DEF Typed, EmptyRegistry
<1>3. \A i \in 1..Len(ops') : ops'[i].manager # at[x]
  BY <1>1
<1>4. IdRight(x)
  OBVIOUS
<1> QED
  BY <1>1, <1>2, <1>3, <1>4, ForgottenRight

\* Each workspace has one holder: the inductive invariant.
HoldersRight == Typed /\ Queued /\ \A id \in Ids : IdRight(id)

LEMMA InitHolders == Init => HoldersRight
<1> SUFFICES ASSUME Init PROVE HoldersRight
  OBVIOUS
<1>1. Typed /\ Queued
  BY InitTyped, InitQueued
<1>2. ASSUME NEW id \in Ids PROVE IdRight(id)
  <2>1. Of(id) = {} /\ held[id] = None
    BY DEF Init, Of
  <2> QED
    BY <2>1 DEF IdRight, AskedRight, PairsRight, BackRight, HeldRight, StepRight
<1> QED
  BY <1>1, <1>2 DEF HoldersRight

LEMMA NextHolders ==
  ASSUME HoldersRight, [Next]_vars
  PROVE  HoldersRight'
<1>1. Typed /\ Queued /\ \A id \in Ids : IdRight(id)
  BY DEF HoldersRight
<1>2. Typed' /\ Queued'
  BY <1>1, NextTyped, NextQueued
<1>3. CASE UNCHANGED vars
  <2> SUFFICES ASSUME NEW x \in Ids PROVE IdRight(x)'
    BY <1>2 DEF HoldersRight
  <2>1. UNCHANGED <<git, at, held>> /\ UNCHANGED <<ops, registry>> /\ IdRight(x)
    BY <1>1, <1>3 DEF vars
  <2> QED
    BY <1>1, <2>1, ForgottenRight
<1>4. ASSUME NEW m \in Managers, NEW id \in Ids,
             \/ \E a \in Attempts : Prepare(m, id, a) \/ Recover(m, id, a)
             \/ Finish(m, id)
             \/ \E discard \in BOOLEAN : RemoveWorkspace(m, id, discard)
      PROVE  \A x \in Ids : IdRight(x)'
  BY <1>1, <1>4, CallsRight
<1>5. ASSUME NEW i \in 1..Len(ops),
             \/ AddWorktree(i) \/ RegisterPrepared(i) \/ AfterCreate(i) \/ AfterCreateFails(i)
             \/ Take(i) \/ BeforeRun(i) \/ BeforeRunFails(i)
             \/ AdoptToFinish(i) \/ AfterRun(i)
             \/ AdoptToRemove(i) \/ RemoveWorktree(i)
      PROVE  \A x \in Ids : IdRight(x)'
  BY <1>1, <1>5, StepsRight
<1>6. ASSUME NEW i \in 1..Len(ops), Return(i) PROVE \A x \in Ids : IdRight(x)'
  BY <1>1, <1>6, ReturnsRight
<1>7. ASSUME NEW p \in Paths, Edit(p) PROVE \A x \in Ids : IdRight(x)'
  BY <1>1, <1>7, EditRight
<1>8. ASSUME NEW m \in Managers, Renew(m) PROVE \A x \in Ids : IdRight(x)'
  BY <1>1, <1>8, RenewRight
<1>9. CASE Crash
  BY <1>1, <1>2, <1>9, CrashRight DEF HoldersRight
<1>10. CASE Next /\ ~Crash
  <2>1. \A x \in Ids : IdRight(x)'
    BY <1>4, <1>5, <1>6, <1>7, <1>8, <1>10 DEF Next
  <2> QED
    BY <1>2, <2>1 DEF HoldersRight
<1> QED
  BY <1>3, <1>9, <1>10

\* Only Return gives a workspace away, and it does when nobody has it.
LEMMA StepKeepsHolder ==
  ASSUME HoldersRight, [Next]_vars, NEW x \in Ids, held[x] # None, held'[x] # None
  PROVE  held'[x] = held[x]
<1>1. Typed /\ Queued /\ \A id \in Ids : IdRight(id)
  BY DEF HoldersRight
<1>2. ASSUME NEW i \in 1..Len(ops), Return(i) PROVE held'[x] = held[x]
  <2>1. PICK id \in Ids : id = ops[i].ref.id
    BY <1>1, OpType
  <2>2. CASE x = id
    BY <1>1, <1>2, <2>1, <2>2, ReturnRight, ReturnDoes
  <2>3. CASE x # id
    BY <1>1, <1>2, <2>1, <2>3, ReturnDoes
  <2> QED
    BY <2>2, <2>3
<1>3. ASSUME UNCHANGED held PROVE held'[x] = held[x]
  BY <1>3
<1>4. CASE UNCHANGED vars
  BY <1>3, <1>4 DEF vars
<1>5. ASSUME NEW m \in Managers, NEW id \in Ids,
             \/ \E a \in Attempts : Prepare(m, id, a) \/ Recover(m, id, a)
             \/ Finish(m, id)
             \/ \E discard \in BOOLEAN : RemoveWorkspace(m, id, discard)
      PROVE  held'[x] = held[x]
  BY <1>3, <1>5 DEF Prepare, Recover, Finish, RemoveWorkspace, Call
<1>6. ASSUME NEW i \in 1..Len(ops),
             \/ AddWorktree(i) \/ RegisterPrepared(i) \/ AfterCreate(i) \/ AfterCreateFails(i)
             \/ Take(i) \/ BeforeRun(i) \/ BeforeRunFails(i)
             \/ AdoptToFinish(i) \/ AfterRun(i)
             \/ AdoptToRemove(i) \/ RemoveWorktree(i)
      PROVE  held'[x] = held[x]
  BY <1>3, <1>6 DEF AddWorktree, RegisterPrepared, AfterCreate, AfterCreateFails, Take, BeforeRun, BeforeRunFails,
                    AdoptToFinish, AfterRun, AdoptToRemove, RemoveWorktree
<1>7. ASSUME NEW p \in Paths, Edit(p) PROVE held'[x] = held[x]
  BY <1>3, <1>7 DEF Edit
<1>8. ASSUME NEW m \in Managers, Renew(m) PROVE held'[x] = held[x]
  BY <1>3, <1>8 DEF Renew
<1>9. CASE Crash
  BY <1>3, <1>9 DEF Crash
<1> QED
  BY <1>2, <1>4, <1>5, <1>6, <1>7, <1>8, <1>9 DEF Next

\* What the log, the registries and the operations under way say of a workspace agrees, and with
\* it who holds it.
THEOREM HoldersStayRight == Spec => []HoldersRight
<1>1. Init => HoldersRight
  BY InitHolders
<1>2. HoldersRight /\ [Next]_vars => HoldersRight'
  BY NextHolders
<1> QED
  BY <1>1, <1>2, PTL DEF Spec

\* A workspace that was given to an Attempt is given to no other one before it is finished, by
\* whatever managers, operations under way, failing hooks, edits of people and lost registries.
THEOREM HolderIsAlone == Spec => ExclusiveHolder
<1>1. HoldersRight /\ [Next]_vars =>
        [\A id \in Ids : held[id] # None /\ held'[id] # None => held'[id] = held[id]]_vars
  BY StepKeepsHolder
<1> QED
  BY <1>1, HoldersStayRight, PTL DEF Spec, ExclusiveHolder

-----------------------------------------------------------------------------
(* Trees and paths *)

\* What is at a path belongs there, and no tree is newer than the last change.
Small(ref) == ref.tree \in 0..edits
Placed == \A p \in Paths : disk[p] # None => disk[p].tree <= edits /\ Path[disk[p].branch] = p
Pointed == \A id \in Ids : branches[id] # None => branches[id] <= edits

\* A registry has no entry without its path.
Entered ==
  \A m \in Managers, id \in Ids :
    registry[m].byId[id] # None =>
      registry[m].byId[id].id = id /\ Small(registry[m].byId[id]) /\ registry[m].byPath[Path[id]] = id

Logged == \A id \in Ids : known[id] # None => Small(known[id])

\* Between two hooks the path is the operation's.
Active == {"afterCreate", "beforeRun", "afterRun", "beforeRemove"}
OpSized(op) ==
  /\ op.step = "add" => op.ref.tree = None
  /\ op.step # "add" => Small(op.ref)
  /\ op.step \in Active => registry[op.manager].byPath[Path[op.ref.id]] = op.ref.id
OpsSized == \A i \in 1..Len(ops) : OpSized(ops[i])

Sized == edits <= MaxEdits /\ Placed /\ Pointed /\ Entered /\ Logged /\ OpsSized

\* It is an operation's turn, and it has not returned.
InTurn(i) == ops[i].step # "return" /\ (CanRun(i) \/ ops[i].step \notin Waiting)

LEMMA InitSized == Init => Sized
<1> SUFFICES ASSUME Init PROVE Sized
  OBVIOUS
<1>1. Len(ops) = 0 /\ edits <= MaxEdits
  BY WorkspaceBounds DEF Init
<1>2. Entered
  BY DEF Init, Entered, EmptyRegistry
<1> QED
  BY <1>1, <1>2 DEF Init, Sized, Placed, Pointed, Logged, OpsSized

\* The path of another operation between its hooks is not the one that is written.
LEMMA ActiveStays ==
  ASSUME Typed, Queued, NEW i \in 1..Len(ops), NEW id, id = ops[i].ref.id, InTurn(i),
         PathsStay \/ PathTaken(i, id) \/ PathFreed(i, id),
         NEW j \in 1..Len(ops), j # i, ops[j].step \in Active
  PROVE  registry'[ops[j].manager].byPath[Path[ops[j].ref.id]] = registry[ops[j].manager].byPath[Path[ops[j].ref.id]]
<1>1. ~Alike(ops[i], ops[j])
  <2>1. CASE j < i
    <3>1. Alike(ops[i], ops[j]) => Alike(ops[j], ops[i])
      BY DEF Alike
    <3> QED
      BY <2>1, <3>1, TurnIsFirst DEF InTurn, Active
  <2>2. CASE i < j
    BY <2>2, OthersWait DEF InTurn, Active, Waiting
  <2> QED
    BY <2>1, <2>2
<1>2. ops[j].manager \in Managers /\ Path[ops[j].ref.id] \in Paths
  BY OpType, PathType
<1> QED
  BY <1>1, <1>2 DEF Alike, PathsStay, PathTaken, PathFreed

\* An operation goes on, or ends.
LEMMA GoesSized ==
  ASSUME Typed, Queued, OpsSized, NEW i \in 1..Len(ops), NEW id, id = ops[i].ref.id, InTurn(i), UNCHANGED edits,
         PathsStay \/ PathTaken(i, id) \/ PathFreed(i, id),
         NEW op \in Operation, Goes(i, op), OpSized(op)'
  PROVE  OpsSized'
<1>1. /\ Len(ops') = Len(ops) /\ ops'[i] = op
      /\ \A j \in 1..Len(ops) : j # i => ops'[j] = ops[j]
  BY GoesKeeps
<1>2. ASSUME NEW j \in 1..Len(ops) PROVE OpSized(ops[j])'
  <2>1. CASE j = i
    BY <1>1, <2>1 DEF OpSized, Small
  <2>2. CASE j # i
    <3>1. OpSized(ops[j]) /\ ops'[j] = ops[j]
      BY <1>1, <2>2 DEF OpsSized
    <3>2. ops[j].step \in Active =>
            registry'[ops[j].manager].byPath[Path[ops[j].ref.id]] = registry[ops[j].manager].byPath[Path[ops[j].ref.id]]
      BY <2>2, ActiveStays
    <3> QED
      BY <3>1, <3>2 DEF OpSized, Small
  <2> QED
    BY <2>1, <2>2
<1> QED
  BY <1>1, <1>2 DEF OpsSized

LEMMA EndsSized ==
  ASSUME Typed, Queued, OpsSized, NEW i \in 1..Len(ops), NEW id, id = ops[i].ref.id, InTurn(i), UNCHANGED edits,
         PathsStay \/ PathTaken(i, id) \/ PathFreed(i, id), Throws(i)
  PROVE  OpsSized'
<1>1. PICK f \in [1..Len(ops') -> 1..Len(ops)] : \A k \in 1..Len(ops') : ops'[k] = ops[f[k]] /\ f[k] # i
  BY ThrowsMaps
<1>2. ASSUME NEW k \in 1..Len(ops') PROVE OpSized(ops[k])'
  <2>1. PICK j \in 1..Len(ops) : j = f[k] /\ j # i /\ ops'[k] = ops[j]
    BY <1>1
  <2>2. OpSized(ops[j])
    BY DEF OpsSized
  <2>3. ops[j].step \in Active =>
          registry'[ops[j].manager].byPath[Path[ops[j].ref.id]] = registry[ops[j].manager].byPath[Path[ops[j].ref.id]]
    BY <2>1, ActiveStays
  <2> QED
    BY <2>1, <2>2, <2>3 DEF OpSized, Small
<1> QED
  BY <1>2 DEF OpsSized

\* What is written to a registry has its path there.
LEMMA WroteEntered ==
  ASSUME Typed, Entered, NEW i \in 1..Len(ops), NEW id, id = ops[i].ref.id, UNCHANGED edits,
         NEW e \in Reference, e.id = id, Small(e), Wrote(i, id, e),
         \/ PathsStay /\ Reg(i).byPath[Path[id]] = id
         \/ PathTaken(i, id) /\ Reg(i).byPath[Path[id]] \in {None, id}
  PROVE  Entered'
<1> SUFFICES ASSUME NEW m \in Managers, NEW x \in Ids, registry'[m].byId[x] # None
             PROVE  /\ registry'[m].byId[x].id = x /\ registry'[m].byId[x].tree \in 0..edits'
                    /\ registry'[m].byPath[Path[x]] = x
  BY DEF Entered, Small
<1>1. id \in Ids /\ Path[id] \in Paths /\ Path[x] \in Paths /\ None \notin Ids /\ ops[i].manager \in Managers
  BY OpType, PathType, WorkspaceNone
<1>2. CASE m = ops[i].manager /\ x = id
  <2>1. registry'[m].byId[x] = e
    BY <1>1, <1>2 DEF Wrote
  <2>2. registry'[m].byPath[Path[x]] = x
    BY <1>1, <1>2 DEF PathsStay, PathTaken, Reg
  <2> QED
    BY <1>2, <2>1, <2>2 DEF Small
<1>3. CASE ~(m = ops[i].manager /\ x = id)
  <2>1. registry'[m].byId[x] = registry[m].byId[x]
    BY <1>1, <1>3 DEF Wrote
  <2>2. /\ registry[m].byId[x].id = x /\ registry[m].byId[x].tree \in 0..edits
        /\ registry[m].byPath[Path[x]] = x
    BY <2>1 DEF Entered, Small
  <2>3. registry'[m].byPath[Path[x]] = x
    BY <1>1, <1>3, <2>2 DEF PathsStay, PathTaken, Reg
  <2> QED
    BY <2>1, <2>2, <2>3
<1> QED
  BY <1>2, <1>3

LEMMA FreedEntered ==
  ASSUME Typed, Entered, NEW i \in 1..Len(ops), NEW id, id = ops[i].ref.id, UNCHANGED edits,
         Wrote(i, id, None), PathFreed(i, id)
  PROVE  Entered'
<1> SUFFICES ASSUME NEW m \in Managers, NEW x \in Ids, registry'[m].byId[x] # None
             PROVE  /\ registry'[m].byId[x].id = x /\ registry'[m].byId[x].tree \in 0..edits'
                    /\ registry'[m].byPath[Path[x]] = x
  BY DEF Entered, Small
<1>1. Path[x] \in Paths
  BY PathType
<1>2. ~(m = ops[i].manager /\ x = id) /\ registry'[m].byId[x] = registry[m].byId[x]
  BY DEF Wrote
<1>3. /\ registry[m].byId[x].id = x /\ registry[m].byId[x].tree \in 0..edits
      /\ registry[m].byPath[Path[x]] = x
  BY <1>2 DEF Entered, Small
<1>4. registry'[m].byPath[Path[x]] = x
  BY <1>1, <1>2, <1>3 DEF PathFreed
<1> QED
  BY <1>2, <1>3, <1>4

LEMMA SameRegistry ==
  ASSUME UNCHANGED <<registry, edits>>
  PROVE  PathsStay /\ (Entered => Entered')
BY DEF PathsStay, Entered, Small

\* The trees that the driver reports, and the ones that it makes.
LEMMA SmallTrees ==
  ASSUME Typed, Placed, Pointed, NEW id \in Ids
  PROVE  /\ Here(id) => disk[Path[id]].tree \in 0..edits
         /\ Added(id).tree \in 0..edits
<1>1. Path[id] \in Paths
  BY PathType
<1>2. Here(id) => disk[Path[id]] \in Worktree
  BY <1>1 DEF Here, Typed
<1>3. Here(id) => disk[Path[id]].tree \in 0..edits
  BY <1>1, <1>2 DEF Here, Placed, Typed, Worktree
<1>4. branches[id] # None => branches[id] \in 0..edits
  BY DEF Pointed, Typed
<1>5. 0 \in 0..edits
  BY DEF Typed
<1>6. Added(id).tree = IF branches[id] = None THEN 0 ELSE branches[id]
  BY DEF Added
<1> QED
  BY <1>3, <1>4, <1>5, <1>6

\* A removal and an addition keep what is at the other paths.
LEMMA WrittenPlaced ==
  ASSUME Typed, Placed, Pointed, NEW id \in Ids, UNCHANGED edits,
         UNCHANGED disk \/ disk' = [disk EXCEPT ![Path[id]] = None] \/ disk' = [disk EXCEPT ![Path[id]] = Added(id)]
  PROVE  Placed'
<1> SUFFICES ASSUME NEW p \in Paths, disk'[p] # None PROVE disk'[p].tree <= edits' /\ Path[disk'[p].branch] = p
  BY DEF Placed
<1>1. disk'[p] = disk[p] \/ (p = Path[id] /\ disk'[p] = Added(id))
  BY PathType DEF Typed
<1>2. CASE disk'[p] = disk[p]
  BY <1>2 DEF Placed
<1>3. CASE p = Path[id] /\ disk'[p] = Added(id)
  <2>1. Added(id).branch = id /\ Added(id).tree <= edits
    <3>1. Added(id).tree \in 0..edits /\ Added(id).branch = id
      BY SmallTrees DEF Added
    <3> QED
      BY <3>1 DEF Typed
  <2> QED
    BY <1>3, <2>1
<1> QED
  BY <1>1, <1>2, <1>3

\* The parts, and for each step that they are kept.
LEMMA PartsSized ==
  ASSUME Sized, UNCHANGED <<edits, known>>, Placed', Pointed', Entered', OpsSized'
  PROVE  Sized'
<1>1. Logged'
  BY DEF Sized, Logged, Small
<1> QED
  BY <1>1 DEF Sized

\* A step that leaves the worktrees alone.
LEMMA SameGit ==
  ASSUME Sized, UNCHANGED git, UNCHANGED edits
  PROVE  Placed' /\ Pointed'
BY DEF Sized, Placed, Pointed, git

LEMMA OpIsSized ==
  ASSUME Typed, Sized, NEW i \in 1..Len(ops), NEW id, id = ops[i].ref.id
  PROVE  /\ ops[i].step # "add" => Small(ops[i].ref)
         /\ ops[i].step \in Active => Reg(i).byPath[Path[id]] = id
BY DEF Sized, OpsSized, OpSized, Reg

LEMMA AddWorktreeSized ==
  ASSUME Typed, Queued, Sized, NEW i \in 1..Len(ops), AddWorktree(i)
  PROVE  Sized'
<1>1. PICK id \in Ids : id = ops[i].ref.id
  BY OpType
<1>2. InTurn(i) /\ UNCHANGED <<registry, edits, known>>
  BY <1>1, AddWorktreeDoes DEF InTurn, bounds
<1>3. PathsStay /\ Entered'
  BY <1>2, SameRegistry DEF Sized
<1>4. CASE Throws(i) /\ UNCHANGED git
  <2>1. OpsSized'
    BY <1>1, <1>2, <1>3, <1>4, EndsSized DEF Sized
  <2> QED
    BY <1>2, <1>3, <1>4, <2>1, SameGit, PartsSized
<1>5. ASSUME NEW op \in Operation, Goes(i, op), op.step = "register", op.ref.tree \in 0..edits
      PROVE  OpsSized'
  <2>1. OpSized(op)'
    BY <1>2, <1>5 DEF OpSized, Small, Active
  <2> QED
    BY <1>1, <1>2, <1>3, <1>5, <2>1, GoesSized DEF Sized
<1>6. Added(id).tree \in 0..edits /\ (Here(id) => disk[Path[id]].tree \in 0..edits)
  BY SmallTrees DEF Sized
<1>7. ASSUME NEW op \in Operation, Goes(i, op), op.step = "register", UNCHANGED git, Here(id),
             op.ref.tree = disk[Path[id]].tree
      PROVE  Sized'
  <2>1. OpsSized'
    BY <1>5, <1>6, <1>7
  <2> QED
    BY <1>2, <1>3, <1>7, <2>1, SameGit, PartsSized
<1>8. ASSUME NEW op \in Operation, Goes(i, op), op.step = "register", op.ref.tree = Added(id).tree,
             disk' = [disk EXCEPT ![Path[id]] = Added(id)], branches' = [branches EXCEPT ![id] = Added(id).tree]
      PROVE  Sized'
  <2>1. OpsSized'
    BY <1>5, <1>6, <1>8
  <2>2. Placed'
    BY <1>2, <1>8, WrittenPlaced DEF Sized
  <2>3. Pointed'
    <3> SUFFICES ASSUME NEW x \in Ids, branches'[x] # None PROVE branches'[x] <= edits'
      BY DEF Pointed
    <3>1. branches'[x] = IF x = id THEN Added(id).tree ELSE branches[x]
      BY <1>8 DEF Typed
    <3>2. branches[x] # None => branches[x] <= edits
      BY DEF Sized, Pointed
    <3>3. Added(id).tree <= edits
      BY <1>6 DEF Typed
    <3> QED
      BY <1>2, <3>1, <3>2, <3>3
  <2> QED
    BY <1>2, <1>3, <2>1, <2>2, <2>3, PartsSized
<1> QED
  BY <1>1, <1>4, <1>7, <1>8, AddWorktreeDoes

LEMMA RegisterPreparedSized ==
  ASSUME Typed, Queued, Sized, NEW i \in 1..Len(ops), RegisterPrepared(i)
  PROVE  Sized'
<1>1. PICK id \in Ids : id = ops[i].ref.id
  BY OpType
<1>2. ops[i].step = "register" /\ InTurn(i) /\ UNCHANGED <<branches, edits, known>>
  BY <1>1, RegisterPreparedDoes DEF InTurn, bounds
<1>3. Pointed'
  BY <1>2 DEF Sized, Pointed
<1>4. Small(ops[i].ref) /\ ops[i].ref \in Reference
  BY <1>1, <1>2, OpIsSized, OpType
<1>5. ASSUME NEW op \in Operation, Goes(i, op), Same(op, ops[i]), op.ref = ops[i].ref,
             op.step = IF op.created THEN "afterCreate" ELSE "beforeRun",
             Reg(i).byPath[Path[id]] \in {None, id}, Wrote(i, id, ops[i].ref), PathTaken(i, id), UNCHANGED disk
      PROVE  Sized'
  <2>1. Entered'
    BY <1>1, <1>2, <1>4, <1>5, WroteEntered DEF Sized
  <2>2. registry'[op.manager].byPath[Path[id]] = id
    BY <1>5, OpType, PathType DEF PathTaken, Same
  <2>3. OpSized(op)'
    BY <1>1, <1>2, <1>4, <1>5, <2>2 DEF OpSized, Small, Active
  <2>4. OpsSized'
    BY <1>1, <1>2, <1>5, <2>3, GoesSized DEF Sized
  <2>5. Placed'
    BY <1>2, <1>5, WrittenPlaced DEF Sized
  <2> QED
    BY <1>2, <1>3, <2>1, <2>4, <2>5, PartsSized
<1>6. CASE Throws(i) /\ UNCHANGED registry /\ (UNCHANGED disk \/ disk' = [disk EXCEPT ![Path[id]] = None])
  <2>1. PathsStay /\ Entered'
    BY <1>2, <1>6, SameRegistry DEF Sized
  <2>2. OpsSized'
    BY <1>1, <1>2, <1>6, <2>1, EndsSized DEF Sized
  <2>3. Placed'
    BY <1>2, <1>6, WrittenPlaced DEF Sized
  <2> QED
    BY <1>2, <1>3, <2>1, <2>2, <2>3, PartsSized
<1> QED
  BY <1>1, <1>5, <1>6, RegisterPreparedDoes

LEMMA AfterCreateSized ==
  ASSUME Typed, Queued, Sized, NEW i \in 1..Len(ops), AfterCreate(i)
  PROVE  Sized'
<1>1. PICK id \in Ids : id = ops[i].ref.id
  BY OpType
<1>2. ops[i].step = "afterCreate" /\ InTurn(i) /\ UNCHANGED <<git, registry, edits, known>>
  BY AfterCreateDoes DEF InTurn, bounds, Waiting
<1>3. PICK op \in Operation : Goes(i, op) /\ Same(op, ops[i]) /\ op.ref = ops[i].ref /\ op.step = "beforeRun"
  BY AfterCreateDoes
<1>4. OpSized(op)'
  BY <1>1, <1>2, <1>3, OpIsSized DEF OpSized, Small, Active, Same, Reg
<1>5. PathsStay /\ Entered'
  BY <1>2, SameRegistry DEF Sized
<1>6. OpsSized'
  BY <1>1, <1>2, <1>3, <1>4, <1>5, GoesSized DEF Sized
<1> QED
  BY <1>2, <1>5, <1>6, SameGit, PartsSized

\* What a failed hook leaves.
LEMMA ObservedSized ==
  ASSUME Typed, Queued, Sized, NEW i \in 1..Len(ops), NEW id, id = ops[i].ref.id,
         ops[i].step \in {"afterCreate", "beforeRun"},
         Throws(i), UNCHANGED <<branches, edits, known>>, UNCHANGED disk, PathsStay,
         NEW r \in Reference, r.id = id, r.tree = IF Here(id) THEN disk[Path[id]].tree ELSE ops[i].ref.tree,
         Wrote(i, id, r)
  PROVE  Sized'
<1>1. id \in Ids /\ InTurn(i) /\ ops[i].step \in Active /\ ops[i].step # "add"
  BY OpType DEF InTurn, Waiting, Active
<1>2. Small(r) /\ Reg(i).byPath[Path[id]] = id
  BY <1>1, OpIsSized, SmallTrees DEF Small, Sized
<1>3. Entered'
  BY <1>2, WroteEntered DEF Sized
<1>4. OpsSized'
  BY <1>1, EndsSized DEF Sized
<1>5. Placed' /\ Pointed'
  BY SameGit DEF git
<1> QED
  BY <1>3, <1>4, <1>5, PartsSized

LEMMA AfterCreateFailsSized ==
  ASSUME Typed, Queued, Sized, NEW i \in 1..Len(ops), AfterCreateFails(i)
  PROVE  Sized'
<1>1. PICK id \in Ids : id = ops[i].ref.id
  BY OpType
<1>2. ops[i].step = "afterCreate" /\ InTurn(i) /\ Throws(i) /\ UNCHANGED <<branches, edits, known>>
  BY <1>1, AfterCreateFailsDoes DEF InTurn, bounds, Waiting
<1>3. CASE disk' = [disk EXCEPT ![Path[id]] = None] /\ Wrote(i, id, None) /\ PathFreed(i, id)
  <2>1. Entered'
    BY <1>1, <1>2, <1>3, FreedEntered DEF Sized
  <2>2. OpsSized'
    BY <1>1, <1>2, <1>3, EndsSized DEF Sized
  <2>3. Placed'
    BY <1>2, <1>3, WrittenPlaced DEF Sized
  <2>4. Pointed'
    BY <1>2 DEF Sized, Pointed
  <2> QED
    BY <1>2, <2>1, <2>2, <2>3, <2>4, PartsSized
<1>4. ASSUME UNCHANGED disk, PathsStay, NEW r \in Reference, r.id = id,
             r.tree = IF Here(id) THEN disk[Path[id]].tree ELSE ops[i].ref.tree, Wrote(i, id, r)
      PROVE  Sized'
  BY <1>1, <1>2, <1>4, ObservedSized
<1> QED
  BY <1>1, <1>3, <1>4, AfterCreateFailsDoes

LEMMA TakeSized ==
  ASSUME Typed, Queued, Sized, NEW i \in 1..Len(ops), Take(i)
  PROVE  Sized'
<1>1. PICK id \in Ids : id = ops[i].ref.id
  BY OpType
<1>2. ops[i].step = "take" /\ InTurn(i) /\ UNCHANGED <<git, edits, known>>
  BY <1>1, TakeDoes DEF InTurn, bounds
<1>3. CASE Throws(i) /\ UNCHANGED registry
  <2>1. PathsStay /\ Entered'
    BY <1>2, <1>3, SameRegistry DEF Sized
  <2>2. OpsSized'
    BY <1>1, <1>2, <1>3, <2>1, EndsSized DEF Sized
  <2> QED
    BY <1>2, <2>1, <2>2, SameGit, PartsSized
<1>4. ASSUME NEW op \in Operation, Goes(i, op), Same(op, ops[i]), op.step = "beforeRun", op.ref.tree = ops[i].ref.tree,
             Wrote(i, id, op.ref), PathTaken(i, id), Reg(i).byPath[Path[id]] \in {None, id}
      PROVE  Sized'
  <2>1. op.ref \in Reference /\ op.ref.id = id /\ Small(op.ref)
    BY <1>1, <1>2, <1>4, OpIsSized DEF Operation, Same, Small
  <2>2. Entered'
    BY <1>1, <1>2, <1>4, <2>1, WroteEntered DEF Sized
  <2>3. registry'[op.manager].byPath[Path[id]] = id
    BY <1>4, OpType, PathType DEF PathTaken, Same
  <2>4. OpSized(op)'
    BY <1>2, <1>4, <2>1, <2>3 DEF OpSized, Small, Active
  <2>5. OpsSized'
    BY <1>1, <1>2, <1>4, <2>4, GoesSized DEF Sized
  <2> QED
    BY <1>2, <2>2, <2>5, SameGit, PartsSized
<1> QED
  BY <1>1, <1>3, <1>4, TakeDoes

\* What was seen in the worktree is written and returned.
LEMMA SeenSized ==
  ASSUME Typed, Queued, Sized, NEW i \in 1..Len(ops), NEW id, id = ops[i].ref.id,
         ops[i].step \in Active, UNCHANGED <<edits, known>>, Placed', Pointed', PathsStay,
         NEW op \in Operation, Goes(i, op), Same(op, ops[i]), op.step = "return", Wrote(i, id, op.ref),
         (Here(id) /\ op.ref.tree = disk[Path[id]].tree) \/ op.ref.tree = ops[i].ref.tree
  PROVE  Sized'
<1>1. id \in Ids /\ InTurn(i) /\ ops[i].step # "add"
  BY OpType DEF InTurn, Waiting, Active
<1>2. op.ref \in Reference /\ op.ref.id = id /\ Small(op.ref)
  BY <1>1, OpIsSized, SmallTrees DEF Operation, Same, Small, Sized
<1>3. Entered'
  BY <1>2, OpIsSized, WroteEntered DEF Sized
<1>4. OpSized(op)'
  BY <1>2 DEF OpSized, Small, Active
<1>5. OpsSized'
  BY <1>1, <1>4, GoesSized DEF Sized
<1> QED
  BY <1>3, <1>5, PartsSized

LEMMA BeforeRunSized ==
  ASSUME Typed, Queued, Sized, NEW i \in 1..Len(ops), BeforeRun(i) \/ BeforeRunFails(i)
  PROVE  Sized'
<1>1. PICK id \in Ids : id = ops[i].ref.id
  BY OpType
<1>2. CASE BeforeRun(i)
  <2>1. ops[i].step \in Active /\ UNCHANGED <<git, edits, known>> /\ PathsStay /\ Here(id)
    BY <1>1, <1>2, BeforeRunDoes DEF Active, bounds
  <2>2. PICK op \in Operation :
          /\ Goes(i, op) /\ Same(op, ops[i]) /\ op.step = "return" /\ Wrote(i, id, op.ref)
          /\ op.ref.tree = disk[Path[id]].tree
    BY <1>1, <1>2, BeforeRunDoes
  <2> QED
    BY <1>1, <2>1, <2>2, SameGit, SeenSized
<1>3. CASE BeforeRunFails(i)
  <2>1. ops[i].step = "beforeRun" /\ UNCHANGED <<git, edits, known>> /\ PathsStay /\ Throws(i)
    BY <1>1, <1>3, BeforeRunFailsDoes DEF bounds
  <2>2. PICK r \in Reference :
          r.id = id /\ r.tree = (IF Here(id) THEN disk[Path[id]].tree ELSE ops[i].ref.tree) /\ Wrote(i, id, r)
    BY <1>1, <1>3, BeforeRunFailsDoes
  <2>3. UNCHANGED disk /\ UNCHANGED <<branches, edits, known>>
    BY <2>1 DEF git
  <2> QED
    BY <1>1, <2>1, <2>2, <2>3, ObservedSized
<1> QED
  BY <1>2, <1>3

LEMMA AfterRunSized ==
  ASSUME Typed, Queued, Sized, NEW i \in 1..Len(ops), AfterRun(i)
  PROVE  Sized'
<1>1. PICK id \in Ids : id = ops[i].ref.id
  BY OpType
<1>2. ops[i].step = "afterRun" /\ InTurn(i) /\ ops[i].step \in Active /\ UNCHANGED <<git, edits, known>>
  BY <1>1, AfterRunDoes DEF InTurn, bounds, Waiting, Active
<1>3. CASE Throws(i) /\ UNCHANGED registry
  <2>1. PathsStay /\ Entered'
    BY <1>2, <1>3, SameRegistry DEF Sized
  <2>2. OpsSized'
    BY <1>1, <1>2, <1>3, <2>1, EndsSized DEF Sized
  <2> QED
    BY <1>2, <2>1, <2>2, SameGit, PartsSized
<1>4. ASSUME Here(id), PathsStay, NEW op \in Operation, Goes(i, op), Same(op, ops[i]), op.step = "return",
             op.ref.tree = disk[Path[id]].tree, Wrote(i, id, op.ref)
      PROVE  Sized'
  BY <1>1, <1>2, <1>4, SameGit, SeenSized
<1> QED
  BY <1>1, <1>3, <1>4, AfterRunDoes

LEMMA RemoveWorktreeSized ==
  ASSUME Typed, Queued, Sized, NEW i \in 1..Len(ops), RemoveWorktree(i)
  PROVE  Sized'
<1>1. PICK id \in Ids : id = ops[i].ref.id
  BY OpType
<1>2. /\ ops[i].step = "beforeRemove" /\ InTurn(i) /\ ops[i].step \in Active
      /\ UNCHANGED branches /\ UNCHANGED <<edits, known>>
  BY <1>1, RemoveWorktreeDoes DEF InTurn, bounds, Waiting, Active
<1>3. CASE Throws(i) /\ UNCHANGED <<disk, registry>>
  <2>1. PathsStay /\ Entered'
    BY <1>2, <1>3, SameRegistry DEF Sized
  <2>2. OpsSized'
    BY <1>1, <1>2, <1>3, <2>1, EndsSized DEF Sized
  <2>3. UNCHANGED git
    BY <1>2, <1>3 DEF git
  <2> QED
    BY <1>2, <2>1, <2>2, <2>3, SameGit, PartsSized
<1>4. ASSUME disk' = [disk EXCEPT ![Path[id]] = None], PathsStay,
             NEW op \in Operation, Goes(i, op), Same(op, ops[i]), op.step = "return",
             op.ref.tree = ops[i].ref.tree, Wrote(i, id, op.ref)
      PROVE  Sized'
  <2>1. Placed'
    BY <1>2, <1>4, WrittenPlaced DEF Sized
  <2>2. Pointed'
    BY <1>2 DEF Sized, Pointed
  <2> QED
    BY <1>1, <1>2, <1>4, <2>1, <2>2, SeenSized
<1> QED
  BY <1>1, <1>3, <1>4, RemoveWorktreeDoes

\* A workspace that is taken over.
LEMMA AdoptsSized ==
  ASSUME Typed, Queued, Sized, NEW i \in 1..Len(ops), NEW id, id = ops[i].ref.id, ops[i].step = "adopt",
         InTurn(i), UNCHANGED <<git, edits, known>>, UNCHANGED registry \/ Adopts(i, id),
         \/ Throws(i)
         \/ /\ registry'[ops[i].manager].byId[id] = ops[i].ref
            /\ \E op \in Operation : Goes(i, op) /\ Same(op, ops[i]) /\ op.ref = ops[i].ref /\ op.step # "add"
  PROVE  Sized'
<1>1. id \in Ids /\ Small(ops[i].ref) /\ ops[i].ref \in Reference /\ ops[i].manager \in Managers
  BY OpType, OpIsSized
<1>2. Entered' /\ (PathsStay \/ PathTaken(i, id))
  <2>1. CASE UNCHANGED registry
    BY <2>1, SameRegistry DEF Sized
  <2>2. CASE Adopts(i, id)
    BY <1>1, <2>2, WroteEntered DEF Sized, Adopts
  <2> QED
    BY <2>1, <2>2
<1>3. OpsSized'
  <2>1. CASE Throws(i)
    BY <1>2, <2>1, EndsSized DEF Sized
  <2>2. ASSUME registry'[ops[i].manager].byId[id] = ops[i].ref, NEW op \in Operation, Goes(i, op), Same(op, ops[i]),
               op.ref = ops[i].ref, op.step # "add"
        PROVE  OpsSized'
    <3>1. registry'[ops[i].manager].byPath[Path[id]] = id
      BY <1>1, <1>2, <2>2, WorkspaceNone DEF Entered
    <3>2. OpSized(op)'
      BY <1>1, <2>2, <3>1 DEF OpSized, Small, Same
    <3> QED
      BY <1>2, <2>2, <3>2, GoesSized DEF Sized
  <2> QED
    BY <2>1, <2>2
<1> QED
  BY <1>2, <1>3, SameGit, PartsSized

LEMMA AdoptingSized ==
  ASSUME Typed, Queued, Sized, NEW i \in 1..Len(ops), AdoptToFinish(i) \/ AdoptToRemove(i)
  PROVE  Sized'
<1>1. PICK id \in Ids : id = ops[i].ref.id
  BY OpType
<1>2. CASE AdoptToFinish(i)
  <2>1. /\ ops[i].step = "adopt" /\ InTurn(i) /\ UNCHANGED <<git, edits, known>>
        /\ UNCHANGED registry \/ Adopts(i, id)
    BY <1>1, <1>2, AdoptToFinishDoes DEF InTurn, bounds
  <2>2. \/ Throws(i)
        \/ /\ registry'[ops[i].manager].byId[id] = ops[i].ref
           /\ \E op \in Operation : Goes(i, op) /\ Same(op, ops[i]) /\ op.ref = ops[i].ref /\ op.step = "afterRun"
    BY <1>1, <1>2, AdoptToFinishDoes
  <2> QED
    BY <1>1, <2>1, <2>2, AdoptsSized
<1>3. CASE AdoptToRemove(i)
  <2>1. /\ ops[i].step = "adopt" /\ InTurn(i) /\ UNCHANGED <<git, edits, known>>
        /\ UNCHANGED registry \/ Adopts(i, id)
    BY <1>1, <1>3, AdoptToRemoveDoes DEF InTurn, bounds
  <2>2. \/ Throws(i)
        \/ /\ registry'[ops[i].manager].byId[id] = ops[i].ref
           /\ \E op \in Operation : Goes(i, op) /\ Same(op, ops[i]) /\ op.ref = ops[i].ref /\ op.step # "add"
    BY <1>1, <1>3, AdoptToRemoveDoes
  <2> QED
    BY <1>1, <2>1, <2>2, AdoptsSized
<1> QED
  BY <1>2, <1>3

LEMMA ReturnSized ==
  ASSUME Typed, Sized, NEW i \in 1..Len(ops), Return(i)
  PROVE  Sized'
<1>1. PICK id \in Ids : id = ops[i].ref.id
  BY OpType
<1>2. /\ ops[i].step = "return" /\ Throws(i) /\ UNCHANGED <<git, registry, edits>> /\ known'[id] = ops[i].ref
      /\ \A x \in Ids : x # id => known'[x] = known[x]
  BY <1>1, ReturnDoes DEF bounds
<1>3. Small(ops[i].ref)
  BY <1>2, OpIsSized
<1>4. Logged'
  BY <1>2, <1>3 DEF Logged, Sized, Small
<1>5. PICK f \in [1..Len(ops') -> 1..Len(ops)] : \A k \in 1..Len(ops') : ops'[k] = ops[f[k]] /\ f[k] # i
  BY <1>2, ThrowsMaps
<1>6. ASSUME NEW k \in 1..Len(ops') PROVE OpSized(ops[k])'
  <2>1. PICK j \in 1..Len(ops) : j = f[k] /\ ops'[k] = ops[j]
    BY <1>5
  <2>2. OpSized(ops[j])
    BY DEF Sized, OpsSized
  <2> QED
    BY <1>2, <2>1, <2>2 DEF OpSized, Small
<1>7. OpsSized'
  BY <1>6 DEF OpsSized
<1>8. Placed' /\ Pointed' /\ Entered'
  BY <1>2, SameGit, SameRegistry DEF Sized
<1> QED
  BY <1>2, <1>4, <1>7, <1>8 DEF Sized

LEMMA CallSized ==
  ASSUME Typed, Sized, NEW m \in Managers, NEW kind, NEW s \in Waiting, NEW ref \in Reference, NEW a, NEW discard,
         Call(m, kind, s, ref, a, discard), IF s = "add" THEN ref.tree = None ELSE Small(ref)
  PROVE  Sized'
<1>1. PICK op : op = [manager |-> m, kind |-> kind, step |-> s, ref |-> ref, for |-> a,
                      created |-> FALSE, discard |-> discard]
  OBVIOUS
<1>2. op.step = s /\ op.ref = ref
  BY <1>1
<1>3. ops' = Append(ops, op) /\ UNCHANGED <<git, registry, edits, known>>
  BY <1>1 DEF Call
<1>4. /\ Len(ops') = Len(ops) + 1 /\ ops'[Len(ops) + 1] = op /\ Len(ops) \in Nat
      /\ \A j \in 1..Len(ops) : ops'[j] = ops[j]
  BY <1>3, CallKeeps
<1>5. ASSUME NEW j \in 1..Len(ops') PROVE OpSized(ops[j])'
  <2>1. CASE j \in 1..Len(ops)
    <3>1. OpSized(ops[j]) /\ ops'[j] = ops[j]
      BY <1>4, <2>1 DEF Sized, OpsSized
    <3> QED
      BY <1>3, <3>1 DEF OpSized, Small
  <2>2. CASE j = Len(ops) + 1
    <3>1. ops'[j] = op
      BY <1>4, <2>2
    <3> QED
      BY <1>2, <1>3, <3>1 DEF OpSized, Small, Waiting, Active
  <2> QED
    BY <1>4, <2>1, <2>2
<1>6. OpsSized'
  BY <1>5 DEF OpsSized
<1>7. Placed' /\ Pointed' /\ Entered'
  BY <1>3, SameGit, SameRegistry DEF Sized
<1> QED
  BY <1>3, <1>6, <1>7, PartsSized

LEMMA CallsSized ==
  ASSUME Typed, Sized, NEW m \in Managers, NEW id \in Ids,
         \/ \E a \in Attempts : Prepare(m, id, a) \/ Recover(m, id, a)
         \/ Finish(m, id)
         \/ \E discard \in BOOLEAN : RemoveWorkspace(m, id, discard)
  PROVE  Sized'
<1>1. ASSUME NEW a \in Attempts, Prepare(m, id, a) PROVE Sized'
  <2>1. PICK ref \in Reference : ref = Ref(id, None, "ready", a)
    BY DEF Ref, Reference
  <2>2. ref.tree = None /\ Call(m, "prepare", "add", ref, a, FALSE)
    BY <1>1, <2>1 DEF Ref, Prepare
  <2> QED
    BY <2>2, CallSized DEF Waiting
<1>2. known[id] # None => known[id] \in Reference /\ Small(known[id])
  BY DEF Typed, Sized, Logged
<1>3. ASSUME NEW a \in Attempts, Recover(m, id, a) PROVE Sized'
  <2>1. known[id] # None /\ Call(m, "recover", "take", known[id], a, FALSE)
    BY <1>3 DEF Recover
  <2> QED
    BY <1>2, <2>1, CallSized DEF Waiting
<1>4. CASE Finish(m, id)
  BY <1>2, <1>4, CallSized DEF Finish, Waiting
<1>5. ASSUME NEW discard \in BOOLEAN, RemoveWorkspace(m, id, discard) PROVE Sized'
  BY <1>2, <1>5, CallSized DEF RemoveWorkspace, Waiting
<1> QED
  BY <1>1, <1>3, <1>4, <1>5

LEMMA EditSized ==
  ASSUME Typed, Sized, NEW p \in Paths, Edit(p)
  PROVE  Sized'
<1>1. PICK dirty \in BOOLEAN :
        /\ disk' = [disk EXCEPT ![p] = [@ EXCEPT !.tree = edits + 1, !.dirty = dirty]]
        /\ branches' = IF dirty THEN branches ELSE [branches EXCEPT ![disk[p].branch] = edits + 1]
  BY DEF Edit
<1>2. PICK w \in Worktree : w = disk[p]
  BY DEF Edit, Typed
<1>3. PICK n \in Nat : n = edits + 1
  BY DEF Typed
<1>4. PICK v \in Worktree : v = [w EXCEPT !.tree = n, !.dirty = dirty]
  BY DEF Worktree
<1>5. v.tree = n /\ v.branch = w.branch
  BY <1>4 DEF Worktree
<1>6. edits' = n /\ edits < n /\ n <= MaxEdits /\ UNCHANGED <<registry, ops, known>> /\ edits \in Nat
  BY <1>3, WorkspaceBounds DEF Edit, Typed
<1>7. 0..edits \subseteq 0..n
  BY <1>6
<1>8. ASSUME NEW q \in Paths, disk'[q] # None PROVE disk'[q].tree <= edits' /\ Path[disk'[q].branch] = q
  <2>1. CASE q = p
    <3>1. disk'[q] = v
      BY <1>1, <1>2, <1>3, <1>4, <2>1 DEF Typed
    <3>2. Path[w.branch] = p
      BY <1>2 DEF Edit, Sized, Placed
    <3> QED
      BY <1>5, <1>6, <2>1, <3>1, <3>2
  <2>2. CASE q # p
    <3>1. disk'[q] = disk[q]
      BY <1>1, <2>2 DEF Typed
    <3>2. disk[q].tree <= edits /\ Path[disk[q].branch] = q /\ disk[q] \in Worktree
      BY <1>8, <3>1 DEF Sized, Placed, Typed
    <3> QED
      BY <1>6, <3>1, <3>2 DEF Worktree
  <2> QED
    BY <2>1, <2>2
<1>9. ASSUME NEW x \in Ids, branches'[x] # None PROVE branches'[x] <= edits'
  <2>1. branches'[x] = branches[x] \/ branches'[x] = n
    BY <1>1, <1>3 DEF Typed
  <2>2. branches[x] # None => branches[x] <= edits /\ branches[x] \in Nat
    BY DEF Sized, Pointed, Typed
  <2> QED
    BY <1>6, <1>9, <2>1, <2>2
<1>10. Entered'
  <2> SUFFICES ASSUME NEW m \in Managers, NEW x \in Ids, registry'[m].byId[x] # None
               PROVE  /\ registry'[m].byId[x].id = x /\ registry'[m].byId[x].tree \in 0..edits'
                      /\ registry'[m].byPath[Path[x]] = x
    BY DEF Entered, Small
  <2>1. /\ registry[m].byId[x].id = x /\ registry[m].byId[x].tree \in 0..edits
        /\ registry[m].byPath[Path[x]] = x
    BY <1>6 DEF Sized, Entered, Small
  <2> QED
    BY <1>6, <1>7, <2>1
<1>11. Logged'
  BY <1>6, <1>7 DEF Sized, Logged, Small
<1>12. ASSUME NEW j \in 1..Len(ops) PROVE OpSized(ops[j])'
  <2>1. OpSized(ops[j])
    BY DEF Sized, OpsSized
  <2> QED
    BY <1>6, <1>7, <2>1 DEF OpSized, Small
<1>13. OpsSized'
  BY <1>6, <1>12 DEF OpsSized
<1>14. Placed' /\ Pointed'
  BY <1>8, <1>9 DEF Placed, Pointed
<1> QED
  BY <1>6, <1>10, <1>11, <1>13, <1>14 DEF Sized

\* A registry that is lost has no entry, and no operation that is between its hooks.
LEMMA LostSized ==
  ASSUME Typed, Sized, UNCHANGED <<git, edits, known>>,
         \/ Crash
         \/ \E m \in Managers : Renew(m)
  PROVE  Sized'
<1>1. Placed' /\ Pointed'
  BY SameGit
<1>2. CASE Crash
  <2>1. registry' = [m \in Managers |-> EmptyRegistry] /\ Len(ops') = 0
    BY <1>2 DEF Crash
  <2>2. Entered' /\ OpsSized'
    BY <2>1 DEF Entered, EmptyRegistry, OpsSized
  <2> QED
    BY <1>1, <2>2, PartsSized
<1>3. ASSUME NEW n \in Managers, Renew(n) PROVE Sized'
  <2>1. /\ registry' = [registry EXCEPT ![n] = EmptyRegistry] /\ UNCHANGED ops
        /\ \A i \in 1..Len(ops) : ops[i].manager # n
    BY <1>3 DEF Renew
  <2>2. \A m \in Managers : registry'[m] = IF m = n THEN EmptyRegistry ELSE registry[m]
    BY <2>1 DEF Typed
  <2>3. \A x \in Ids : EmptyRegistry.byId[x] = None
    BY DEF EmptyRegistry
  <2>4. Entered'
    BY <2>2, <2>3 DEF Sized, Entered, Small
  <2>5. ASSUME NEW j \in 1..Len(ops) PROVE OpSized(ops[j])'
    <3>1. OpSized(ops[j]) /\ ops[j].manager \in Managers /\ ops[j].manager # n
      BY <2>1, OpType DEF Sized, OpsSized
    <3> QED
      BY <2>1, <2>2, <3>1 DEF OpSized, Small
  <2>6. OpsSized'
    BY <2>1, <2>5 DEF OpsSized
  <2> QED
    BY <1>1, <2>4, <2>6, PartsSized
<1> QED
  BY <1>2, <1>3

LEMMA NextSized ==
  ASSUME Typed, Queued, Sized, [Next]_vars
  PROVE  Sized'
<1>1. CASE UNCHANGED vars
  <2>1. ASSUME NEW j \in 1..Len(ops) PROVE OpSized(ops[j])'
    BY <1>1 DEF vars, bounds, Sized, OpsSized, OpSized, Small
  <2>2. OpsSized'
    BY <1>1, <2>1 DEF vars, OpsSized
  <2>3. UNCHANGED <<git, registry, edits, known>>
    BY <1>1 DEF vars, bounds
  <2> QED
    BY <2>2, <2>3, SameGit, SameRegistry, PartsSized DEF Sized
<1>2. ASSUME NEW m \in Managers, NEW id \in Ids,
             \/ \E a \in Attempts : Prepare(m, id, a) \/ Recover(m, id, a)
             \/ Finish(m, id)
             \/ \E discard \in BOOLEAN : RemoveWorkspace(m, id, discard)
      PROVE  Sized'
  BY <1>2, CallsSized
<1>3. ASSUME NEW i \in 1..Len(ops),
             \/ AddWorktree(i) \/ RegisterPrepared(i) \/ AfterCreate(i) \/ AfterCreateFails(i)
             \/ Take(i) \/ BeforeRun(i) \/ BeforeRunFails(i)
             \/ AdoptToFinish(i) \/ AfterRun(i)
             \/ AdoptToRemove(i) \/ RemoveWorktree(i) \/ Return(i)
      PROVE  Sized'
  BY <1>3, AddWorktreeSized, RegisterPreparedSized, AfterCreateSized, AfterCreateFailsSized, TakeSized,
     BeforeRunSized, AdoptingSized, AfterRunSized, RemoveWorktreeSized, ReturnSized
<1>4. ASSUME NEW p \in Paths, Edit(p) PROVE Sized'
  BY <1>4, EditSized
<1>5. ASSUME NEW m \in Managers, Renew(m) PROVE Sized'
  <2>1. UNCHANGED <<git, edits, known>>
    BY <1>5 DEF Renew
  <2> QED
    BY <1>5, <2>1, LostSized
<1>6. CASE Crash
  <2>1. UNCHANGED <<git, edits, known>>
    BY <1>6 DEF Crash
  <2> QED
    BY <1>6, <2>1, LostSized
<1> QED
  BY <1>1, <1>2, <1>3, <1>4, <1>5, <1>6 DEF Next

-----------------------------------------------------------------------------
(* Worktrees that somebody knows *)

\* A worktree that an operation has made and not registered yet is there, and is what it made as
\* long as nobody has changed it.
Made(op) == op.step = "register" /\ op.created
MadeRight ==
  \A i \in 1..Len(ops) :
    Made(ops[i]) => Here(ops[i].ref.id) /\ (disk[Path[ops[i].ref.id]].tree = 0 => ops[i].ref.tree = 0)

CleanZero == \A p \in Paths : disk[p] # None /\ disk[p].tree = 0 => ~disk[p].dirty

\* A manager knows the worktree, or the operation that has made it.
Someone(id) ==
  \/ \E m \in Managers : registry[m].byId[id] # None
  \/ \E i \in 1..Len(ops) : ops[i].ref.id = id /\ Made(ops[i])
Claims == renewals = 0 => \A p \in Paths : disk[p] # None /\ disk[p].tree = 0 => Someone(disk[p].branch)

Watched == renewals \in Nat /\ MadeRight /\ CleanZero /\ Claims

\* What a step writes to the disk: nothing, or it removes or adds the worktree of its workspace.
DiskBy(id) ==
  \/ UNCHANGED disk
  \/ disk' = [disk EXCEPT ![Path[id]] = None] /\ (Here(id) \/ disk[Path[id]] = None)
  \/ disk' = [disk EXCEPT ![Path[id]] = Added(id)] /\ disk[Path[id]] = None

\* What a step does to its operation.
Moves(i) == Throws(i) \/ \E op \in Operation : Goes(i, op)

LEMMA InitWatched == Init => Watched
<1> SUFFICES ASSUME Init PROVE Watched
  OBVIOUS
<1>1. Len(ops) = 0 /\ renewals \in Nat
  BY DEF Init
<1> QED
  BY <1>1 DEF Init, Watched, MadeRight, CleanZero, Claims

\* Two operations whose turn it is are not about the same workspace.
LEMMA TurnsApart ==
  ASSUME Typed, Queued, NEW i \in 1..Len(ops), InTurn(i), NEW j \in 1..Len(ops), j # i,
         ops[j].step \notin Waiting, ops[j].step # "return"
  PROVE  ops[j].ref.id # ops[i].ref.id
<1> SUFFICES ASSUME ops[j].ref.id = ops[i].ref.id PROVE FALSE
  OBVIOUS
<1>1. Alike(ops[i], ops[j]) /\ Alike(ops[j], ops[i])
  BY DEF Queued, Alike
<1>2. CASE j < i
  BY <1>1, <1>2, TurnIsFirst DEF InTurn
<1>3. CASE i < j
  BY <1>1, <1>3, OthersWait DEF InTurn
<1> QED
  BY <1>2, <1>3

\* A worktree that another operation has made is not touched.
LEMMA MadeStays ==
  ASSUME Typed, Queued, MadeRight, NEW i \in 1..Len(ops), NEW id, id = ops[i].ref.id, InTurn(i), DiskBy(id),
         NEW j \in 1..Len(ops), j # i, Made(ops[j])
  PROVE  disk'[Path[ops[j].ref.id]] = disk[Path[ops[j].ref.id]] /\ Here(ops[j].ref.id)
<1>1. ops[j].ref.id # id /\ Here(ops[j].ref.id)
  BY TurnsApart DEF Made, Waiting, MadeRight
<1>2. Path[id] \in Paths /\ Path[ops[j].ref.id] \in Paths
  BY OpType, PathType
<1>3. UNCHANGED disk \/ Path[ops[j].ref.id] # Path[id]
  BY <1>1 DEF DiskBy, Here
<1> QED
  BY <1>1, <1>2, <1>3 DEF DiskBy, Typed

\* So it stays right for the operations that have made one.
LEMMA MadeStaysRight ==
  ASSUME Typed, Queued, MadeRight, NEW i \in 1..Len(ops), NEW id, id = ops[i].ref.id, InTurn(i), DiskBy(id),
         \/ Throws(i)
         \/ \E op \in Operation :
              /\ Goes(i, op)
              /\ Made(op) => /\ op.ref.id = id /\ disk'[Path[id]] # None /\ disk'[Path[id]].branch = id
                             /\ disk'[Path[id]].tree = op.ref.tree
  PROVE  MadeRight'
<1>1. CASE Throws(i)
  <2>1. PICK f \in [1..Len(ops') -> 1..Len(ops)] : \A k \in 1..Len(ops') : ops'[k] = ops[f[k]] /\ f[k] # i
    BY <1>1, ThrowsMaps
  <2> SUFFICES ASSUME NEW k \in 1..Len(ops'), Made(ops'[k])
               PROVE  /\ disk'[Path[ops'[k].ref.id]] # None /\ disk'[Path[ops'[k].ref.id]].branch = ops'[k].ref.id
                      /\ disk'[Path[ops'[k].ref.id]].tree = 0 => ops'[k].ref.tree = 0
    BY DEF MadeRight, Here, Made
  <2>2. PICK j \in 1..Len(ops) : j = f[k] /\ j # i /\ ops'[k] = ops[j]
    BY <2>1
  <2>3. disk'[Path[ops[j].ref.id]] = disk[Path[ops[j].ref.id]] /\ Here(ops[j].ref.id)
    BY <2>2, MadeStays
  <2> QED
    BY <2>2, <2>3 DEF MadeRight, Here
<1>2. ASSUME NEW op \in Operation, Goes(i, op),
             Made(op) => /\ op.ref.id = id /\ disk'[Path[id]] # None /\ disk'[Path[id]].branch = id
                         /\ disk'[Path[id]].tree = op.ref.tree
      PROVE  MadeRight'
  <2>1. /\ Len(ops') = Len(ops) /\ ops'[i] = op
        /\ \A j \in 1..Len(ops) : j # i => ops'[j] = ops[j]
    BY <1>2, GoesKeeps
  <2> SUFFICES ASSUME NEW k \in 1..Len(ops'), Made(ops'[k])
               PROVE  /\ disk'[Path[ops'[k].ref.id]] # None /\ disk'[Path[ops'[k].ref.id]].branch = ops'[k].ref.id
                      /\ disk'[Path[ops'[k].ref.id]].tree = 0 => ops'[k].ref.tree = 0
    BY DEF MadeRight, Here, Made
  <2>2. CASE k = i
    BY <1>2, <2>1, <2>2
  <2>3. CASE k # i
    <3>1. k \in 1..Len(ops) /\ ops'[k] = ops[k]
      BY <2>1, <2>3
    <3>2. disk'[Path[ops[k].ref.id]] = disk[Path[ops[k].ref.id]] /\ Here(ops[k].ref.id)
      BY <2>3, <3>1, MadeStays
    <3> QED
      BY <3>1, <3>2 DEF MadeRight, Here
  <2> QED
    BY <2>2, <2>3
<1> QED
  BY <1>1, <1>2

\* Who knew a worktree still does, unless it was this operation that had made it.
LEMMA SomeoneStays ==
  ASSUME Typed, NEW i \in 1..Len(ops), Moves(i), NEW x, Someone(x), ops[i].ref.id # x \/ ~Made(ops[i]),
         \A m \in Managers : registry[m].byId[x] # None => registry'[m].byId[x] # None
  PROVE  Someone(x)'
<1>1. ASSUME NEW m \in Managers, registry[m].byId[x] # None PROVE Someone(x)'
  BY <1>1 DEF Someone
<1>2. ASSUME NEW j \in 1..Len(ops), ops[j].ref.id = x, Made(ops[j]) PROVE Someone(x)'
  <2>1. j # i
    BY <1>2
  <2>2. PICK k \in 1..Len(ops') : ops'[k] = ops[j]
    <3>1. CASE Throws(i)
      BY <2>1, <3>1, ThrowsMaps
    <3>2. ASSUME NEW op \in Operation, Goes(i, op) PROVE \E k \in 1..Len(ops') : ops'[k] = ops[j]
      BY <2>1, <3>2, GoesKeeps
    <3> QED
      BY <3>1, <3>2 DEF Moves
  <2> QED
    BY <1>2, <2>2 DEF Someone, Made
<1> QED
  BY <1>1, <1>2 DEF Someone

LEMMA WroteSomeone ==
  ASSUME Typed, NEW i \in 1..Len(ops), NEW id \in Ids, NEW e, e # None, Wrote(i, id, e)
  PROVE  Someone(id)'
<1>1. ops[i].manager \in Managers
  BY OpType
<1>2. registry'[ops[i].manager].byId[id] = e
  BY <1>1 DEF Wrote
<1> QED
  BY <1>1, <1>2 DEF Someone

\* A step, if its own workspace is still known to somebody.
LEMMA StepWatched ==
  ASSUME Typed, Placed', Watched, NEW i \in 1..Len(ops), NEW id, id = ops[i].ref.id, UNCHANGED renewals,
         DiskBy(id), Moves(i), MadeRight', UNCHANGED registry \/ \E e : Wrote(i, id, e),
         renewals = 0 /\ disk'[Path[id]] # None /\ disk'[Path[id]].branch = id /\ disk'[Path[id]].tree = 0 => Someone(id)'
  PROVE  Watched'
<1>1. id \in Ids /\ Path[id] \in Paths
  BY OpType, PathType
<1>2. CleanZero'
  <2> SUFFICES ASSUME NEW p \in Paths, disk'[p] # None, disk'[p].tree = 0 PROVE ~disk'[p].dirty
    BY DEF CleanZero
  <2>1. disk'[p] = disk[p] \/ disk'[p] = Added(id)
    BY <1>1 DEF DiskBy, Typed
  <2>2. ~Added(id).dirty
    BY DEF Added
  <2> QED
    BY <2>1, <2>2 DEF Watched, CleanZero
<1>3. ASSUME renewals = 0, NEW p \in Paths, disk'[p] # None, disk'[p].tree = 0, NEW b, b = disk'[p].branch
      PROVE  Someone(b)'
  <2>1. Path[b] = p
    BY <1>3 DEF Placed
  <2>2. CASE b = id
    BY <1>3, <2>1, <2>2
  <2>3. CASE b # id
    <3>1. disk'[p] = disk[p]
      <4>1. disk'[p] = disk[p] \/ disk'[p] = Added(id)
        BY <1>1, <1>3 DEF DiskBy, Typed
      <4>2. Added(id).branch = id
        BY DEF Added
      <4> QED
        BY <1>3, <2>3, <4>1, <4>2
    <3>2. Someone(b)
      BY <1>3, <3>1 DEF Watched, Claims
    <3>3. b \in Ids
      BY <1>3, <3>1 DEF Typed, Worktree
    <3>4. \A m \in Managers : registry[m].byId[b] # None => registry'[m].byId[b] # None
      BY <2>3, <3>3 DEF Wrote
    <3> QED
      BY <2>3, <3>2, <3>4, SomeoneStays
  <2> QED
    BY <2>2, <2>3
<1>4. Claims'
  <2> SUFFICES ASSUME renewals' = 0, NEW p \in Paths, disk'[p] # None, disk'[p].tree = 0
               PROVE  Someone(disk[p].branch)'
    BY DEF Claims
  <2>1. PICK b : b = disk'[p].branch
    OBVIOUS
  <2>2. Someone(b)'
    BY <1>3, <2>1
  <2> QED
    BY <2>1, <2>2 DEF Someone
<1> QED
  BY <1>2, <1>4 DEF Watched

\* A step that writes neither to the disk nor to the registry, of an operation that has made nothing.
LEMMA SameClaims ==
  ASSUME Typed, Watched, NEW i \in 1..Len(ops), NEW id, id = ops[i].ref.id, UNCHANGED <<disk, registry>>,
         Moves(i), ~Made(ops[i]),
         renewals = 0, disk'[Path[id]] # None, disk'[Path[id]].branch = id, disk'[Path[id]].tree = 0
  PROVE  Someone(id)'
<1>1. Path[id] \in Paths
  BY OpType, PathType
<1>2. Someone(id)
  BY <1>1 DEF Watched, Claims
<1> QED
  BY <1>2, SomeoneStays

\* For each step: who knows what it leaves.
LEMMA AddWorktreeWatched ==
  ASSUME Typed, Queued, Watched, Placed', NEW i \in 1..Len(ops), AddWorktree(i)
  PROVE  Watched'
<1>1. PICK id \in Ids : id = ops[i].ref.id
  BY OpType
<1>2. InTurn(i) /\ ops[i].step = "add" /\ ~Made(ops[i]) /\ UNCHANGED <<registry, renewals>> /\ ~ops[i].created
  BY <1>1, AddWorktreeDoes DEF InTurn, bounds, Made, Queued, Shape
<1>3. CASE Throws(i) /\ UNCHANGED git
  <2>1. DiskBy(id) /\ Moves(i) /\ UNCHANGED <<disk, registry>>
    BY <1>2, <1>3 DEF DiskBy, Moves, git
  <2>2. MadeRight'
    BY <1>1, <1>2, <1>3, <2>1, MadeStaysRight DEF Watched
  <2> QED
    BY <1>1, <1>2, <2>1, <2>2, SameClaims, StepWatched
<1>4. ASSUME NEW op \in Operation, Goes(i, op), UNCHANGED git, op.created = ops[i].created
      PROVE  Watched'
  <2>1. DiskBy(id) /\ Moves(i) /\ UNCHANGED <<disk, registry>> /\ ~Made(op)
    BY <1>2, <1>4 DEF DiskBy, Moves, git, Made
  <2>2. MadeRight'
    BY <1>1, <1>2, <1>4, <2>1, MadeStaysRight DEF Watched
  <2> QED
    BY <1>1, <1>2, <2>1, <2>2, SameClaims, StepWatched
<1>5. ASSUME NEW op \in Operation, Goes(i, op), Same(op, ops[i]), op.step = "register", op.created,
             disk[Path[id]] = None, disk' = [disk EXCEPT ![Path[id]] = Added(id)], op.ref.tree = Added(id).tree
      PROVE  Watched'
  <2>1. DiskBy(id) /\ Moves(i) /\ op.ref.id = id /\ Made(op)
    BY <1>1, <1>5 DEF DiskBy, Moves, Same, Made
  <2>2. Added(id) # None /\ Added(id).branch = id
    BY AddedType, WorkspaceNone DEF Added
  <2>3. disk'[Path[id]] = Added(id)
    BY <1>5, PathType DEF Typed
  <2>4. MadeRight'
    BY <1>1, <1>2, <1>5, <2>1, <2>2, <2>3, MadeStaysRight DEF Watched
  <2>5. Someone(id)'
    <3>1. ops'[i] = op /\ i \in 1..Len(ops')
      BY <1>5, GoesKeeps
    <3> QED
      BY <2>1, <3>1 DEF Someone, Made
  <2> QED
    BY <1>1, <1>2, <2>1, <2>4, <2>5, StepWatched
<1> QED
  BY <1>1, <1>3, <1>4, <1>5, AddWorktreeDoes

\* A worktree that could not be registered is as it was made and removed again, or was changed.
LEMMA RegisterPreparedWatched ==
  ASSUME Typed, Queued, Watched, Placed', NEW i \in 1..Len(ops), RegisterPrepared(i)
  PROVE  Watched'
<1>1. PICK id \in Ids : id = ops[i].ref.id
  BY OpType
<1>2. InTurn(i) /\ ops[i].step = "register" /\ UNCHANGED renewals /\ ops[i].ref \in Reference
  BY <1>1, RegisterPreparedDoes, OpType DEF InTurn, bounds
<1>3. ASSUME NEW op \in Operation, Goes(i, op), op.step = IF op.created THEN "afterCreate" ELSE "beforeRun",
             Wrote(i, id, ops[i].ref), UNCHANGED disk
      PROVE  Watched'
  <2>1. DiskBy(id) /\ Moves(i) /\ ~Made(op)
    BY <1>3 DEF DiskBy, Moves, Made
  <2>2. MadeRight'
    BY <1>1, <1>2, <1>3, <2>1, MadeStaysRight DEF Watched
  <2>3. Someone(id)'
    BY <1>2, <1>3, WroteSomeone, WorkspaceNone
  <2> QED
    BY <1>1, <1>2, <1>3, <2>1, <2>2, <2>3, StepWatched
<1>4. CASE /\ Throws(i) /\ UNCHANGED registry
           /\ IF ops[i].created /\ Removable(ops[i].ref) /\ Here(id)
              THEN disk' = [disk EXCEPT ![Path[id]] = None] ELSE UNCHANGED disk
  <2>1. DiskBy(id) /\ Moves(i)
    BY <1>4 DEF DiskBy, Moves
  <2>2. MadeRight'
    BY <1>1, <1>2, <1>4, <2>1, MadeStaysRight DEF Watched
  <2>3. CASE ~ops[i].created
    <3>1. UNCHANGED <<disk, registry>> /\ ~Made(ops[i])
      BY <1>4, <2>3 DEF Made
    <3> QED
      BY <1>1, <1>2, <2>1, <2>2, <3>1, SameClaims, StepWatched
  <2>4. CASE ops[i].created
    <3>1. Here(id) /\ (disk[Path[id]].tree = 0 => ops[i].ref.tree = 0)
      BY <1>1, <1>2, <2>4 DEF Watched, MadeRight, Made
    <3>2. disk[Path[id]].tree = 0 => ~disk[Path[id]].dirty
      BY <3>1, PathType DEF Watched, CleanZero, Here
    <3>3. disk[Path[id]].tree = 0 => Removable(ops[i].ref)
      BY <1>1, <3>1, <3>2 DEF Removable, IsReady, TreeAt, Here
    <3>4. disk'[Path[id]] = None \/ disk'[Path[id]].tree # 0
      BY <1>4, <2>4, <3>1, <3>3, PathType DEF Typed
    <3> QED
      BY <1>1, <1>2, <1>4, <2>1, <2>2, <3>4, StepWatched
  <2> QED
    BY <2>3, <2>4
<1> QED
  BY <1>1, <1>3, <1>4, RegisterPreparedDoes

\* A step that leaves the worktrees, of an operation that has none to register.
LEMMA PlainWatched ==
  ASSUME Typed, Queued, Watched, Placed', NEW i \in 1..Len(ops), NEW id, id = ops[i].ref.id,
         InTurn(i), ops[i].step # "register", UNCHANGED disk, UNCHANGED renewals,
         UNCHANGED registry \/ \E e \in Reference : Wrote(i, id, e),
         Throws(i) \/ \E op \in Operation : Goes(i, op) /\ op.step # "register"
  PROVE  Watched'
<1>1. DiskBy(id) /\ Moves(i) /\ ~Made(ops[i]) /\ id \in Ids
  BY OpType DEF DiskBy, Moves, Made
<1>2. Throws(i) \/ \E op \in Operation : Goes(i, op) /\ ~Made(op)
  BY DEF Made
<1>3. MadeRight'
  BY <1>1, <1>2, MadeStaysRight DEF Watched
<1>4. CASE UNCHANGED registry
  <2>1. UNCHANGED <<disk, registry>>
    BY <1>4
  <2> QED
    BY <1>1, <1>3, <2>1, SameClaims, StepWatched
<1>5. ASSUME NEW e \in Reference, Wrote(i, id, e) PROVE Watched'
  <2>1. Someone(id)'
    BY <1>1, <1>5, WroteSomeone, WorkspaceNone
  <2> QED
    BY <1>1, <1>3, <1>5, <2>1, StepWatched
<1> QED
  BY <1>4, <1>5

\* A removal leaves nothing to be known.
LEMMA GoneWatched ==
  ASSUME Typed, Queued, Watched, Placed', NEW i \in 1..Len(ops), NEW id, id = ops[i].ref.id,
         InTurn(i), ops[i].step # "register", UNCHANGED renewals, NEW e, Wrote(i, id, e),
         Here(id) \/ disk[Path[id]] = None, disk' = [disk EXCEPT ![Path[id]] = None],
         Throws(i) \/ \E op \in Operation : Goes(i, op) /\ op.step # "register"
  PROVE  Watched'
<1>1. DiskBy(id) /\ Moves(i) /\ id \in Ids
  BY OpType DEF DiskBy, Moves
<1>2. Throws(i) \/ \E op \in Operation : Goes(i, op) /\ ~Made(op)
  BY DEF Made
<1>3. MadeRight'
  BY <1>1, <1>2, MadeStaysRight DEF Watched
<1>4. disk'[Path[id]] = None
  BY <1>1, PathType DEF Typed
<1> QED
  BY <1>1, <1>3, <1>4, StepWatched

LEMMA HookWatched ==
  ASSUME Typed, Queued, Watched, Placed', NEW i \in 1..Len(ops),
         AfterCreate(i) \/ AfterCreateFails(i) \/ BeforeRun(i) \/ BeforeRunFails(i) \/ AfterRun(i)
  PROVE  Watched'
<1>1. PICK id \in Ids : id = ops[i].ref.id
  BY OpType
<1>2. CASE AfterCreate(i)
  <2>1. ops[i].step = "afterCreate" /\ UNCHANGED <<git, registry, renewals>>
    BY <1>2, AfterCreateDoes DEF bounds
  <2>2. \E op \in Operation : Goes(i, op) /\ op.step = "beforeRun"
    BY <1>2, AfterCreateDoes
  <2> QED
    BY <1>1, <2>1, <2>2, PlainWatched DEF InTurn, Waiting, git
<1>3. CASE AfterCreateFails(i)
  <2>1. ops[i].step = "afterCreate" /\ Throws(i) /\ UNCHANGED renewals /\ InTurn(i)
    BY <1>1, <1>3, AfterCreateFailsDoes DEF bounds, InTurn, Waiting
  <2>2. CASE /\ Here(id) \/ disk[Path[id]] = None
             /\ disk' = [disk EXCEPT ![Path[id]] = None] /\ Wrote(i, id, None)
    BY <1>1, <2>1, <2>2, GoneWatched
  <2>3. CASE UNCHANGED disk /\ \E r \in Reference : Wrote(i, id, r)
    BY <1>1, <2>1, <2>3, PlainWatched
  <2> QED
    BY <1>1, <1>3, <2>2, <2>3, AfterCreateFailsDoes
<1>4. CASE BeforeRun(i)
  <2>1. ops[i].step = "beforeRun" /\ UNCHANGED disk /\ UNCHANGED renewals /\ InTurn(i)
    BY <1>1, <1>4, BeforeRunDoes DEF bounds, InTurn, Waiting, git
  <2>2. PICK op \in Operation : Goes(i, op) /\ op.step = "return" /\ Wrote(i, id, op.ref)
    BY <1>1, <1>4, BeforeRunDoes
  <2>3. op.ref \in Reference /\ op.step # "register"
    BY <2>2 DEF Operation
  <2> QED
    BY <1>1, <2>1, <2>2, <2>3, PlainWatched
<1>5. CASE BeforeRunFails(i)
  <2>1. ops[i].step = "beforeRun" /\ UNCHANGED disk /\ UNCHANGED renewals /\ InTurn(i) /\ Throws(i)
    BY <1>1, <1>5, BeforeRunFailsDoes DEF bounds, InTurn, Waiting, git
  <2>2. \E r \in Reference : Wrote(i, id, r)
    BY <1>1, <1>5, BeforeRunFailsDoes
  <2> QED
    BY <1>1, <2>1, <2>2, PlainWatched
<1>6. CASE AfterRun(i)
  <2>1. ops[i].step = "afterRun" /\ UNCHANGED disk /\ UNCHANGED renewals /\ InTurn(i)
    BY <1>1, <1>6, AfterRunDoes DEF bounds, InTurn, Waiting, git
  <2>2. CASE Throws(i) /\ UNCHANGED registry
    BY <1>1, <2>1, <2>2, PlainWatched
  <2>3. ASSUME NEW op \in Operation, Goes(i, op), op.step = "return", Wrote(i, id, op.ref) PROVE Watched'
    <3>1. op.ref \in Reference /\ op.step # "register"
      BY <2>3 DEF Operation
    <3> QED
      BY <1>1, <2>1, <2>3, <3>1, PlainWatched
  <2> QED
    BY <1>1, <1>6, <2>2, <2>3, AfterRunDoes
<1> QED
  BY <1>2, <1>3, <1>4, <1>5, <1>6

LEMMA TakingWatched ==
  ASSUME Typed, Queued, Watched, Placed', NEW i \in 1..Len(ops), Take(i) \/ AdoptToFinish(i) \/ AdoptToRemove(i)
  PROVE  Watched'
<1>1. PICK id \in Ids : id = ops[i].ref.id
  BY OpType
<1>2. ops[i].ref \in Reference
  BY OpType
<1>3. CASE Take(i)
  <2>1. ops[i].step = "take" /\ UNCHANGED disk /\ UNCHANGED renewals /\ InTurn(i)
    BY <1>1, <1>3, TakeDoes DEF bounds, InTurn, git
  <2>2. CASE Throws(i) /\ UNCHANGED registry
    BY <1>1, <2>1, <2>2, PlainWatched
  <2>3. ASSUME NEW op \in Operation, Goes(i, op), op.step = "beforeRun", Wrote(i, id, op.ref) PROVE Watched'
    <3>1. op.ref \in Reference /\ op.step # "register"
      BY <2>3 DEF Operation
    <3> QED
      BY <1>1, <2>1, <2>3, <3>1, PlainWatched
  <2> QED
    BY <1>1, <1>3, <2>2, <2>3, TakeDoes
<1>4. CASE AdoptToFinish(i)
  <2>1. ops[i].step = "adopt" /\ UNCHANGED disk /\ UNCHANGED renewals /\ InTurn(i)
    BY <1>1, <1>4, AdoptToFinishDoes DEF bounds, InTurn, git
  <2>2. UNCHANGED registry \/ \E e \in Reference : Wrote(i, id, e)
    BY <1>1, <1>2, <1>4, AdoptToFinishDoes DEF Adopts
  <2>3. Throws(i) \/ \E op \in Operation : Goes(i, op) /\ op.step = "afterRun"
    BY <1>1, <1>4, AdoptToFinishDoes
  <2>4. Throws(i) \/ \E op \in Operation : Goes(i, op) /\ op.step # "register"
    BY <2>3
  <2> QED
    BY <1>1, <2>1, <2>2, <2>4, PlainWatched
<1>5. CASE AdoptToRemove(i)
  <2>1. ops[i].step = "adopt" /\ UNCHANGED disk /\ UNCHANGED renewals /\ InTurn(i)
    BY <1>1, <1>5, AdoptToRemoveDoes DEF bounds, InTurn, git
  <2>2. UNCHANGED registry \/ \E e \in Reference : Wrote(i, id, e)
    BY <1>1, <1>2, <1>5, AdoptToRemoveDoes DEF Adopts
  <2>3. Throws(i) \/ \E op \in Operation : Goes(i, op) /\ op.step # "register"
    BY <1>1, <1>5, AdoptToRemoveDoes
  <2> QED
    BY <1>1, <2>1, <2>2, <2>3, PlainWatched
<1> QED
  BY <1>3, <1>4, <1>5

LEMMA RemoveWorktreeWatched ==
  ASSUME Typed, Queued, Watched, Placed', NEW i \in 1..Len(ops), RemoveWorktree(i)
  PROVE  Watched'
<1>1. PICK id \in Ids : id = ops[i].ref.id
  BY OpType
<1>2. ops[i].step = "beforeRemove" /\ UNCHANGED renewals /\ InTurn(i)
  BY <1>1, RemoveWorktreeDoes DEF bounds, InTurn, Waiting
<1>3. CASE Throws(i) /\ UNCHANGED <<disk, registry>>
  <2>1. UNCHANGED disk /\ UNCHANGED registry
    BY <1>3
  <2> QED
    BY <1>1, <1>2, <1>3, <2>1, PlainWatched
<1>4. ASSUME Here(id) \/ disk[Path[id]] = None, disk' = [disk EXCEPT ![Path[id]] = None],
             NEW op \in Operation, Goes(i, op), op.step = "return", Wrote(i, id, op.ref)
      PROVE  Watched'
  BY <1>1, <1>2, <1>4, GoneWatched
<1> QED
  BY <1>1, <1>3, <1>4, RemoveWorktreeDoes

LEMMA ReturnWatched ==
  ASSUME Typed, Queued, Watched, Placed', NEW i \in 1..Len(ops), Return(i)
  PROVE  Watched'
<1>1. PICK id \in Ids : id = ops[i].ref.id
  BY OpType
<1>2. /\ ops[i].step = "return" /\ Throws(i) /\ UNCHANGED <<git, registry, renewals>>
  BY <1>1, ReturnDoes DEF bounds
<1>3. Moves(i) /\ DiskBy(id) /\ ~Made(ops[i]) /\ UNCHANGED <<disk, registry>>
  BY <1>2 DEF Moves, DiskBy, Made, git
<1>4. MadeRight'
  <2>1. PICK f \in [1..Len(ops') -> 1..Len(ops)] : \A k \in 1..Len(ops') : ops'[k] = ops[f[k]] /\ f[k] # i
    BY <1>2, ThrowsMaps
  <2> QED
    BY <1>3, <2>1 DEF Watched, MadeRight, Here, Made
<1> QED
  BY <1>1, <1>2, <1>3, <1>4, SameClaims, StepWatched

\* Calls, edits and lost registries.
LEMMA CallWatched ==
  ASSUME Typed, Watched, NEW m, NEW kind, NEW s, NEW ref, NEW a, NEW discard, Call(m, kind, s, ref, a, discard)
  PROVE  Watched'
<1>1. PICK op : op = [manager |-> m, kind |-> kind, step |-> s, ref |-> ref, for |-> a,
                      created |-> FALSE, discard |-> discard]
  OBVIOUS
<1>2. ~op.created /\ ops' = Append(ops, op) /\ UNCHANGED <<git, registry, renewals>>
  BY <1>1 DEF Call
<1>3. /\ Len(ops') = Len(ops) + 1 /\ ops'[Len(ops) + 1] = op /\ Len(ops) \in Nat
      /\ \A j \in 1..Len(ops) : ops'[j] = ops[j]
  BY <1>2, CallKeeps
<1>4. UNCHANGED disk
  BY <1>2 DEF git
<1>5. MadeRight'
  <2> SUFFICES ASSUME NEW k \in 1..Len(ops'), Made(ops'[k])
               PROVE  /\ disk'[Path[ops'[k].ref.id]] # None /\ disk'[Path[ops'[k].ref.id]].branch = ops'[k].ref.id
                      /\ disk'[Path[ops'[k].ref.id]].tree = 0 => ops'[k].ref.tree = 0
    BY DEF MadeRight, Here, Made
  <2>1. k \in 1..Len(ops) /\ ops'[k] = ops[k]
    <3>1. k # Len(ops) + 1
      BY <1>2, <1>3 DEF Made
    <3> QED
      BY <1>3, <3>1
  <2> QED
    BY <1>4, <2>1 DEF Watched, MadeRight, Here
<1>6. ASSUME NEW x, Someone(x) PROVE Someone(x)'
  <2>1. \A j \in 1..Len(ops) : j \in 1..Len(ops') /\ ops'[j] = ops[j]
    BY <1>3
  <2> QED
    BY <1>2, <1>6, <2>1 DEF Someone, Made
<1>7. Claims'
  <2> SUFFICES ASSUME renewals' = 0, NEW p \in Paths, disk'[p] # None, disk'[p].tree = 0
               PROVE  Someone(disk[p].branch)'
    BY DEF Claims
  <2>1. Someone(disk[p].branch) /\ disk'[p].branch = disk[p].branch
    BY <1>2, <1>4 DEF Watched, Claims
  <2>2. PICK b : b = disk[p].branch
    OBVIOUS
  <2>3. Someone(b)'
    BY <1>6, <2>1, <2>2
  <2> QED
    BY <2>1, <2>2, <2>3 DEF Someone
<1>8. CleanZero'
  BY <1>4 DEF Watched, CleanZero
<1> QED
  BY <1>2, <1>5, <1>7, <1>8 DEF Watched

\* What was changed is not as git made it.
LEMMA EditWatched ==
  ASSUME Typed, Watched, NEW p \in Paths, Edit(p)
  PROVE  Watched'
<1>1. PICK dirty \in BOOLEAN : disk' = [disk EXCEPT ![p] = [@ EXCEPT !.tree = edits + 1, !.dirty = dirty]]
  BY DEF Edit
<1>2. PICK w \in Worktree : w = disk[p]
  BY DEF Edit, Typed
<1>3. PICK n \in Nat : n = edits + 1 /\ n # 0
  BY DEF Typed
<1>4. PICK v \in Worktree : v = [w EXCEPT !.tree = n, !.dirty = dirty]
  BY DEF Worktree
<1>5. v.tree = n /\ v.branch = w.branch /\ v # None
  BY <1>4, WorkspaceNone DEF Worktree
<1>6. disk'[p] = v /\ \A q \in Paths : q # p => disk'[q] = disk[q]
  BY <1>1, <1>2, <1>3, <1>4 DEF Typed
<1>7. UNCHANGED <<registry, ops, renewals>>
  BY DEF Edit
<1>8. MadeRight'
  <2> SUFFICES ASSUME NEW k \in 1..Len(ops), Made(ops[k])
               PROVE  /\ disk'[Path[ops[k].ref.id]] # None /\ disk'[Path[ops[k].ref.id]].branch = ops[k].ref.id
                      /\ disk'[Path[ops[k].ref.id]].tree = 0 => ops[k].ref.tree = 0
    BY <1>7 DEF MadeRight, Here, Made
  <2>1. Path[ops[k].ref.id] \in Paths /\ Here(ops[k].ref.id) /\ (disk[Path[ops[k].ref.id]].tree = 0 => ops[k].ref.tree = 0)
    BY OpType, PathType DEF Watched, MadeRight
  <2>2. CASE Path[ops[k].ref.id] = p
    BY <1>2, <1>3, <1>5, <1>6, <2>1, <2>2 DEF Here
  <2>3. CASE Path[ops[k].ref.id] # p
    BY <1>6, <2>1, <2>3 DEF Here
  <2> QED
    BY <2>2, <2>3
<1>9. ASSUME NEW q \in Paths, disk'[q] # None, disk'[q].tree = 0 PROVE disk'[q] = disk[q]
  BY <1>3, <1>5, <1>6, <1>9
<1>10. CleanZero'
  BY <1>9 DEF Watched, CleanZero
<1>11. Claims'
  <2> SUFFICES ASSUME renewals' = 0, NEW q \in Paths, disk'[q] # None, disk'[q].tree = 0
               PROVE  Someone(disk[q].branch)'
    BY DEF Claims
  <2>1. disk'[q] = disk[q]
    BY <1>9
  <2>2. Someone(disk[q].branch)
    BY <1>7, <2>1 DEF Watched, Claims
  <2> QED
    BY <1>7, <2>1, <2>2 DEF Someone
<1> QED
  BY <1>7, <1>8, <1>10, <1>11 DEF Watched

LEMMA LostWatched ==
  ASSUME Typed, Watched, Crash \/ \E m \in Managers : Renew(m)
  PROVE  Watched'
<1>1. renewals' = renewals + 1 /\ UNCHANGED disk /\ (UNCHANGED ops \/ ops' = <<>>)
  BY DEF Crash, Renew, git
<1>2. renewals' \in Nat /\ renewals' # 0
  BY <1>1 DEF Watched
<1>3. MadeRight'
  BY <1>1 DEF Watched, MadeRight, Here, Made
<1> QED
  BY <1>1, <1>2, <1>3 DEF Watched, CleanZero, Claims

LEMMA NextWatched ==
  ASSUME Typed, Queued, Watched, Placed', [Next]_vars
  PROVE  Watched'
<1>1. CASE UNCHANGED vars
  <2>1. UNCHANGED <<disk, registry, ops, renewals>>
    BY <1>1 DEF vars, git, bounds
  <2>2. MadeRight' /\ CleanZero'
    BY <2>1 DEF Watched, MadeRight, CleanZero, Here, Made
  <2>3. Claims'
    BY <2>1 DEF Watched, Claims, Someone, Made
  <2> QED
    BY <2>1, <2>2, <2>3 DEF Watched
<1>2. ASSUME NEW m \in Managers, NEW id \in Ids,
             \/ \E a \in Attempts : Prepare(m, id, a) \/ Recover(m, id, a)
             \/ Finish(m, id)
             \/ \E discard \in BOOLEAN : RemoveWorkspace(m, id, discard)
      PROVE  Watched'
  BY <1>2, CallWatched DEF Prepare, Recover, Finish, RemoveWorkspace
<1>3. ASSUME NEW i \in 1..Len(ops),
             \/ AddWorktree(i) \/ RegisterPrepared(i) \/ AfterCreate(i) \/ AfterCreateFails(i)
             \/ Take(i) \/ BeforeRun(i) \/ BeforeRunFails(i)
             \/ AdoptToFinish(i) \/ AfterRun(i)
             \/ AdoptToRemove(i) \/ RemoveWorktree(i) \/ Return(i)
      PROVE  Watched'
  BY <1>3, AddWorktreeWatched, RegisterPreparedWatched, HookWatched, TakingWatched, RemoveWorktreeWatched, ReturnWatched
<1>4. ASSUME NEW p \in Paths, Edit(p) PROVE Watched'
  BY <1>4, EditWatched
<1>5. ASSUME NEW m \in Managers, Renew(m) PROVE Watched'
  BY <1>5, LostWatched
<1>6. CASE Crash
  BY <1>6, LostWatched
<1> QED
  BY <1>1, <1>2, <1>3, <1>4, <1>5, <1>6 DEF Next

\* The inductive invariant of the worktrees, and what it says of them.
WorktreesRight == HoldersRight /\ Sized /\ Watched

LEMMA RightIsKept ==
  ASSUME WorktreesRight
  PROVE  WorktreesKept
<1>1. Typed /\ Queued /\ Sized /\ Watched /\ \A id \in Ids : HeldRight(id)
  BY DEF WorktreesRight, HoldersRight, IdRight
<1>2. 0..edits \subseteq 0..MaxEdits
  BY <1>1, WorkspaceBounds DEF Typed, Sized
<1>3. ASSUME NEW r \in Reference, Small(r) PROVE r \in Refs
  <2>1. r.tree \in 0..MaxEdits
    BY <1>2, <1>3 DEF Small
  <2> QED
    BY <2>1 DEF Reference, Refs
<1>4. \A p \in Paths : disk[p] # None => disk[p].branch \in Ids /\ Path[disk[p].branch] = p
  BY <1>1 DEF Sized, Placed, Typed, Worktree
<1>5. ASSUME NEW m \in Managers, NEW id \in Ids, registry[m].byId[id] # None
      PROVE  registry[m].byId[id] \in Refs /\ registry[m].byPath[Path[id]] = id
  <2>1. registry[m].byId[id] \in Reference
    BY <1>1, <1>5, RegistryParts
  <2>2. Small(registry[m].byId[id]) /\ registry[m].byPath[Path[id]] = id
    BY <1>1, <1>5 DEF Sized, Entered
  <2> QED
    BY <1>3, <2>1, <2>2
<1>6. ASSUME NEW id \in Ids PROVE known[id] \in Refs \cup {None} /\ held[id] \in Attempts \cup {None}
  <2>1. known[id] \in Reference \cup {None} /\ held[id] \in Attempts \cup {None}
    BY <1>1 DEF Typed
  <2>2. known[id] # None => Small(known[id])
    BY <1>1 DEF Sized, Logged
  <2> QED
    BY <1>3, <2>1, <2>2
<1>7. TypeOK
  BY <1>4, <1>5, <1>6 DEF TypeOK
<1>8. HeldIsThere
  BY <1>1 DEF HeldIsThere, HeldRight, Here
<1>9. NothingOrphaned
  <2> SUFFICES ASSUME ops = <<>>, renewals = 0, NEW p \in Paths, disk[p] # None, disk[p].tree = 0
               PROVE  \E m \in Managers : registry[m].byId[disk[p].branch] # None
    BY DEF NothingOrphaned
  <2>1. Someone(disk[p].branch)
    BY <1>1 DEF Watched, Claims
  <2>2. Len(ops) = 0
    OBVIOUS
  <2> QED
    BY <2>1, <2>2 DEF Someone
<1> QED
  BY <1>7, <1>8, <1>9 DEF WorktreesKept

\* The worktree of an Attempt is at its path for as long as the Attempt has it, every registry agrees
\* with its paths, and while no registry was lost a worktree that git made and nobody changed has a
\* manager that knows it once all calls have returned.
THEOREM WorktreesStay == Spec => []WorktreesKept
<1>1. Init => WorktreesRight
  BY InitHolders, InitSized, InitWatched DEF WorktreesRight
<1>2. WorktreesRight /\ [Next]_vars => WorktreesRight'
  <2> SUFFICES ASSUME WorktreesRight, [Next]_vars PROVE WorktreesRight'
    OBVIOUS
  <2>1. HoldersRight' /\ Sized'
    BY NextHolders, NextSized DEF WorktreesRight, HoldersRight
  <2>2. Watched'
    BY <2>1, NextWatched DEF WorktreesRight, HoldersRight, Sized
  <2> QED
    BY <2>1, <2>2 DEF WorktreesRight
<1>3. WorktreesRight => WorktreesKept
  BY RightIsKept
<1> QED
  BY <1>1, <1>2, <1>3, PTL DEF Spec

=============================================================================
