----------------------------- MODULE Workspaces ------------------------------
(***************************************************************************)
(* The workspace manager (runtime/workspace): git worktrees that are       *)
(* prepared for an Attempt, retained when it is over, recovered by a later *)
(* one and removed. Its registry is in memory, and every Attempt works     *)
(* with a manager of its own, so a reference that is used again has to     *)
(* prove itself by what is on the disk.                                    *)
(*                                                                         *)
(* What is in a worktree is one number, its tree: the head and the         *)
(* fingerprint of the files together. Hooks, agents and people change it   *)
(* between any two steps. Git is external: it checks a branch out in one   *)
(* place at a time and refuses to remove a worktree with changes.          *)
(***************************************************************************)
EXTENDS Integers, Sequences, SequencesExt

CONSTANTS
  Ids,         \* workspace ids, one for each Task
  Path,        \* id -> its path; the names of two Tasks may lead to the same one
  Attempts,
  Managers,
  MaxCalls,    \* bound: calls
  MaxEdits,    \* bound: changes of a tree
  MaxRenewals, \* bound: crashes, and managers that take the place of others
  None

VARIABLES
  disk,      \* path -> None or its worktree: [branch, tree, dirty]
  branches,  \* id -> None or the tree its branch points to
  registry,  \* manager -> [byId, byPath]
  ops,       \* the operations under way, in the order of their calls
  at,        \* the manager that was called last about a workspace, or None
  known,     \* the reference the event log has for a workspace, or None
  held,      \* history: the Attempt that was given the workspace and has not finished, or None
  calls, edits, renewals

ASSUME WorkspacePaths == DOMAIN Path = Ids
ASSUME WorkspaceBounds == {MaxCalls, MaxEdits, MaxRenewals} \subseteq Nat

\* A worktree as git made it, and what was done to it since.
Worktree == [branch : Ids, tree : Nat, dirty : BOOLEAN]

\* What the callers keep of a workspace.
Reference ==
  [id : Ids, tree : Nat \cup {None}, state : {"ready", "retained", "released"}, owner : Attempts \cup {None}]

ASSUME WorkspaceNone == None \notin Worktree \cup Reference \cup Ids \cup Attempts \cup Managers \cup Nat

git == <<disk, branches>>
bounds == <<calls, edits, renewals>>
vars == <<git, registry, ops, at, known, held, bounds>>

Paths == {Path[id] : id \in Ids}
Ref(id, tree, state, owner) == [id |-> id, tree |-> tree, state |-> state, owner |-> owner]
EmptyRegistry == [byId |-> [id \in Ids |-> None], byPath |-> [p \in Paths |-> None]]

-----------------------------------------------------------------------------
(* The driver *)

\* assertReady: the worktree of this branch is at its path.
IsReady(ref) == disk[Path[ref.id]] # None /\ disk[Path[ref.id]].branch = ref.id

TreeAt(ref) == disk[Path[ref.id]].tree

\* recover: it is, with the contents the reference was given for.
Recoverable(ref) == IsReady(ref) /\ ref.tree # None /\ TreeAt(ref) = ref.tree

\* assertRemovable: there is nothing, or a clean worktree with just these contents.
Absent(ref) == disk[Path[ref.id]] = None
Removable(ref) ==
  Absent(ref) \/ (IsReady(ref) /\ ~disk[Path[ref.id]].dirty /\ ref.tree \in {None, TreeAt(ref)})

\* Git adds a worktree; a branch that exists is checked out as it is.
Added(id) == [branch |-> id, tree |-> IF branches[id] = None THEN 0 ELSE branches[id], dirty |-> FALSE]

-----------------------------------------------------------------------------
(* The registry *)

\* MUTANT: the owner of a workspace in use is not compared.
MayRegisterBug(reg, ref) ==
  /\ reg.byId[ref.id] # None => reg.byId[ref.id].tree = ref.tree
  /\ reg.byPath[Path[ref.id]] \in {None, ref.id}

\* register: what is known of the id agrees, nobody else uses it, the path is nobody else's.
MayRegister(reg, ref) ==
  /\ reg.byId[ref.id] # None =>
       /\ reg.byId[ref.id].tree = ref.tree
       /\ reg.byId[ref.id].state = "ready" => reg.byId[ref.id].owner = ref.owner
  /\ reg.byPath[Path[ref.id]] \in {None, ref.id}

Update(reg, ref) == [reg EXCEPT !.byId[ref.id] = ref]

Register(reg, ref) == [Update(reg, ref) EXCEPT !.byPath[Path[ref.id]] = ref.id]

Unregister(reg, ref) ==
  [byId |-> [reg.byId EXCEPT ![ref.id] = None],
   byPath |-> [reg.byPath EXCEPT ![Path[ref.id]] = IF @ = ref.id THEN None ELSE @]]

\* MUTANT: a reference is good if its workspace is managed.
RequiredBug(reg, ref) == reg.byId[ref.id] # None

\* require: the reference is the one that is managed, to the last field.
Required(reg, ref) == reg.byId[ref.id] = ref /\ \E p \in Paths : reg.byPath[p] = ref.id

-----------------------------------------------------------------------------
(* Calls *)

\* #exclusive: after all earlier operations of the manager on the same id or path.
CanRun(i) ==
  \A j \in 1..(i - 1) :
    ops[j].manager = ops[i].manager /\ ops[j].step # "return" => Path[ops[j].ref.id] # Path[ops[i].ref.id]

\* The scheduler lets one Attempt at a time work on a Task: calls about one workspace go to one
\* manager while they are under way, and a manager that another one has followed is not called.
Claimed(m, id) ==
  /\ \A i \in 1..Len(ops) : ops[i].ref.id = id => ops[i].manager = m
  /\ registry[m].byId[id] # None => at[id] = m

Call(m, kind, step, ref, for, discard) ==
  /\ calls < MaxCalls /\ Claimed(m, ref.id)
  /\ calls' = calls + 1 /\ at' = [at EXCEPT ![ref.id] = m]
  /\ ops' = Append(ops, [manager |-> m, kind |-> kind, step |-> step, ref |-> ref, for |-> for,
                         created |-> FALSE, discard |-> discard])
  /\ UNCHANGED <<git, registry, known, held, edits, renewals>>

\* An Attempt asks for its workspace once; prepare would join a call that is under way.
MayAsk(id, a) == held[id] # a /\ \A i \in 1..Len(ops) : ops[i].ref.id = id => ops[i].for # a

Prepare(m, id, a) ==
  MayAsk(id, a) /\ Call(m, "prepare", "add", Ref(id, None, "ready", a), a, FALSE)

\* recover: for an Attempt that takes what another has left.
Recover(m, id, a) ==
  /\ MayAsk(id, a)
  /\ known[id] # None /\ known[id].state = "retained" /\ known[id].owner = None
  /\ Call(m, "recover", "take", known[id], a, FALSE)

Finish(m, id) == known[id] # None /\ Call(m, "finish", "adopt", known[id], None, FALSE)

RemoveWorkspace(m, id, discard) == known[id] # None /\ Call(m, "remove", "adopt", known[id], None, discard)

-----------------------------------------------------------------------------
(* Steps *)

Reg(i) == registry[ops[i].manager]
SetReg(i, reg) == registry' = [registry EXCEPT ![ops[i].manager] = reg]
Goes(i, op) == ops' = [ops EXCEPT ![i] = op]
Throws(i) == ops' = RemoveAt(ops, i)

At(i, kinds, step) == i \in 1..Len(ops) /\ CanRun(i) /\ ops[i].kind \in kinds /\ ops[i].step = step

\* The result is on its way to the event log.
Returns(i, ref) == Goes(i, [ops[i] EXCEPT !.step = "return", !.ref = ref])

\* GitWorktreeDriver.prepare: a worktree that is there has to be the one that was known.
AddWorktree(i) ==
  /\ At(i, {"prepare"}, "add")
  /\ LET id == ops[i].ref.id
         p == Path[id]
         before == Reg(i).byId[id]
         expected == [ops[i].ref EXCEPT !.tree = IF before = None THEN None ELSE before.tree]
     IN  IF disk[p] # None
         THEN /\ IF Recoverable(expected) THEN Goes(i, [ops[i] EXCEPT !.step = "register", !.ref = expected])
                                          ELSE Throws(i)
              /\ UNCHANGED git
         ELSE IF expected.tree \in {None, Added(id).tree}
         THEN /\ disk' = [disk EXCEPT ![p] = Added(id)]
              /\ branches' = [branches EXCEPT ![id] = Added(id).tree]
              /\ Goes(i, [ops[i] EXCEPT !.step = "register", !.created = TRUE,
                            !.ref = [expected EXCEPT !.tree = Added(id).tree]])
         ELSE Throws(i) /\ UNCHANGED git
  /\ UNCHANGED <<registry, at, known, held, bounds>>

\* A worktree that has just been made is removed again.
RolledBack(p) == [disk EXCEPT ![p] = None]

\* #prepare: registered, or rolled back.
RegisterPrepared(i) ==
  /\ At(i, {"prepare"}, "register")
  /\ LET ref == ops[i].ref
     IN  IF MayRegister(Reg(i), ref)
         THEN /\ SetReg(i, Register(Reg(i), ref))
              /\ Goes(i, [ops[i] EXCEPT !.step = IF ops[i].created THEN "afterCreate" ELSE "beforeRun"])
              /\ UNCHANGED disk
         ELSE /\ Throws(i) /\ UNCHANGED registry
              /\ disk' = IF ops[i].created /\ Removable(ref) /\ ~Absent(ref)
                         THEN RolledBack(Path[ref.id]) ELSE disk
  /\ UNCHANGED <<branches, at, known, held, bounds>>

\* The state a failed hook leaves in the registry, with what can be seen.
RetainObserved(ref) == Ref(ref.id, IF IsReady(ref) THEN TreeAt(ref) ELSE ref.tree, "retained", None)

\* The afterCreate hook fails: a worktree it left clean is removed, another is retained.
AfterCreateFails(i) ==
  /\ At(i, {"prepare"}, "afterCreate")
  /\ LET ref == ops[i].ref
     IN  IF Removable(ref)
         THEN disk' = RolledBack(Path[ref.id]) /\ SetReg(i, Unregister(Reg(i), ref))
         ELSE UNCHANGED disk /\ SetReg(i, Update(Reg(i), RetainObserved(ref)))
  /\ Throws(i)
  /\ UNCHANGED <<branches, at, known, held, bounds>>

\* It succeeds; what it has changed is seen after the next hook.
AfterCreate(i) ==
  /\ At(i, {"prepare"}, "afterCreate")
  /\ Goes(i, [ops[i] EXCEPT !.step = "beforeRun"])
  /\ UNCHANGED <<git, registry, at, known, held, bounds>>

\* #recover: the contents are the ones of the reference; the workspace is registered and owned.
Take(i) ==
  /\ At(i, {"recover"}, "take")
  /\ LET ref == ops[i].ref
     IN  IF Recoverable(ref) /\ MayRegister(Reg(i), ref)
         THEN LET owned == [ref EXCEPT !.state = "ready", !.owner = ops[i].for]
              IN  SetReg(i, Update(Register(Reg(i), ref), owned))
                  /\ Goes(i, [ops[i] EXCEPT !.step = "beforeRun", !.ref = owned])
         ELSE Throws(i) /\ UNCHANGED registry
  /\ UNCHANGED <<git, at, known, held, bounds>>

\* The beforeRun hook succeeds and the worktree is there: what is seen now is returned.
BeforeRun(i) ==
  /\ At(i, {"prepare", "recover"}, "beforeRun")
  /\ IsReady(ops[i].ref)
  /\ LET ready == [ops[i].ref EXCEPT !.tree = TreeAt(ops[i].ref)]
     IN  SetReg(i, Update(Reg(i), ready)) /\ Returns(i, ready)
  /\ UNCHANGED <<git, at, known, held, bounds>>

BeforeRunFails(i) ==
  /\ At(i, {"prepare", "recover"}, "beforeRun")
  /\ SetReg(i, Update(Reg(i), RetainObserved(ops[i].ref)))
  /\ Throws(i)
  /\ UNCHANGED <<git, at, known, held, bounds>>

\* finish and remove take a workspace over that their manager does not know, if its contents are
\* the ones of the reference and its path is free; for a removal nothing may be left too.
Adoptable(i, ref) ==
  /\ Reg(i).byPath[Path[ref.id]] = None
  /\ IF ops[i].kind = "finish" THEN Recoverable(ref)
     ELSE /\ ref.state \in {"retained", "released"} /\ Removable(ref)
          /\ ~Absent(ref) => ref.state # "released" /\ Recoverable(ref)

Adopted(i, ref) ==
  IF Reg(i).byId[ref.id] = None /\ Adoptable(i, ref) /\ MayRegister(Reg(i), ref)
  THEN Register(Reg(i), ref) ELSE Reg(i)

\* finish: the workspace is in use.
AdoptToFinish(i) ==
  /\ At(i, {"finish"}, "adopt")
  /\ LET ref == ops[i].ref
         reg == Adopted(i, ref)
     IN  /\ SetReg(i, reg)
         /\ IF Required(reg, ref) /\ ref.state = "ready"
            THEN Goes(i, [ops[i] EXCEPT !.step = "afterRun"]) ELSE Throws(i)
  /\ UNCHANGED <<git, at, known, held, bounds>>

\* The afterRun hook may fail; what is seen after it is retained.
AfterRun(i) ==
  /\ At(i, {"finish"}, "afterRun")
  /\ LET ref == ops[i].ref
         kept == Ref(ref.id, TreeAt(ref), "retained", None)
     IN  IF IsReady(ref)
         THEN SetReg(i, Update(Reg(i), kept)) /\ Returns(i, kept)
         ELSE Throws(i) /\ UNCHANGED registry
  /\ UNCHANGED <<git, at, known, held, bounds>>

\* remove: nobody owns the workspace; one that was released before is gone.
AdoptToRemove(i) ==
  /\ At(i, {"remove"}, "adopt")
  /\ LET ref == ops[i].ref
         reg == Adopted(i, ref)
         free == ref.state = "retained" /\ ref.owner = None
     IN  /\ SetReg(i, reg)
         /\ IF ~Required(reg, ref) THEN Throws(i)
            ELSE IF ref.state = "released" /\ Absent(ref) THEN Returns(i, ref)
            ELSE IF free /\ (IF ops[i].discard THEN IsReady(ref) ELSE Removable(ref))
            THEN Goes(i, [ops[i] EXCEPT !.step = "beforeRemove"])
            ELSE Throws(i)
  /\ UNCHANGED <<git, at, known, held, bounds>>

\* MUTANT: what the beforeRemove hook has changed is not looked at.
StillRemovableBug(ref) == TRUE

\* The checks are repeated after the hook, and by git.
StillRemovable(ref) == Removable(ref)

RemoveWorktree(i) ==
  /\ At(i, {"remove"}, "beforeRemove")
  /\ LET ref == ops[i].ref
         gone == [ref EXCEPT !.state = "released"]
     IN  IF IF ops[i].discard THEN IsReady(ref) ELSE StillRemovable(ref)
         THEN /\ disk' = [disk EXCEPT ![Path[ref.id]] = None]
              /\ SetReg(i, Update(Reg(i), gone)) /\ Returns(i, gone)
         ELSE Throws(i) /\ UNCHANGED <<disk, registry>>
  /\ UNCHANGED <<branches, at, known, held, bounds>>

\* The caller has the result and records it; results about one workspace come in their order.
Return(i) ==
  /\ i \in 1..Len(ops) /\ ops[i].step = "return"
  /\ \A j \in 1..(i - 1) : ops[j].ref.id # ops[i].ref.id
  /\ LET ref == ops[i].ref
     IN  /\ known' = [known EXCEPT ![ref.id] = ref]
         /\ held' = [held EXCEPT ![ref.id] = ref.owner]
  /\ ops' = RemoveAt(ops, i)
  /\ UNCHANGED <<git, registry, at, bounds>>

\* A hook, an agent or a person changes files, or commits.
Edit(p) ==
  /\ edits < MaxEdits /\ disk[p] # None
  /\ edits' = edits + 1
  /\ \E dirty \in BOOLEAN :
       /\ disk' = [disk EXCEPT ![p] = [@ EXCEPT !.tree = edits + 1, !.dirty = dirty]]
       /\ branches' = IF dirty THEN branches ELSE [branches EXCEPT ![disk[p].branch] = edits + 1]
  /\ UNCHANGED <<registry, ops, at, known, held, calls, renewals>>

\* The Attempt of a manager is over; the next one begins with an empty registry.
Renew(m) ==
  /\ renewals < MaxRenewals
  /\ registry[m] # EmptyRegistry /\ \A i \in 1..Len(ops) : ops[i].manager # m
  /\ registry' = [registry EXCEPT ![m] = EmptyRegistry]
  /\ renewals' = renewals + 1
  /\ UNCHANGED <<git, ops, at, known, held, calls, edits>>

\* The process dies.
Crash ==
  /\ renewals < MaxRenewals
  /\ registry' = [m \in Managers |-> EmptyRegistry]
  /\ ops' = <<>>
  /\ renewals' = renewals + 1
  /\ UNCHANGED <<git, at, known, held, calls, edits>>

-----------------------------------------------------------------------------
Init ==
  /\ disk = [p \in Paths |-> None] /\ branches = [id \in Ids |-> None]
  /\ registry = [m \in Managers |-> EmptyRegistry]
  /\ ops = <<>> /\ at = [id \in Ids |-> None] /\ known = [id \in Ids |-> None] /\ held = [id \in Ids |-> None]
  /\ calls = 0 /\ edits = 0 /\ renewals = 0

Next ==
  \/ \E m \in Managers, id \in Ids :
       \/ \E a \in Attempts : Prepare(m, id, a) \/ Recover(m, id, a)
       \/ Finish(m, id)
       \/ \E discard \in BOOLEAN : RemoveWorkspace(m, id, discard)
  \/ \E i \in 1..Len(ops) :
       \/ AddWorktree(i) \/ RegisterPrepared(i) \/ AfterCreate(i) \/ AfterCreateFails(i)
       \/ Take(i) \/ BeforeRun(i) \/ BeforeRunFails(i)
       \/ AdoptToFinish(i) \/ AfterRun(i)
       \/ AdoptToRemove(i) \/ RemoveWorktree(i) \/ Return(i)
  \/ \E p \in Paths : Edit(p)
  \/ \E m \in Managers : Renew(m)
  \/ Crash

Spec == Init /\ [][Next]_vars

-----------------------------------------------------------------------------
(* Properties *)

\* Every variable keeps its type, and a registry has no id without its path.
Refs == [id : Ids, tree : 0..MaxEdits, state : {"ready", "retained", "released"}, owner : Attempts \cup {None}]
TypeOK ==
  /\ \A p \in Paths : disk[p] # None => disk[p].branch \in Ids /\ Path[disk[p].branch] = p
  /\ \A m \in Managers, id \in Ids :
       registry[m].byId[id] # None =>
         registry[m].byId[id] \in Refs /\ registry[m].byPath[Path[id]] = id
  /\ \A id \in Ids : known[id] \in Refs \cup {None} /\ held[id] \in Attempts \cup {None}

\* What was changed and not committed is never deleted, except where the call says so: hooks and
\* people may write at any moment between the checks of a removal or of a rollback.
NothingLost ==
  [][\A p \in Paths :
       disk[p] # None /\ disk'[p] = None /\ disk[p].dirty
         => \E i \in 1..Len(ops) : ops[i].kind = "remove" /\ ops[i].discard]_vars

\* A workspace that was given to an Attempt is given to no other one before it is finished, and
\* the manager that gave it may be gone by then.
ExclusiveHolder ==
  [][\A id \in Ids : held[id] # None /\ held'[id] # None => held'[id] = held[id]]_vars

\* The worktree of an Attempt stays where it is: a removal that was called before, another Task
\* with the same path or a failing call of somebody else does not take it away.
HeldIsThere ==
  \A id \in Ids : held[id] # None => disk[Path[id]] # None /\ disk[Path[id]].branch = id

\* As long as no registry was lost, no worktree as git made it is left that nobody knows when all
\* calls have returned: not one that could not be registered, nor one whose hook has failed.
NothingOrphaned ==
  ops = <<>> /\ renewals = 0 =>
    \A p \in Paths : disk[p] # None /\ disk[p].tree = 0 =>
      \E m \in Managers : registry[m].byId[disk[p].branch] # None

\* Worktrees are where their references say: the one of an Attempt stays, and none is left that
\* no manager knows.
WorktreesKept == TypeOK /\ HeldIsThere /\ NothingOrphaned

=============================================================================
