-------------------------- MODULE SingleAgentProofs --------------------------
(***************************************************************************)
(* Proofs about SingleAgent for every value of its constants.              *)
(*                                                                         *)
(* Typed says what every variable holds, and IInv that the tables of the   *)
(* scheduler, the index and the projection, the runs and the jobs speak of *)
(* the same Attempts: RunOk relates a run to its job and its Attempt,      *)
(* JobOk a job to its run, ClaimOk an Attempt to the claim of its Task,    *)
(* and IdOk the tables to each other.  Typed holds in every scenario, IInv *)
(* while people neither pause nor delete Attempts: a pause may end a run   *)
(* whose job is about to attach it.                                        *)
(*                                                                         *)
(* The types come first, one lemma per step, then what IInv needs of each  *)
(* way a job moves, then IInv, one lemma per step (NextRight), and at the  *)
(* end the invariants of the runs, from IInv.                              *)
(***************************************************************************)
EXTENDS SingleAgent, TLAPS, FiniteSetTheorems

\* People neither pause nor delete Attempts.
Unpaused == scenario.kinds \cap {"pause", "delete"} = {}

-----------------------------------------------------------------------------
(* Types *)

Early == {"fetch", "prepare", "resume"}

CommandRecords ==
  [pc : {"queued", "pausing", "delete", "unindex", "handoff", "return"}, kind : AllKinds \ {"stop"},
   attempt : AttemptIds \cup {None}, task : Tasks]

TickPcs == {"reconcile", "cancel", "ending", "append", "retries", "retry"}
TickWrites == {"event", "attempt", "task", "retained", "released"}
TickNexts == {"cancel", "ending", "retries", "retry"}
TickNotes == Snapshots \cup AllViews \cup {None}
TickRecords ==
  [pc : TickPcs, seen : [Tasks -> AllViews \cup {None}], stopped : SUBSET AttemptIds, closed : SUBSET Tasks,
   due : SUBSET Tasks, write : TickWrites, task : Tasks \cup {None}, attempt : AttemptIds \cup {None},
   snapshot : TickNotes, next : TickNexts]

Shutdowns ==
  [pc : {"idle", "tick", "runs", "jobs", "stopped", "failed"}, awaited : SUBSET AttemptIds,
   ended : SUBSET AttemptIds]

Logged == [last : {"none", "retained", "released"}, keys : SUBSET {"retained", "terminal-cleanup"}]

\* Where a job or the tick goes on when its record is committed.
Where(j) == IF j.pc = "append" THEN j.next ELSE j.pc

\* A job has an Attempt from its start, and what it has queued is a snapshot of it.
JobShape(j) ==
  /\ (j.attempt = None) <=> Where(j) \in Early \cup {"end"}
  /\ j.pc = "append" /\ j.write = "attempt" =>
       j.attempt # None /\ j.snapshot \in Snapshots /\ j.space # None
  /\ j.kind = "continue" \/ Where(j) = "resume" => j.from # None

TickShape ==
  /\ tick.pc \in {"append", "retry"} => tick.task \in Tasks
  /\ tick.pc = "append" =>
       /\ tick.write = "attempt" => tick.snapshot \in Snapshots /\ tick.attempt # None
       /\ tick.write = "task" <=> tick.next = "retry"
  /\ Where(tick) = "retry" => tick.snapshot \in AllViews
  /\ Where(tick) = "ending" => tick.attempt # None /\ runs[tick.attempt] # None

CommandShape ==
  /\ command.pc # "idle" => command.kind \in scenario.kinds
  /\ command.pc # "idle" /\ command.kind # "start" => command.attempt # None
  /\ command.pc \in {"pausing", "handoff"} => command.attempt # None /\ runs[command.attempt] # None
  /\ command.pc = "return" => command.attempt # None

\* A command that has begun keeps the critical section.
InSection == command.pc \in {"pausing", "delete", "unindex", "handoff", "return"} => Holds("command")

DataTyped ==
  /\ scenario \in Scenarios
  /\ drawn \in 0..MaxDrawn /\ given \in Nat /\ restarts \in Nat
  /\ tracker \in [Tasks -> AllViews]
  /\ known \in [Tasks -> AllViews \cup {None}]
  /\ recorded \in [AttemptIds -> Snapshots \cup {None}]
  /\ index \in [AttemptIds -> Snapshots \cup {None}]
  /\ workspaces \in [Tasks -> {"none", "ready", "retained", "released"}]
  /\ logged \in [Tasks -> Logged]
SchedulerTyped ==
  /\ schedulerUp \in BOOLEAN
  /\ attempts \in [AttemptIds -> Snapshots \cup {None}]
  /\ claims \in [Tasks -> AttemptIds \cup {None}]
  /\ retries \in [Tasks -> RetryRecords \cup {None}]
RunsTyped == runs \in [AttemptIds -> RunRecords \cup {None}]
JobsTyped ==
  /\ jobs \in [Tasks -> JobRecords \cup {None}]
  /\ \A t \in Tasks : jobs[t] # None =>
       JobShape(jobs[t]) /\ (jobs[t].attempt # None => runs[jobs[t].attempt] # None)
RestTyped ==
  /\ lock \in Seq(Tasks \cup {"tick", "command"})
  /\ command \in CommandRecords \cup {Idle}
  /\ tick \in TickRecords \cup {Idle}
  /\ shutdown \in Shutdowns
  /\ TickShape /\ CommandShape /\ InSection

Typed == DataTyped /\ SchedulerTyped /\ RunsTyped /\ JobsTyped /\ RestTyped

\* What a run becomes.
AttachedTo(r, s) == [r EXCEPT !.attempt = s, !.attached = TRUE]
HaltedBy(who, r, x) ==
  [Halt(r) EXCEPT !.ends[who] = x, !.managed = IF x = "retained" THEN "retained" ELSE r.managed]
EndedAt(who, r, x) == [r EXCEPT !.ends[who] = x]
KeptBy(who, r) == [r EXCEPT !.workspace = "retained", !.ends[who] = "status"]
NotedBy(who, r, s) == [r EXCEPT !.attempt = s, !.ends[who] = "settle"]
OverBy(who, r) == [Settled(r) EXCEPT !.ends[who] = "done"]
ClosedBy(who, r, s) == [Settled(r) EXCEPT !.attempt = s, !.ends[who] = "done"]

LEMMA RunStop ==
  ASSUME NEW r \in RunRecords, NEW who \in Enders
  PROVE  LET q == Stop(who, r) IN
         /\ q \in RunRecords
         /\ q.attempt = r.attempt
         /\ q.view = r.view
         /\ q.stopping = TRUE
         /\ q.handoff = r.handoff
         /\ q.managed = r.managed
         /\ q.workspace = r.workspace
         /\ q.worker = r.worker
         /\ q.turn = r.turn
         /\ q.attached = r.attached
         /\ q.turns = r.turns
         /\ q.listed = r.listed
         /\ q.settled = r.settled
         /\ q.ends = [r.ends EXCEPT ![who] = "halt"]
BY DEF RunRecords, Stop, Stages, Snapshots

LEMMA RunStatus ==
  ASSUME NEW r \in RunRecords, NEW s \in Live \cup Terminal \cup {"paused"}
  PROVE  LET q == [r EXCEPT !.attempt.status = s] IN
         /\ q \in RunRecords
         /\ q.attempt = [r.attempt EXCEPT !.status = s]
         /\ q.view = r.view
         /\ q.stopping = r.stopping
         /\ q.handoff = r.handoff
         /\ q.managed = r.managed
         /\ q.workspace = r.workspace
         /\ q.worker = r.worker
         /\ q.turn = r.turn
         /\ q.attached = r.attached
         /\ q.turns = r.turns
         /\ q.listed = r.listed
         /\ q.settled = r.settled
         /\ q.ends = r.ends
BY DEF RunRecords, Stages, Snapshots

LEMMA RunFinishing ==
  ASSUME NEW r \in RunRecords
  PROVE  LET q == [r EXCEPT !.attempt.status = "finishing", !.worker = "closed"] IN
         /\ q \in RunRecords
         /\ q.attempt = [r.attempt EXCEPT !.status = "finishing"]
         /\ q.view = r.view
         /\ q.stopping = r.stopping
         /\ q.handoff = r.handoff
         /\ q.managed = r.managed
         /\ q.workspace = r.workspace
         /\ q.worker = "closed"
         /\ q.turn = r.turn
         /\ q.attached = r.attached
         /\ q.turns = r.turns
         /\ q.listed = r.listed
         /\ q.settled = r.settled
         /\ q.ends = r.ends
BY DEF RunRecords, Live, Stages, Snapshots

LEMMA RunSnapshot ==
  ASSUME NEW r \in RunRecords, NEW s \in Snapshots
  PROVE  LET q == [r EXCEPT !.attempt = s] IN
         /\ q \in RunRecords
         /\ q.attempt = s
         /\ q.view = r.view
         /\ q.stopping = r.stopping
         /\ q.handoff = r.handoff
         /\ q.managed = r.managed
         /\ q.workspace = r.workspace
         /\ q.worker = r.worker
         /\ q.turn = r.turn
         /\ q.attached = r.attached
         /\ q.turns = r.turns
         /\ q.listed = r.listed
         /\ q.settled = r.settled
         /\ q.ends = r.ends
BY DEF RunRecords, Stages, Snapshots

LEMMA RunAttached ==
  ASSUME NEW r \in RunRecords, NEW s \in Snapshots
  PROVE  LET q == AttachedTo(r, s) IN
         /\ q \in RunRecords
         /\ q.attempt = s
         /\ q.view = r.view
         /\ q.stopping = r.stopping
         /\ q.handoff = r.handoff
         /\ q.managed = r.managed
         /\ q.workspace = r.workspace
         /\ q.worker = r.worker
         /\ q.turn = r.turn
         /\ q.attached = TRUE
         /\ q.turns = r.turns
         /\ q.listed = r.listed
         /\ q.settled = r.settled
         /\ q.ends = r.ends
BY DEF RunRecords, AttachedTo, Stages, Snapshots

LEMMA RunOpened ==
  ASSUME NEW r \in RunRecords
  PROVE  LET q == [r EXCEPT !.worker = "open"] IN
         /\ q \in RunRecords
         /\ q.attempt = r.attempt
         /\ q.view = r.view
         /\ q.stopping = r.stopping
         /\ q.handoff = r.handoff
         /\ q.managed = r.managed
         /\ q.workspace = r.workspace
         /\ q.worker = "open"
         /\ q.turn = r.turn
         /\ q.attached = r.attached
         /\ q.turns = r.turns
         /\ q.listed = r.listed
         /\ q.settled = r.settled
         /\ q.ends = r.ends
BY DEF RunRecords, Stages, Snapshots

LEMMA RunTurn ==
  ASSUME NEW r \in RunRecords
  PROVE  LET q == [r EXCEPT !.turn = "open", !.attached = FALSE] IN
         /\ q \in RunRecords
         /\ q.attempt = r.attempt
         /\ q.view = r.view
         /\ q.stopping = r.stopping
         /\ q.handoff = r.handoff
         /\ q.managed = r.managed
         /\ q.workspace = r.workspace
         /\ q.worker = r.worker
         /\ q.turn = "open"
         /\ q.attached = FALSE
         /\ q.turns = r.turns
         /\ q.listed = r.listed
         /\ q.settled = r.settled
         /\ q.ends = r.ends
BY DEF RunRecords, Stages, Snapshots

LEMMA RunTurnOver ==
  ASSUME NEW r \in RunRecords, NEW o \in {"completed", "interrupted"}
  PROVE  LET q == [r EXCEPT !.turn = o] IN
         /\ q \in RunRecords
         /\ q.attempt = r.attempt
         /\ q.view = r.view
         /\ q.stopping = r.stopping
         /\ q.handoff = r.handoff
         /\ q.managed = r.managed
         /\ q.workspace = r.workspace
         /\ q.worker = r.worker
         /\ q.turn = o
         /\ q.attached = r.attached
         /\ q.turns = r.turns
         /\ q.listed = r.listed
         /\ q.settled = r.settled
         /\ q.ends = r.ends
BY DEF RunRecords, Stages, Snapshots

LEMMA RunTurns ==
  ASSUME NEW r \in RunRecords
  PROVE  LET q == [r EXCEPT !.turns = @ + 1] IN
         /\ q \in RunRecords
         /\ q.attempt = r.attempt
         /\ q.view = r.view
         /\ q.stopping = r.stopping
         /\ q.handoff = r.handoff
         /\ q.managed = r.managed
         /\ q.workspace = r.workspace
         /\ q.worker = r.worker
         /\ q.turn = r.turn
         /\ q.attached = r.attached
         /\ q.turns = r.turns + 1
         /\ q.listed = r.listed
         /\ q.settled = r.settled
         /\ q.ends = r.ends
BY DEF RunRecords, Stages, Snapshots

LEMMA RunView ==
  ASSUME NEW r \in RunRecords, NEW v \in AllViews
  PROVE  LET q == [r EXCEPT !.view = v] IN
         /\ q \in RunRecords
         /\ q.attempt = r.attempt
         /\ q.view = v
         /\ q.stopping = r.stopping
         /\ q.handoff = r.handoff
         /\ q.managed = r.managed
         /\ q.workspace = r.workspace
         /\ q.worker = r.worker
         /\ q.turn = r.turn
         /\ q.attached = r.attached
         /\ q.turns = r.turns
         /\ q.listed = r.listed
         /\ q.settled = r.settled
         /\ q.ends = r.ends
BY DEF RunRecords, Stages, Snapshots

LEMMA RunManaged ==
  ASSUME NEW r \in RunRecords
  PROVE  LET q == [r EXCEPT !.managed = "retained"] IN
         /\ q \in RunRecords
         /\ q.attempt = r.attempt
         /\ q.view = r.view
         /\ q.stopping = r.stopping
         /\ q.handoff = r.handoff
         /\ q.managed = "retained"
         /\ q.workspace = r.workspace
         /\ q.worker = r.worker
         /\ q.turn = r.turn
         /\ q.attached = r.attached
         /\ q.turns = r.turns
         /\ q.listed = r.listed
         /\ q.settled = r.settled
         /\ q.ends = r.ends
BY DEF RunRecords, Stages, Snapshots

LEMMA RunWorkspace ==
  ASSUME NEW r \in RunRecords
  PROVE  LET q == [r EXCEPT !.workspace = "retained"] IN
         /\ q \in RunRecords
         /\ q.attempt = r.attempt
         /\ q.view = r.view
         /\ q.stopping = r.stopping
         /\ q.handoff = r.handoff
         /\ q.managed = r.managed
         /\ q.workspace = "retained"
         /\ q.worker = r.worker
         /\ q.turn = r.turn
         /\ q.attached = r.attached
         /\ q.turns = r.turns
         /\ q.listed = r.listed
         /\ q.settled = r.settled
         /\ q.ends = r.ends
BY DEF RunRecords, Stages, Snapshots

LEMMA RunHandoff ==
  ASSUME NEW r \in RunRecords
  PROVE  LET q == [r EXCEPT !.handoff = TRUE] IN
         /\ q \in RunRecords
         /\ q.attempt = r.attempt
         /\ q.view = r.view
         /\ q.stopping = r.stopping
         /\ q.handoff = TRUE
         /\ q.managed = r.managed
         /\ q.workspace = r.workspace
         /\ q.worker = r.worker
         /\ q.turn = r.turn
         /\ q.attached = r.attached
         /\ q.turns = r.turns
         /\ q.listed = r.listed
         /\ q.settled = r.settled
         /\ q.ends = r.ends
BY DEF RunRecords, Stages, Snapshots

LEMMA RunUnlisted ==
  ASSUME NEW r \in RunRecords
  PROVE  LET q == [r EXCEPT !.listed = FALSE] IN
         /\ q \in RunRecords
         /\ q.attempt = r.attempt
         /\ q.view = r.view
         /\ q.stopping = r.stopping
         /\ q.handoff = r.handoff
         /\ q.managed = r.managed
         /\ q.workspace = r.workspace
         /\ q.worker = r.worker
         /\ q.turn = r.turn
         /\ q.attached = r.attached
         /\ q.turns = r.turns
         /\ q.listed = FALSE
         /\ q.settled = r.settled
         /\ q.ends = r.ends
BY DEF RunRecords, Stages, Snapshots

LEMMA RunSettled ==
  ASSUME NEW r \in RunRecords
  PROVE  LET q == Settled(r) IN
         /\ q \in RunRecords
         /\ q.attempt = r.attempt
         /\ q.view = r.view
         /\ q.stopping = r.stopping
         /\ q.handoff = r.handoff
         /\ q.managed = r.managed
         /\ q.workspace = r.workspace
         /\ q.worker = r.worker
         /\ q.turn = r.turn
         /\ q.attached = r.attached
         /\ q.turns = r.turns
         /\ q.listed = FALSE
         /\ q.settled = TRUE
         /\ q.ends = r.ends
BY DEF RunRecords, Settled, Stages, Snapshots

LEMMA RunHalt ==
  ASSUME NEW r \in RunRecords
  PROVE  LET q == Halt(r) IN
         /\ q \in RunRecords
         /\ q.attempt = r.attempt
         /\ q.view = r.view
         /\ q.stopping = r.stopping
         /\ q.handoff = r.handoff
         /\ q.managed = r.managed
         /\ q.workspace = r.workspace
         /\ q.worker = IF r.worker = "open" THEN "closed" ELSE r.worker
         /\ q.turn = r.turn
         /\ q.attached = r.attached
         /\ q.turns = r.turns
         /\ q.listed = r.listed
         /\ q.settled = r.settled
         /\ q.ends = r.ends
BY DEF RunRecords, Halt, Stages, Snapshots

LEMMA RunHaltKept ==
  ASSUME NEW r \in RunRecords
  PROVE  LET q == [Halt(r) EXCEPT !.managed = "retained", !.workspace = "retained"] IN
         /\ q \in RunRecords
         /\ q.attempt = r.attempt
         /\ q.view = r.view
         /\ q.stopping = r.stopping
         /\ q.handoff = r.handoff
         /\ q.managed = "retained"
         /\ q.workspace = "retained"
         /\ q.worker = IF r.worker = "open" THEN "closed" ELSE r.worker
         /\ q.turn = r.turn
         /\ q.attached = r.attached
         /\ q.turns = r.turns
         /\ q.listed = r.listed
         /\ q.settled = r.settled
         /\ q.ends = r.ends
BY DEF RunRecords, Halt, Stages, Snapshots

LEMMA RunHalted ==
  ASSUME NEW r \in RunRecords, NEW who \in Enders, NEW x \in Stages
  PROVE  LET q == HaltedBy(who, r, x) IN
         /\ q \in RunRecords
         /\ q.attempt = r.attempt
         /\ q.view = r.view
         /\ q.stopping = r.stopping
         /\ q.handoff = r.handoff
         /\ q.managed = IF x = "retained" THEN "retained" ELSE r.managed
         /\ q.workspace = r.workspace
         /\ q.worker = IF r.worker = "open" THEN "closed" ELSE r.worker
         /\ q.turn = r.turn
         /\ q.attached = r.attached
         /\ q.turns = r.turns
         /\ q.listed = r.listed
         /\ q.settled = r.settled
         /\ q.ends = [r.ends EXCEPT ![who] = x]
BY DEF RunRecords, HaltedBy, Halt, Stages, Snapshots

LEMMA RunEnded ==
  ASSUME NEW r \in RunRecords, NEW who \in Enders, NEW x \in Stages
  PROVE  LET q == EndedAt(who, r, x) IN
         /\ q \in RunRecords
         /\ q.attempt = r.attempt
         /\ q.view = r.view
         /\ q.stopping = r.stopping
         /\ q.handoff = r.handoff
         /\ q.managed = r.managed
         /\ q.workspace = r.workspace
         /\ q.worker = r.worker
         /\ q.turn = r.turn
         /\ q.attached = r.attached
         /\ q.turns = r.turns
         /\ q.listed = r.listed
         /\ q.settled = r.settled
         /\ q.ends = [r.ends EXCEPT ![who] = x]
BY DEF RunRecords, EndedAt, Stages, Snapshots

LEMMA RunKept ==
  ASSUME NEW r \in RunRecords, NEW who \in Enders
  PROVE  LET q == KeptBy(who, r) IN
         /\ q \in RunRecords
         /\ q.attempt = r.attempt
         /\ q.view = r.view
         /\ q.stopping = r.stopping
         /\ q.handoff = r.handoff
         /\ q.managed = r.managed
         /\ q.workspace = "retained"
         /\ q.worker = r.worker
         /\ q.turn = r.turn
         /\ q.attached = r.attached
         /\ q.turns = r.turns
         /\ q.listed = r.listed
         /\ q.settled = r.settled
         /\ q.ends = [r.ends EXCEPT ![who] = "status"]
BY DEF RunRecords, KeptBy, Stages, Snapshots

LEMMA RunNoted ==
  ASSUME NEW r \in RunRecords, NEW who \in Enders, NEW s \in Snapshots
  PROVE  LET q == NotedBy(who, r, s) IN
         /\ q \in RunRecords
         /\ q.attempt = s
         /\ q.view = r.view
         /\ q.stopping = r.stopping
         /\ q.handoff = r.handoff
         /\ q.managed = r.managed
         /\ q.workspace = r.workspace
         /\ q.worker = r.worker
         /\ q.turn = r.turn
         /\ q.attached = r.attached
         /\ q.turns = r.turns
         /\ q.listed = r.listed
         /\ q.settled = r.settled
         /\ q.ends = [r.ends EXCEPT ![who] = "settle"]
BY DEF RunRecords, NotedBy, Stages, Snapshots

LEMMA RunOver ==
  ASSUME NEW r \in RunRecords, NEW who \in Enders
  PROVE  LET q == OverBy(who, r) IN
         /\ q \in RunRecords
         /\ q.attempt = r.attempt
         /\ q.view = r.view
         /\ q.stopping = r.stopping
         /\ q.handoff = r.handoff
         /\ q.managed = r.managed
         /\ q.workspace = r.workspace
         /\ q.worker = r.worker
         /\ q.turn = r.turn
         /\ q.attached = r.attached
         /\ q.turns = r.turns
         /\ q.listed = FALSE
         /\ q.settled = TRUE
         /\ q.ends = [r.ends EXCEPT ![who] = "done"]
BY DEF RunRecords, OverBy, Settled, Stages, Snapshots

LEMMA RunClosed ==
  ASSUME NEW r \in RunRecords, NEW who \in Enders, NEW s \in Snapshots
  PROVE  LET q == ClosedBy(who, r, s) IN
         /\ q \in RunRecords
         /\ q.attempt = s
         /\ q.view = r.view
         /\ q.stopping = r.stopping
         /\ q.handoff = r.handoff
         /\ q.managed = r.managed
         /\ q.workspace = r.workspace
         /\ q.worker = r.worker
         /\ q.turn = r.turn
         /\ q.attached = r.attached
         /\ q.turns = r.turns
         /\ q.listed = FALSE
         /\ q.settled = TRUE
         /\ q.ends = [r.ends EXCEPT ![who] = "done"]
BY DEF RunRecords, ClosedBy, Settled, Stages, Snapshots

LEMMA JobGoto ==
  ASSUME NEW j \in JobRecords, NEW p \in Pcs
  PROVE  LET q == [j EXCEPT !.pc = p] IN
         /\ q \in JobRecords
         /\ q.kind = j.kind
         /\ q.pc = p
         /\ q.reason = j.reason
         /\ q.take = j.take
         /\ q.from = j.from
         /\ q.attempt = j.attempt
         /\ q.view = j.view
         /\ q.write = j.write
         /\ q.snapshot = j.snapshot
         /\ q.space = j.space
         /\ q.next = j.next
<1>1. "append" \in Pcs
  BY DEF Pcs
<1> QED
  BY <1>1 DEF JobRecords

LEMMA SnapStatus ==
  ASSUME NEW s \in Snapshots, NEW x \in Live \cup Terminal \cup {"paused"}
  PROVE  LET q == [s EXCEPT !.status = x] IN
         /\ q \in Snapshots
         /\ q.task = s.task
         /\ q.sequence = s.sequence
         /\ q.status = x
         /\ q.controller = s.controller
         /\ q.session = s.session
BY DEF Snapshots

LEMMA SnapStream ==
  ASSUME NEW s \in Snapshots
  PROVE  LET q == [s EXCEPT !.status = "streaming_turn", !.session = TRUE] IN
         /\ q \in Snapshots
         /\ q.task = s.task
         /\ q.sequence = s.sequence
         /\ q.status = "streaming_turn"
         /\ q.controller = s.controller
         /\ q.session = TRUE
BY DEF Snapshots, Live

LEMMA SnapResumed ==
  ASSUME NEW s \in Snapshots
  PROVE  LET q == [s EXCEPT !.status = "launching_agent", !.controller = "symphoneer"] IN
         /\ q \in Snapshots
         /\ q.task = s.task
         /\ q.sequence = s.sequence
         /\ q.status = "launching_agent"
         /\ q.controller = "symphoneer"
         /\ q.session = s.session
BY DEF Snapshots, Live

LEMMA SnapControl ==
  ASSUME NEW s \in Snapshots, NEW c \in {"symphoneer", "codex"}
  PROVE  LET q == [s EXCEPT !.controller = c] IN
         /\ q \in Snapshots
         /\ q.task = s.task
         /\ q.sequence = s.sequence
         /\ q.status = s.status
         /\ q.controller = c
         /\ q.session = s.session
BY DEF Snapshots
-----------------------------------------------------------------------------
(* Types *)

\* None is none of the values a table holds beside it.
LEMMA NoneApart ==
  /\ None \notin Snapshots /\ None \notin RetryRecords /\ None \notin RunRecords
  /\ None \notin JobRecords /\ None \notin AllViews /\ None \notin AttemptIds /\ None \notin Tasks
  /\ None # "ready" /\ None # "retained"
BY AgentNone

\* What the types say of a job and of its run.
LEMMA JobTyped ==
  ASSUME Typed, NEW t \in Tasks, jobs[t] # None
  PROVE  /\ jobs[t] \in JobRecords /\ JobShape(jobs[t])
         /\ jobs[t].attempt # None =>
              /\ jobs[t].attempt \in AttemptIds /\ RunOf(t) \in RunRecords
              /\ attempts[jobs[t].attempt] \in Snapshots \cup {None}
<1>1. jobs[t] \in JobRecords /\ JobShape(jobs[t]) /\ (jobs[t].attempt # None => runs[jobs[t].attempt] # None)
  BY DEF Typed, JobsTyped
<1>2. jobs[t].attempt \in AttemptIds \cup {None}
  BY <1>1 DEF JobRecords
<1> QED
  BY <1>1, <1>2 DEF Typed, RunsTyped, SchedulerTyped, RunOf

\* Runs are never forgotten but by a restart.
RunsStay == \A b \in AttemptIds : runs[b] # None => runs'[b] # None

LEMMA RunSet ==
  ASSUME Typed, NEW a \in AttemptIds, NEW r \in RunRecords, runs' = [runs EXCEPT ![a] = r]
  PROVE  RunsTyped' /\ RunsStay /\ runs'[a] = r
BY NoneApart DEF Typed, RunsTyped, RunsStay

LEMMA RunsSame ==
  ASSUME Typed, runs' = runs
  PROVE  RunsTyped' /\ RunsStay
BY DEF Typed, RunsTyped, RunsStay

LEMMA JobsSame ==
  ASSUME Typed, RunsStay, jobs' = jobs
  PROVE  JobsTyped'
<1>1. ASSUME NEW t \in Tasks, jobs[t] # None
      PROVE  JobShape(jobs[t]) /\ (jobs[t].attempt # None => runs'[jobs[t].attempt] # None)
  BY <1>1, JobTyped DEF RunsStay, Typed, JobsTyped
<1> QED
  BY <1>1 DEF Typed, JobsTyped, JobShape

LEMMA JobSet ==
  ASSUME Typed, RunsStay, NEW t \in Tasks, NEW j \in JobRecords \cup {None},
         j # None => JobShape(j) /\ (j.attempt # None => runs'[j.attempt] # None),
         jobs' = [jobs EXCEPT ![t] = j]
  PROVE  JobsTyped'
<1>1. jobs' \in [Tasks -> JobRecords \cup {None}]
  BY DEF Typed, JobsTyped
<1>2. ASSUME NEW u \in Tasks, jobs'[u] # None
      PROVE  JobShape(jobs'[u]) /\ (jobs'[u].attempt # None => runs'[jobs'[u].attempt] # None)
  <2>1. CASE u = t
    BY <1>2, <2>1 DEF Typed, JobsTyped
  <2>2. CASE u # t
    <3>1. jobs'[u] = jobs[u]
      BY <2>2 DEF Typed, JobsTyped
    <3> QED
      BY <1>2, <3>1, JobTyped DEF RunsStay, Typed, JobsTyped
  <2> QED
    BY <2>1, <2>2
<1> QED
  BY <1>1, <1>2 DEF JobsTyped, JobShape

LEMMA TickSame ==
  ASSUME Typed, RunsStay, tick' = tick
  PROVE  tick' \in TickRecords \cup {Idle} /\ TickShape'
<1>1. Where(tick) = "ending" => tick.attempt # None /\ runs'[tick.attempt] # None
  <2>1. HAVE Where(tick) = "ending"
  <2>2. tick \in TickRecords
    BY <2>1 DEF Typed, RestTyped, Where, Idle
  <2>3. tick.attempt \in AttemptIds \cup {None}
    BY <2>2 DEF TickRecords
  <2> QED
    BY <2>1, <2>3 DEF Typed, RestTyped, TickShape, RunsStay
<1> QED
  BY <1>1 DEF Typed, RestTyped, TickShape, Where

LEMMA CommandSame ==
  ASSUME Typed, RunsStay, command' = command, scenario' = scenario
  PROVE  command' \in CommandRecords \cup {Idle} /\ CommandShape'
<1>1. command.pc \in {"pausing", "handoff"} => command.attempt # None /\ runs'[command.attempt] # None
  <2>1. HAVE command.pc \in {"pausing", "handoff"}
  <2>2. command \in CommandRecords
    BY <2>1 DEF Typed, RestTyped, Idle
  <2>3. command.attempt \in AttemptIds \cup {None}
    BY <2>2 DEF CommandRecords
  <2> QED
    BY <2>1, <2>3 DEF Typed, RestTyped, CommandShape, RunsStay
<1> QED
  BY <1>1 DEF Typed, RestTyped, CommandShape

LEMMA HeadStays ==
  ASSUME Typed, NEW p \in Tasks \cup {"tick", "command"}, lock' = Append(lock, p), NEW q, Holds(q)
  PROVE  Holds(q)'
BY DEF Typed, RestTyped, Holds

LEMMA SectionStays ==
  ASSUME Typed, command' = command,
         lock' = lock \/ \E p \in Tasks \cup {"tick", "command"} : lock' = Append(lock, p)
  PROVE  InSection'
<1>1. CASE lock' = lock
  BY <1>1 DEF Typed, RestTyped, InSection, Holds
<1>2. ASSUME NEW p \in Tasks \cup {"tick", "command"}, lock' = Append(lock, p)
      PROVE  InSection'
  BY <1>2, HeadStays DEF Typed, RestTyped, InSection
<1> QED
  BY <1>1, <1>2

\* Who leaves the critical section is not a command.
LEMMA SectionLeft ==
  ASSUME Typed, command' = command, NEW p, p # "command", Holds(p), lock' = Tail(lock)
  PROVE  InSection'
BY DEF Typed, RestTyped, InSection, Holds

\* Nobody but the scheduler, the tick, commands and the shutdown changes what they keep.
LEMMA RestSame ==
  ASSUME Typed, RunsStay, UNCHANGED <<command, tick, shutdown, scenario>>,
         lock' = lock \/ \E t \in Tasks : lock' = Append(lock, t)
  PROVE  RestTyped'
<1>1. lock' \in Seq(Tasks \cup {"tick", "command"})
  BY DEF Typed, RestTyped
<1>2. shutdown' \in Shutdowns
  BY DEF Typed, RestTyped
<1> QED
  BY <1>1, <1>2, TickSame, CommandSame, SectionStays DEF RestTyped

-----------------------------------------------------------------------------
(* How a job moves.  A job that owns an Attempt changes itself, the run of the Attempt and *)
(* at most that entry of the index.                                                        *)

Same(s, r) == s.task = r.task /\ s.sequence = r.sequence

\* In this world an Attempt that is paused is in the hands of Codex, and one that runs is not.
OkSnap(s) == (s.status = "paused" => s.controller = "codex") /\ (s.controller = "codex" => s.status \notin Live)

\* The shutdown has not reached the runs.
Awake == shutdown.pc \in {"idle", "tick"}

Driving == {"install", "prompt", "open", "turn", "consume", "reread"}
Free(r) == r.listed /\ ~r.stopping /\ ~r.settled

\* The job is on its way to another Turn.
Drives(j) == Where(j) \in Driving \/ (Where(j) = "decide" /\ j.view = "eligible")

\* A job j with its run r and the Attempt s in the scheduler: while it drives, nobody has ended
\* the Attempt or, before a stop, the run.
JobOk(j, r, s, open) ==
  /\ Drives(j) => s.status \in Live /\ r.view = "eligible" /\ (open => Free(r))
  /\ Where(j) = "decide" => j.view = r.view
  /\ Where(j) = "handoff" => r.handoff
  /\ r.attempt.controller = "codex" => j.pc = "handoff"
  /\ j.pc = "append" /\ j.write = "attempt" =>
       Same(j.snapshot, r.attempt) /\ OkSnap(j.snapshot) /\ j.snapshot.status # "paused"

Owns(j, a) == j # None /\ j.attempt = a

\* A worker is open while, before a stop, nobody has got beyond halting the run, its job included.
WorkerOk(a, r, j, open) ==
  open /\ r.worker = "open" =>
    /\ ~r.settled
    /\ \A who \in Enders : r.ends[who] \in {"none", "halt"}
    /\ Owns(j, a) => Where(j) \notin {"retain", "retained", "finish", "settle", "failed"}

\* A run r of the Attempt a, with the job j of its Task, the Attempt s in the scheduler and what
\* the log says last of the workspace.
RunOk(a, r, j, s, last, open) ==
  /\ OkSnap(r.attempt)
  /\ r.listed /\ ~r.stopping => Owns(j, a)
  /\ r.turn = "open" => Owns(j, a) /\ Where(j) = "consume"
  /\ r.workspace = "retained" /\ s.status \in Live =>
       last # "none" \/ (Owns(j, a) /\ Where(j) \in {"finish", "failed"})
  /\ r.stopping <=> \E who \in Enders : r.ends[who] # "none"
  /\ r.ends["command"] = "none"
  /\ r.ends["stop"] # "none" => ~open
  /\ r.ends["tick"] # "none" => s.status \in Terminal
  /\ r.ends["job"] \in {"halt", "retained", "status"} => Owns(j, a) /\ j.pc \in {"handoff", "interrupt"}
  /\ r.ends["job"] = "status" => r.workspace = "retained"
  /\ s.status = "paused" => ~r.listed
  /\ s.controller = "codex" => s.status = "paused"
  /\ r.attempt.controller = "codex" => s.status = "paused" /\ r.ends["job"] = "done"
  /\ WorkerOk(a, r, j, open)

\* What the job j of an Attempt a becomes, and the run r.
TypedMove(j, a, r) ==
  /\ r \in RunRecords
  /\ j \in JobRecords \cup {None}
  /\ j # None => j.attempt = a /\ JobShape(j)

RightMove(j, a, r, s, j2, r2, s2, last, open) ==
  /\ Same(r2.attempt, r.attempt)
  /\ j2 # None => JobOk(j2, r2, s2, open) /\ j2.kind = j.kind
  /\ RunOk(a, r2, j2, s2, last, open)

Right(j, a, r, s, last, open) ==
  /\ j.kind = "run" /\ JobOk(j, r, s, open) /\ RunOk(a, r, j, s, last, open)
  /\ s \in Snapshots /\ OkSnap(s) /\ Same(s, r.attempt)

\* Nothing moves but a job, its run, their records and the scheduler.
Elsewhere == UNCHANGED <<tracker, projection, logged, schedulerUp, claims, command, tick, shutdown, bounds>>

\* The Attempt of the job of t goes on or ends in the scheduler; its retry is queued at its end.
SchedulerMove(t, a) ==
  \/ UNCHANGED <<attempts, retries>>
  \/ /\ attempts[a] \in Snapshots /\ attempts[a].status \in Live
     /\ attempts' = [attempts EXCEPT ![a] = attempts'[a]]
     /\ attempts'[a] \in Snapshots /\ Same(attempts'[a], attempts[a])
     /\ attempts'[a].controller = attempts[a].controller
     /\ attempts'[a].status \in Live \cup Terminal
     /\ \/ attempts'[a].status \in Live /\ retries' = retries
        \/ /\ attempts'[a].status \in Terminal
           /\ retries' = [retries EXCEPT ![t] = retries'[t]]
           /\ retries'[t] \in RetryRecords

Before(t, a) == Right(jobs[t], a, runs[a], attempts[a], logged[t].last, Awake)
After(t, a) ==
  RightMove(jobs[t], a, runs[a], attempts[a], jobs'[t], runs'[a], attempts'[a], logged[t].last, Awake)

\* The job of t, its run and its records move.
JobMove(t, a) ==
  /\ jobs[t] # None /\ jobs[t].attempt = a /\ a # None
  /\ jobs' = [jobs EXCEPT ![t] = jobs'[t]]
  /\ runs' = [runs EXCEPT ![a] = runs'[a]]
  /\ index' = index \/ (index' = [index EXCEPT ![a] = runs'[a].attempt] /\ runs'[a].attempt.status # "paused")
  /\ lock' = lock \/ lock' = Append(lock, t)
  /\ Elsewhere
  /\ SchedulerMove(t, a)
  /\ TypedMove(jobs'[t], a, runs'[a])
  /\ Before(t, a) => After(t, a)

LEMMA MoveIs ==
  ASSUME Typed, NEW t \in Tasks, jobs[t] # None, NEW a \in AttemptIds, jobs[t].attempt = a,
         NEW j, NEW r, TypedMove(j, a, r),
         jobs' = [jobs EXCEPT ![t] = j], runs' = [runs EXCEPT ![a] = r],
         index' = index \/ (index' = [index EXCEPT ![a] = r.attempt] /\ r.attempt.status # "paused"),
         lock' = lock \/ lock' = Append(lock, t), Elsewhere, SchedulerMove(t, a),
         Before(t, a) =>
           RightMove(jobs[t], a, runs[a], attempts[a], j, r, attempts'[a], logged[t].last, Awake)
  PROVE  JobMove(t, a)
<1>1. jobs'[t] = j /\ runs'[a] = r
  BY DEF Typed, JobsTyped, RunsTyped
<1>2. a # None
  BY NoneApart
<1> QED
  BY <1>1, <1>2 DEF JobMove, After

\* A job that stays with its run as it is.
LEMMA RunSelf ==
  ASSUME Typed, NEW a \in AttemptIds
  PROVE  runs = [runs EXCEPT ![a] = runs[a]] /\ attempts = [attempts EXCEPT ![a] = attempts[a]]
BY DEF Typed, RunsTyped, SchedulerTyped

-----------------------------------------------------------------------------
(* The ways a job moves *)

\* The step leaves the scheduler and everything else alone.
Alone == Elsewhere /\ UNCHANGED <<attempts, retries>>

\* What is right of the run r and the job j when the scheduler does nothing.
Fits(t, a, j, r) ==
  Before(t, a) => RightMove(jobs[t], a, runs[a], attempts[a], j, r, attempts[a], logged[t].last, Awake)

LEMMA LeaveMove ==
  ASSUME Typed, NEW t \in Tasks, NEW a \in AttemptIds, jobs[t] # None, jobs[t].attempt = a,
         Alone, UNCHANGED <<index, lock>>,
         NEW r \in RunRecords, runs' = [runs EXCEPT ![a] = r], End(t), Fits(t, a, None, r)
  PROVE  JobMove(t, a)
<1>1. TypedMove(None, a, r)
  BY DEF TypedMove
<1>2. jobs' = [jobs EXCEPT ![t] = None] /\ Elsewhere /\ SchedulerMove(t, a)
  BY DEF End, Alone, SchedulerMove
<1>3. attempts'[a] = attempts[a]
  BY DEF Alone
<1> QED
  BY <1>1, <1>2, <1>3, MoveIs DEF Fits

LEMMA GotoMove ==
  ASSUME Typed, NEW t \in Tasks, NEW a \in AttemptIds, jobs[t] # None, jobs[t].attempt = a,
         Alone, UNCHANGED <<index, lock>>,
         NEW r \in RunRecords, runs' = [runs EXCEPT ![a] = r],
         NEW p \in Pcs, p \notin Early \cup {"append"}, Goto(t, p), Fits(t, a, [jobs[t] EXCEPT !.pc = p], r)
  PROVE  JobMove(t, a)
<1> DEFINE j == [jobs[t] EXCEPT !.pc = p]
<1>1. jobs[t] \in JobRecords /\ JobShape(jobs[t])
  BY JobTyped
<1>2. j \in JobRecords /\ j.attempt = a /\ j.pc = p /\ j.kind = jobs[t].kind /\ j.from = jobs[t].from
  BY <1>1, JobGoto
<1>3. jobs' = [jobs EXCEPT ![t] = j]
  BY DEF Goto, Typed, JobsTyped
<1> HIDE DEF j
<1>4. JobShape(j)
  <2>1. p # "end"
    BY DEF Pcs
  <2> QED
    BY <1>1, <1>2, <2>1, NoneApart DEF JobShape, Where, Early
<1>5. TypedMove(j, a, r)
  BY <1>2, <1>4 DEF TypedMove
<1>6. Elsewhere /\ SchedulerMove(t, a) /\ attempts'[a] = attempts[a]
  BY DEF Alone, SchedulerMove
<1>7. Before(t, a) => RightMove(jobs[t], a, runs[a], attempts[a], j, r, attempts'[a], logged[t].last, Awake)
  BY <1>6 DEF Fits, j
<1> QED
  BY <1>3, <1>5, <1>6, <1>7, MoveIs

Writes == {"event", "attempt", "task", "retained", "unreserved"}

\* What a job becomes that waits for its place in the FIFO.
Writing(j, w, p) == [j EXCEPT !.pc = "append", !.write = w, !.next = p]
WritingTask(j, p, v) == [j EXCEPT !.pc = "append", !.write = "task", !.next = p, !.view = v]

LEMMA RecordIs ==
  ASSUME NEW j \in JobRecords, NEW w \in Writes, NEW p \in Pcs
  PROVE  LET q == Writing(j, w, p) IN
         /\ q \in JobRecords /\ q # None
         /\ q.attempt = j.attempt /\ q.pc = "append" /\ q.next = p /\ q.write = w /\ q.kind = j.kind
         /\ q.view = j.view /\ q.from = j.from
<1>1. "append" \in Pcs
  BY DEF Pcs
<1>2. p \in Pcs \cup {"end"}
  OBVIOUS
<1> DEFINE q == Writing(j, w, p)
<1>3. /\ q \in JobRecords
      /\ q.attempt = j.attempt /\ q.pc = "append" /\ q.next = p /\ q.write = w /\ q.kind = j.kind
      /\ q.view = j.view /\ q.from = j.from
  BY <1>1, <1>2 DEF JobRecords, Writing, Writes
<1> QED
  BY <1>3, NoneApart

LEMMA TaskIs ==
  ASSUME NEW j \in JobRecords, NEW v \in AllViews, NEW p \in Pcs
  PROVE  LET q == WritingTask(j, p, v) IN
         /\ q \in JobRecords /\ q # None
         /\ q.attempt = j.attempt /\ q.pc = "append" /\ q.next = p /\ q.write = "task" /\ q.kind = j.kind
         /\ q.view = v /\ q.from = j.from
<1>1. "append" \in Pcs
  BY DEF Pcs
<1>2. p \in Pcs \cup {"end"}
  OBVIOUS
<1> DEFINE q == WritingTask(j, p, v)
<1>3. /\ q \in JobRecords
      /\ q.attempt = j.attempt /\ q.pc = "append" /\ q.next = p /\ q.write = "task" /\ q.kind = j.kind
      /\ q.view = v /\ q.from = j.from
  BY <1>1, <1>2 DEF JobRecords, WritingTask
<1> QED
  BY <1>3, NoneApart

LEMMA RecordMove ==
  ASSUME Typed, NEW t \in Tasks, NEW a \in AttemptIds, jobs[t] # None, jobs[t].attempt = a,
         Alone, index' = index,
         NEW r \in RunRecords, runs' = [runs EXCEPT ![a] = r],
         NEW w \in Writes, w # "attempt", NEW p \in Pcs, p \notin Early, Record(t, w, p),
         Fits(t, a, Writing(jobs[t], w, p), r)
  PROVE  JobMove(t, a)
<1> DEFINE j == Writing(jobs[t], w, p)
<1>1. jobs[t] \in JobRecords /\ JobShape(jobs[t])
  BY JobTyped
<1>2. /\ j \in JobRecords /\ j.attempt = a /\ j.pc = "append" /\ j.next = p /\ j.write = w
      /\ j.kind = jobs[t].kind /\ j.from = jobs[t].from
  BY <1>1, RecordIs
<1>3. jobs' = [jobs EXCEPT ![t] = j]
  BY DEF Record, Writing, Typed, JobsTyped
<1> HIDE DEF j
<1>4. JobShape(j)
  <2>1. p # "end"
    BY DEF Pcs
  <2> QED
    BY <1>1, <1>2, <2>1, NoneApart DEF JobShape, Where, Early
<1>5. TypedMove(j, a, r)
  BY <1>2, <1>4 DEF TypedMove
<1>6. Elsewhere /\ SchedulerMove(t, a) /\ attempts'[a] = attempts[a]
  BY DEF Alone, SchedulerMove
<1>7. Before(t, a) => RightMove(jobs[t], a, runs[a], attempts[a], j, r, attempts'[a], logged[t].last, Awake)
  BY <1>6 DEF Fits, j
<1>8. lock' = Append(lock, t)
  BY DEF Record
<1> QED
  BY <1>3, <1>5, <1>6, <1>7, <1>8, MoveIs

LEMMA TaskMove ==
  ASSUME Typed, NEW t \in Tasks, NEW a \in AttemptIds, jobs[t] # None, jobs[t].attempt = a,
         Alone, index' = index,
         NEW r \in RunRecords, runs' = [runs EXCEPT ![a] = r],
         NEW p \in Pcs, p \notin Early, RecordTask(t, p),
         Fits(t, a, WritingTask(jobs[t], p, tracker[t]), r)
  PROVE  JobMove(t, a)
<1> DEFINE j == WritingTask(jobs[t], p, tracker[t])
<1>1. jobs[t] \in JobRecords /\ JobShape(jobs[t]) /\ tracker[t] \in AllViews
  BY JobTyped DEF Typed, DataTyped
<1>2. /\ j \in JobRecords /\ j.attempt = a /\ j.pc = "append" /\ j.next = p /\ j.write = "task"
      /\ j.kind = jobs[t].kind /\ j.from = jobs[t].from
  BY <1>1, TaskIs
<1>3. jobs' = [jobs EXCEPT ![t] = j]
  BY DEF RecordTask, WritingTask, Typed, JobsTyped
<1> HIDE DEF j
<1>4. JobShape(j)
  <2>1. p # "end"
    BY DEF Pcs
  <2> QED
    BY <1>1, <1>2, <2>1, NoneApart DEF JobShape, Where, Early
<1>5. TypedMove(j, a, r)
  BY <1>2, <1>4 DEF TypedMove
<1>6. Elsewhere /\ SchedulerMove(t, a) /\ attempts'[a] = attempts[a]
  BY DEF Alone, SchedulerMove
<1>7. Before(t, a) => RightMove(jobs[t], a, runs[a], attempts[a], j, r, attempts'[a], logged[t].last, Awake)
  BY <1>6 DEF Fits, j
<1>8. lock' = Append(lock, t)
  BY DEF RecordTask
<1> QED
  BY <1>3, <1>5, <1>6, <1>7, <1>8, MoveIs

\* What a job becomes that records what its run r says of the Attempt.
Recording(j, a, r, p) ==
  [j EXCEPT !.pc = "append", !.write = "attempt", !.attempt = a, !.next = p, !.snapshot = r.attempt,
            !.space = r.workspace]

LEMMA RecordingIs ==
  ASSUME NEW j \in JobRecords, JobShape(j),
         NEW a \in AttemptIds, NEW r \in RunRecords, NEW p \in Pcs, p \notin Early
  PROVE  LET q == Recording(j, a, r, p) IN
         /\ q \in JobRecords /\ JobShape(q)
         /\ q.attempt = a /\ q.pc = "append" /\ q.next = p /\ q.write = "attempt" /\ q.snapshot = r.attempt
         /\ q.kind = j.kind /\ q.from = j.from /\ q.view = j.view /\ q.space = r.workspace
<1>1. r.attempt \in Snapshots /\ r.workspace \in {"ready", "retained"}
  BY DEF RunRecords
<1> DEFINE q == Recording(j, a, r, p)
<1>2. /\ q \in JobRecords
      /\ q.attempt = a /\ q.pc = "append" /\ q.next = p /\ q.write = "attempt" /\ q.snapshot = r.attempt
      /\ q.kind = j.kind /\ q.from = j.from /\ q.view = j.view /\ q.space = r.workspace
  <2>1. p \in Pcs \cup {"end"}
    OBVIOUS
  <2>2. "append" \in Pcs
    BY DEF Pcs
  <2> QED
    BY <1>1, <2>1, <2>2 DEF JobRecords, Recording
<1> HIDE DEF q
<1>3. p # "end"
  BY DEF Pcs
<1>4. JobShape(q)
  BY <1>1, <1>2, <1>3, NoneApart DEF JobShape, Where, Early
<1> QED
  BY <1>2, <1>4 DEF q

LEMMA AttemptMove ==
  ASSUME Typed, NEW t \in Tasks, NEW a \in AttemptIds, jobs[t] # None, jobs[t].attempt = a,
         Elsewhere, SchedulerMove(t, a),
         NEW r \in RunRecords, r.attempt.status # "paused",
         NEW p \in Pcs, p \notin Early, RecordAttempt(t, a, r, p),
         Before(t, a) => RightMove(jobs[t], a, runs[a], attempts[a], Recording(jobs[t], a, r, p), r,
                                   attempts'[a], logged[t].last, Awake)
  PROVE  JobMove(t, a)
<1> DEFINE j == Recording(jobs[t], a, r, p)
<1>1. jobs[t] \in JobRecords /\ JobShape(jobs[t])
  BY JobTyped
<1>2. j \in JobRecords /\ JobShape(j) /\ j.attempt = a
  BY <1>1, RecordingIs
<1>3. jobs' = [jobs EXCEPT ![t] = j]
  BY DEF RecordAttempt, Recording, Typed, JobsTyped
<1>4. lock' = Append(lock, t) /\ index' = [index EXCEPT ![a] = r.attempt] /\ runs' = [runs EXCEPT ![a] = r]
  BY DEF RecordAttempt
<1> HIDE DEF j
<1>5. TypedMove(j, a, r)
  BY <1>2 DEF TypedMove
<1>7. Before(t, a) => RightMove(jobs[t], a, runs[a], attempts[a], j, r, attempts'[a], logged[t].last, Awake)
  BY DEF j
<1> QED
  BY <1>3, <1>4, <1>5, <1>7, MoveIs

\* The job may leave its run to whoever ends it.
Quits(t, a) ==
  Before(t, a) =>
    /\ runs[a].turn # "open"
    /\ runs[a].workspace = "retained" /\ attempts[a].status \in Live => logged[t].last # "none"
    /\ runs[a].ends["job"] \notin {"halt", "retained", "status"}
    /\ runs[a].attempt.controller # "codex"

LEMMA QuitsAt ==
  ASSUME NEW t, NEW a, jobs[t].pc \in {"install", "prompt", "open", "turn", "reread", "decide", "retain"}
  PROVE  Quits(t, a)
BY DEF Quits, Before, Right, JobOk, RunOk, Where

\* An exception of a job whose Turn is over.
LEMMA ThrowMove ==
  ASSUME Typed, NEW t \in Tasks, NEW a \in AttemptIds, jobs[t] # None, jobs[t].attempt = a,
         Alone, UNCHANGED <<runs, index, lock>>, Throw(t),
         Quits(t, a)
  PROVE  JobMove(t, a)
<1>1. /\ jobs[t] \in JobRecords /\ runs[a] \in RunRecords /\ RunOf(t) = runs[a] /\ a # None
      /\ runs' = [runs EXCEPT ![a] = runs[a]]
  BY JobTyped, RunSelf, NoneApart DEF RunOf
<1>2. CASE jobs[t].kind = "run" => ~runs[a].stopping
  <2>1. Goto(t, "fail")
    BY <1>1, <1>2 DEF Throw
  <2> DEFINE j == [jobs[t] EXCEPT !.pc = "fail"]
  <2>2. j \in JobRecords /\ j.attempt = a /\ j.pc = "fail" /\ j.kind = jobs[t].kind
    BY <1>1, JobGoto DEF Pcs
  <2> HIDE DEF j
  <2>3. Fits(t, a, j, runs[a])
    BY <1>1, <2>2, NoneApart DEF Quits, Fits, Before, Right, RightMove, JobOk, RunOk, WorkerOk, Drives,
       Driving, Where, Owns, Same
  <2>4. "fail" \in Pcs /\ "fail" \notin Early \cup {"append"}
    BY DEF Pcs, Early
  <2> QED
    BY <1>1, <2>1, <2>3, <2>4, GotoMove DEF j
<1>3. CASE ~(jobs[t].kind = "run" => ~runs[a].stopping)
  <2>1. End(t)
    BY <1>1, <1>3 DEF Throw
  <2>2. Fits(t, a, None, runs[a])
    BY <1>1, <1>3 DEF Quits, Fits, Before, Right, RightMove, RunOk, WorkerOk, Owns, Same
  <2> QED
    BY <1>1, <2>1, <2>2, LeaveMove
<1> QED
  BY <1>2, <1>3

-----------------------------------------------------------------------------
(* The steps of a job *)

\* What the steps of a job look at.
LEMMA JobIs ==
  ASSUME Typed, NEW t \in Tasks, NEW a \in AttemptIds, jobs[t] # None, jobs[t].attempt = a
  PROVE  /\ jobs[t] \in JobRecords /\ JobShape(jobs[t]) /\ runs[a] \in RunRecords /\ RunOf(t) = runs[a]
         /\ runs[a].ends \in [Enders -> Stages] /\ runs[a].attempt \in Snapshots
         /\ runs' = runs => runs' = [runs EXCEPT ![a] = runs[a]]
         /\ runs[a] \in RunRecords
<1>1. jobs[t] \in JobRecords /\ JobShape(jobs[t]) /\ runs[a] \in RunRecords /\ RunOf(t) = runs[a]
  BY JobTyped, NoneApart DEF RunOf
<1> QED
  BY <1>1, RunSelf DEF RunRecords

LEMMA StopRunMove ==
  ASSUME Typed, NEW t \in Tasks, NEW a \in AttemptIds, jobs[t] # None, jobs[t].attempt = a, Alone, UNCHANGED <<index, lock>>,
         StopRun(t), jobs[t].pc \in {"install", "open"}
  PROVE  JobMove(t, a)
<1>1. CASE runs[a].stopping
  <2>1. End(t) /\ runs' = [runs EXCEPT ![a] = runs[a]] /\ runs[a] \in RunRecords
    BY <1>1, JobIs DEF StopRun
  <2>2. Fits(t, a, None, runs[a])
    BY <1>1 DEF Fits, Before, Right, RightMove, JobOk, RunOk, WorkerOk, Drives, Driving, Free, Where, Owns,
       Same, OkSnap, Live, Terminal, Enders
  <2> QED
    BY <2>1, <2>2, LeaveMove
<1>2. CASE ~runs[a].stopping
  <2> DEFINE j == [jobs[t] EXCEPT !.pc = "interrupt"]
             r == Stop("job", runs[a])
  <2>1. Goto(t, "interrupt") /\ runs' = [runs EXCEPT ![a] = r]
    BY <1>2, JobIs DEF StopRun
  <2>2. "interrupt" \in Pcs /\ "interrupt" \notin Early \cup {"append"} /\ "job" \in Enders
    BY DEF Pcs, Early, Enders
  <2>3. j \in JobRecords /\ j.pc = "interrupt" /\ j.attempt = a /\ j.kind = jobs[t].kind
    BY <2>2, JobIs, JobGoto
  <2>4. /\ r \in RunRecords /\ r.attempt = runs[a].attempt /\ r.listed = runs[a].listed
        /\ r.stopping = TRUE /\ r.turn = runs[a].turn /\ r.workspace = runs[a].workspace
        /\ r.ends = [runs[a].ends EXCEPT !["job"] = "halt"]
        /\ r.worker = runs[a].worker /\ r.settled = runs[a].settled
    BY <2>2, JobIs, RunStop DEF Enders
  <2> HIDE DEF j, r
  <2>5. Fits(t, a, j, r)
    BY <1>2, <2>3, <2>4, JobIs, NoneApart DEF Fits, Before, Right, RightMove, JobOk, RunOk, WorkerOk, Drives,
       Driving, Free, Where, Owns, Same, OkSnap, Live, Terminal, Enders
  <2> QED
    BY <2>1, <2>2, <2>4, <2>5, GotoMove DEF j
<1> QED
  BY <1>1, <1>2

LEMMA SetStatusMove ==
  ASSUME Typed, NEW t \in Tasks, NEW a \in AttemptIds, jobs[t] # None, jobs[t].attempt = a, Elsewhere, UNCHANGED <<attempts, retries>>,
         NEW status \in Live, NEW p \in {"prompt", "open", "turn"}, SetStatus(t, status, p),
         Before(t, a) => Drives(jobs[t]) /\ jobs[t].pc \in {"install", "prompt", "decide"}
  PROVE  JobMove(t, a)
<1>1. CASE runs[a].attempt.status \in Terminal
  <2>1. Throw(t) /\ Alone /\ UNCHANGED <<runs, index, lock>>
    BY <1>1, JobIs DEF SetStatus, Alone
  <2>2. Quits(t, a)
    BY DEF Quits, Before, Right, JobOk, RunOk, Where
  <2> QED
    BY <2>1, <2>2, ThrowMove
<1>2. CASE runs[a].attempt.status \notin Terminal
  <2> DEFINE r == [runs[a] EXCEPT !.attempt.status = status]
             j == Recording(jobs[t], a, r, p)
  <2>1. RecordAttempt(t, a, r, p) /\ SchedulerMove(t, a)
    BY <1>2, JobIs DEF SetStatus, SchedulerMove
  <2>2. /\ r \in RunRecords /\ r.listed = runs[a].listed /\ r.settled = runs[a].settled /\ r.view = runs[a].view
        /\ r.attempt = [runs[a].attempt EXCEPT !.status = status]
        /\ r.stopping = runs[a].stopping /\ r.turn = runs[a].turn /\ r.workspace = runs[a].workspace
        /\ r.ends = runs[a].ends /\ r.handoff = runs[a].handoff
    BY JobIs, RunStatus
  <2>3. /\ r.attempt.status = status /\ r.attempt.task = runs[a].attempt.task
        /\ r.attempt.sequence = runs[a].attempt.sequence /\ r.attempt.controller = runs[a].attempt.controller
    BY <2>2, JobIs DEF Snapshots
  <2>4. p \in Pcs /\ p \notin Early /\ status # "paused" /\ p \in Driving
    BY DEF Pcs, Early, Live, Driving
  <2> HIDE DEF r
  <2>5. /\ j \in JobRecords /\ j.attempt = a /\ j.pc = "append" /\ j.next = p /\ j.write = "attempt"
        /\ j.snapshot = r.attempt /\ j.kind = jobs[t].kind /\ j.view = jobs[t].view
    BY <2>2, <2>4, JobIs, RecordingIs
  <2> HIDE DEF j
  <2>6. Before(t, a) => RightMove(jobs[t], a, runs[a], attempts[a], j, r, attempts[a], logged[t].last, Awake)
    BY <2>2, <2>3, <2>4, <2>5, JobIs, NoneApart DEF Before, Right, RightMove, JobOk, RunOk, WorkerOk, Drives,
       Driving, Free, Where, Owns, Same, OkSnap, Live, Terminal, Enders
  <2>7. attempts'[a] = attempts[a]
    OBVIOUS
  <2> QED
    BY <2>1, <2>2, <2>3, <2>4, <2>6, <2>7, AttemptMove DEF j
<1> QED
  BY <1>1, <1>2

LEMMA InstallMove ==
  ASSUME Typed, NEW t \in Tasks, NEW a \in AttemptIds, jobs[t] # None, jobs[t].attempt = a, Install(t)
  PROVE  JobMove(t, a)
<1>1. jobs[t].pc = "install" /\ Alone
  BY DEF Install, At, Job, Alone, Elsewhere, scheduler, projection, bounds
<1>2. Before(t, a) => Drives(jobs[t])
  BY <1>1 DEF Drives, Driving, Where
<1>3. CASE Stopping /\ StopRun(t) /\ UNCHANGED <<index, lock>>
  BY <1>1, <1>3, StopRunMove
<1>4. CASE ~Stopping /\ SetStatus(t, "building_prompt", "prompt")
  BY <1>1, <1>2, <1>4, SetStatusMove DEF Alone, Live
<1>5. CASE Throw(t) /\ UNCHANGED <<index, lock, runs>>
  BY <1>1, <1>5, QuitsAt, ThrowMove
<1> QED
  BY <1>3, <1>4, <1>5 DEF Install

LEMMA PromptMove ==
  ASSUME Typed, NEW t \in Tasks, NEW a \in AttemptIds, jobs[t] # None, jobs[t].attempt = a, Prompt(t)
  PROVE  JobMove(t, a)
<1>1. jobs[t].pc = "prompt" /\ Alone
  BY DEF Prompt, At, Job, Alone, Elsewhere, scheduler, projection, disk, bounds
<1>2. Before(t, a) => Drives(jobs[t]) /\ jobs[t].pc \in {"install", "prompt", "decide"}
  BY <1>1 DEF Drives, Driving, Where
<1>3. PICK p \in {"prompt", "open", "turn"} : SetStatus(t, "launching_agent", p)
  BY DEF Prompt
<1>4. "launching_agent" \in Live
  BY DEF Live
<1> QED
  BY <1>1, <1>2, <1>3, <1>4, SetStatusMove DEF Alone

LEMMA OpenedMove ==
  ASSUME Typed, NEW t \in Tasks, NEW a \in AttemptIds, jobs[t] # None, jobs[t].attempt = a, Alone, UNCHANGED <<index, lock>>,
         jobs[t].pc = "open", Opened(t)
  PROVE  JobMove(t, a)
<1> DEFINE r == [runs[a] EXCEPT !.worker = "open"]
<1>1. /\ r \in RunRecords /\ r.attempt = runs[a].attempt /\ r.listed = runs[a].listed /\ r.view = runs[a].view
      /\ r.stopping = runs[a].stopping /\ r.turn = runs[a].turn /\ r.workspace = runs[a].workspace
      /\ r.ends = runs[a].ends /\ r.settled = runs[a].settled /\ r.handoff = runs[a].handoff
  BY JobIs, RunOpened
<1>2. [runs EXCEPT ![a].worker = "open"] = [runs EXCEPT ![a] = r]
  BY DEF Typed, RunsTyped
<1> HIDE DEF r
<1>3. CASE ~Stopping
  <2> DEFINE j == [jobs[t] EXCEPT !.pc = "turn"]
  <2>1. Goto(t, "turn") /\ runs' = [runs EXCEPT ![a] = r]
    BY <1>2, <1>3 DEF Opened
  <2>2. "turn" \in Pcs /\ "turn" \notin Early \cup {"append"}
    BY DEF Pcs, Early
  <2>3. j \in JobRecords /\ j.pc = "turn" /\ j.attempt = a /\ j.kind = jobs[t].kind
    BY <2>2, JobIs, JobGoto
  <2> HIDE DEF j
  <2>4. Fits(t, a, j, r)
    BY <1>1, <2>3, JobIs, NoneApart DEF Fits, Before, Right, RightMove, JobOk, RunOk, WorkerOk, Drives,
       Driving, Free, Where, Owns, Same, OkSnap, Live, Terminal, Enders
  <2> QED
    BY <1>1, <2>1, <2>2, <2>4, GotoMove DEF j
<1>4. CASE Stopping /\ runs[a].stopping
  <2>1. End(t) /\ runs' = [runs EXCEPT ![a] = r]
    BY <1>2, <1>4, JobIs DEF Opened
  <2>2. Fits(t, a, None, r)
    BY <1>1, <1>4 DEF Fits, Before, Right, RightMove, JobOk, RunOk, WorkerOk, Drives, Driving, Free, Where,
       Owns, Same, OkSnap, Live, Terminal, Enders
  <2> QED
    BY <1>1, <2>1, <2>2, LeaveMove
<1>5. CASE Stopping /\ ~runs[a].stopping
  <2> DEFINE j == [jobs[t] EXCEPT !.pc = "interrupt"]
             q == Stop("job", r)
  <2>1. Goto(t, "interrupt") /\ runs' = [runs EXCEPT ![a] = q]
    <3>1. [[runs EXCEPT ![a] = r] EXCEPT ![a] = Stop("job", @)] = [runs EXCEPT ![a] = q]
      BY DEF Typed, RunsTyped
    <3> QED
      BY <1>2, <1>5, <3>1, JobIs DEF Opened
  <2>2. "interrupt" \in Pcs /\ "interrupt" \notin Early \cup {"append"}
    BY DEF Pcs, Early
  <2>3. j \in JobRecords /\ j.pc = "interrupt" /\ j.attempt = a /\ j.kind = jobs[t].kind
    BY <2>2, JobIs, JobGoto
  <2>4. /\ q \in RunRecords /\ q.attempt = r.attempt /\ q.listed = r.listed
        /\ q.stopping = TRUE /\ q.turn = r.turn /\ q.workspace = r.workspace
        /\ q.ends = [r.ends EXCEPT !["job"] = "halt"]
        /\ q.worker = r.worker /\ q.settled = r.settled
    BY <1>1, RunStop DEF Enders
  <2> HIDE DEF j, q
  <2>5. Fits(t, a, j, q)
    BY <1>1, <1>5, <2>3, <2>4, JobIs, NoneApart DEF Fits, Before, Right, RightMove, JobOk, RunOk, WorkerOk,
       Drives, Driving, Free, Where, Owns, Same, OkSnap, Live, Terminal, Enders
  <2> QED
    BY <2>1, <2>2, <2>4, <2>5, GotoMove DEF j
<1> QED
  BY <1>3, <1>4, <1>5

LEMMA OpenMove ==
  ASSUME Typed, NEW t \in Tasks, NEW a \in AttemptIds, jobs[t] # None, jobs[t].attempt = a, Open(t) \/ Reopen(t)
  PROVE  JobMove(t, a)
<1>1. jobs[t].pc = "open" /\ Alone /\ UNCHANGED <<index, lock>>
  BY DEF Open, Reopen, At, Job, Alone, Elsewhere, scheduler, projection, disk, bounds
<1>2. StopRun(t) \/ Opened(t) \/ (Throw(t) /\ UNCHANGED runs)
  BY DEF Open, Reopen
<1> QED
  BY <1>1, <1>2, StopRunMove, OpenedMove, QuitsAt, ThrowMove

LEMMA StartTurnMove ==
  ASSUME Typed, NEW t \in Tasks, NEW a \in AttemptIds, jobs[t] # None, jobs[t].attempt = a, StartTurn(t)
  PROVE  JobMove(t, a)
<1>1. jobs[t].pc = "turn" /\ Alone /\ UNCHANGED <<index, lock>>
  BY DEF StartTurn, At, Job, Alone, Elsewhere, scheduler, projection, disk, bounds
<1>2. CASE Throw(t) /\ UNCHANGED runs
  BY <1>1, <1>2, QuitsAt, ThrowMove
<1>3. CASE ~(Throw(t) /\ UNCHANGED runs)
  <2> DEFINE r == [runs[a] EXCEPT !.turn = "open", !.attached = FALSE]
             j == [jobs[t] EXCEPT !.pc = "consume"]
  <2>1. Goto(t, "consume") /\ runs' = [runs EXCEPT ![a] = r]
    BY <1>3, JobIs DEF StartTurn
  <2>2. "consume" \in Pcs /\ "consume" \notin Early \cup {"append"}
    BY DEF Pcs, Early
  <2>3. j \in JobRecords /\ j.pc = "consume" /\ j.attempt = a /\ j.kind = jobs[t].kind
    BY <2>2, JobIs, JobGoto
  <2>4. /\ r \in RunRecords /\ r.attempt = runs[a].attempt /\ r.listed = runs[a].listed /\ r.view = runs[a].view
        /\ r.stopping = runs[a].stopping /\ r.workspace = runs[a].workspace
        /\ r.ends = runs[a].ends /\ r.settled = runs[a].settled /\ r.handoff = runs[a].handoff
    BY JobIs, RunTurn
  <2> HIDE DEF j, r
  <2>5. Fits(t, a, j, r)
    BY <1>1, <2>3, <2>4, JobIs, NoneApart DEF Fits, Before, Right, RightMove, JobOk, RunOk, WorkerOk, Drives,
       Driving, Free, Where, Owns, Same, OkSnap, Live, Terminal, Enders
  <2> QED
    BY <1>1, <2>1, <2>2, <2>4, <2>5, GotoMove DEF j
<1> QED
  BY <1>2, <1>3

LEMMA AttachMove ==
  ASSUME Typed, NEW t \in Tasks, NEW a \in AttemptIds, jobs[t] # None, jobs[t].attempt = a, Attach(t)
  PROVE  JobMove(t, a)
<1>1. jobs[t].pc = "consume" /\ Elsewhere /\ retries' = retries
  BY DEF Attach, At, Job, Alone, Elsewhere, scheduler, projection, disk, bounds
<1>2. CASE ~Scheduled(a)
  <2>1. Throw(t) /\ Alone /\ UNCHANGED <<runs, index, lock>>
    BY <1>1, <1>2 DEF Attach, Alone
  <2>2. attempts[a] \in Snapshots => attempts[a].status \notin Live
    BY <1>2, NoneApart DEF Scheduled
  <2>3. Quits(t, a)
    BY <1>1, <2>2 DEF Quits, Before, Right, JobOk, Drives, Driving, Where
  <2> QED
    BY <2>1, <2>3, ThrowMove
<1>3. CASE Scheduled(a)
  <2> DEFINE x == [attempts[a] EXCEPT !.status = "streaming_turn", !.session = TRUE]
             r == AttachedTo(runs[a], x)
             j == Recording(jobs[t], a, r, "consume")
  <2>1. attempts' = [attempts EXCEPT ![a] = x] /\ RecordAttempt(t, a, r, "consume")
    BY <1>3, JobIs DEF Attach, AttachedTo
  <2>2. attempts[a] \in Snapshots /\ attempts[a].status \in Live
    BY <1>3 DEF Scheduled, Typed, SchedulerTyped
  <2>3. /\ x \in Snapshots /\ x.task = attempts[a].task /\ x.sequence = attempts[a].sequence
        /\ x.status = "streaming_turn" /\ x.controller = attempts[a].controller
    BY <2>2, SnapStream
  <2>4. attempts'[a] = x
    BY <2>1 DEF Typed, SchedulerTyped
  <2> HIDE DEF x
  <2>5. /\ r \in RunRecords /\ r.attempt = x /\ r.listed = runs[a].listed /\ r.view = runs[a].view
        /\ r.stopping = runs[a].stopping /\ r.workspace = runs[a].workspace /\ r.turn = runs[a].turn
        /\ r.ends = runs[a].ends /\ r.settled = runs[a].settled /\ r.handoff = runs[a].handoff
    <3>1. x \in Snapshots /\ runs[a] \in RunRecords
      BY <2>3, JobIs
    <3> HIDE DEF j
    <3> QED
      BY <3>1, RunAttached
  <2> HIDE DEF r
  <2>6. "consume" \in Pcs /\ "consume" \notin Early /\ "streaming_turn" \in Live
    BY DEF Pcs, Early, Live
  <2>7. /\ j \in JobRecords /\ j.attempt = a /\ j.pc = "append" /\ j.next = "consume" /\ j.write = "attempt"
        /\ j.snapshot = r.attempt /\ j.kind = jobs[t].kind /\ j.view = jobs[t].view
    BY <2>5, <2>6, JobIs, RecordingIs
  <2> HIDE DEF j
  <2>8. Before(t, a) => RightMove(jobs[t], a, runs[a], attempts[a], j, r, attempts'[a], logged[t].last, Awake)
    BY <1>1, <2>2, <2>3, <2>4, <2>5, <2>7, JobIs, NoneApart DEF Before, Right, RightMove, JobOk, RunOk,
       WorkerOk, Drives, Driving, Free, Where, Owns, Same, OkSnap, Live, Terminal, Enders
  <2>9. SchedulerMove(t, a)
    BY <1>1, <2>1, <2>2, <2>3, <2>4, <2>6 DEF SchedulerMove, Same
  <2> QED
    BY <1>1, <2>1, <2>3, <2>5, <2>6, <2>8, <2>9, AttemptMove DEF j
<1> QED
  BY <1>2, <1>3

LEMMA ActivityMove ==
  ASSUME Typed, NEW t \in Tasks, NEW a \in AttemptIds, jobs[t] # None, jobs[t].attempt = a, Activity(t)
  PROVE  JobMove(t, a)
<1>1. jobs[t].pc = "consume" /\ Alone /\ UNCHANGED <<index, runs>> /\ Record(t, "event", "consume")
  BY DEF Activity, At, Job, Alone, Elsewhere, scheduler, projection, disk, bounds
<1> DEFINE j == Writing(jobs[t], "event", "consume")
<1>2. "consume" \in Pcs /\ "consume" \notin Early
  BY DEF Pcs, Early
<1>3. /\ j # None /\ j.pc = "append" /\ j.attempt = a /\ j.kind = jobs[t].kind /\ j.next = "consume"
      /\ j.write = "event" /\ j.view = jobs[t].view
  <2>1. jobs[t] \in JobRecords /\ "event" \in Writes
    BY JobIs DEF Writes
  <2> QED
    BY <1>2, <2>1, RecordIs
<1> HIDE DEF j
<1>5. Fits(t, a, j, runs[a])
  BY <1>1, <1>3, JobIs DEF Fits, Before, Right, RightMove, JobOk, RunOk, WorkerOk, Drives, Driving, Free,
     Where, Owns, Same, OkSnap, Live, Terminal, Enders
<1> QED
  BY <1>1, <1>2, <1>5, JobIs, RecordMove DEF j, Writes

LEMMA TurnOverMove ==
  ASSUME Typed, NEW t \in Tasks, NEW a \in AttemptIds, jobs[t] # None, jobs[t].attempt = a, TurnOver(t)
  PROVE  JobMove(t, a)
<1>1. /\ jobs[t].pc = "consume" /\ Alone /\ index' = index /\ runs[a].turn # "open"
  BY JobIs DEF TurnOver, At, Job, Alone, Elsewhere, scheduler, projection, disk, bounds
<1>2. CASE runs[a].stopping /\ End(t) /\ UNCHANGED <<lock, runs>>
  <2>1. Fits(t, a, None, runs[a])
    BY <1>1, <1>2 DEF Fits, Before, Right, RightMove, JobOk, RunOk, WorkerOk, Drives, Driving, Free, Where,
       Owns, Same, OkSnap, Live, Terminal, Enders
  <2> QED
    BY <1>1, <1>2, <2>1, JobIs, LeaveMove
<1>3. CASE Throw(t) /\ UNCHANGED <<lock, runs>>
  <2>1. Quits(t, a)
    BY <1>1 DEF Quits, Before, Right, JobOk, RunOk, Where
  <2> QED
    BY <1>1, <1>3, <2>1, ThrowMove
<1>4. CASE /\ runs' = [runs EXCEPT ![a].turns = @ + 1]
           /\ Record(t, "event", "reread") \/ (Goto(t, "reread") /\ UNCHANGED lock)
  <2> DEFINE r == [runs[a] EXCEPT !.turns = @ + 1]
  <2>1. runs' = [runs EXCEPT ![a] = r]
    BY <1>4 DEF Typed, RunsTyped
  <2>2. /\ r \in RunRecords /\ r.attempt = runs[a].attempt /\ r.listed = runs[a].listed /\ r.view = runs[a].view
        /\ r.stopping = runs[a].stopping /\ r.workspace = runs[a].workspace /\ r.turn = runs[a].turn
        /\ r.ends = runs[a].ends /\ r.settled = runs[a].settled /\ r.handoff = runs[a].handoff
    BY JobIs, RunTurns
  <2> HIDE DEF r
  <2>3. "reread" \in Pcs /\ "reread" \notin Early \cup {"append"}
    BY DEF Pcs, Early
  <2>4. CASE Record(t, "event", "reread")
    <3> DEFINE j == Writing(jobs[t], "event", "reread")
    <3>1. /\ j # None /\ j.pc = "append" /\ j.attempt = a /\ j.kind = jobs[t].kind /\ j.next = "reread"
          /\ j.write = "event" /\ j.view = jobs[t].view
      <4>1. jobs[t] \in JobRecords /\ "event" \in Writes
        BY JobIs DEF Writes
      <4> QED
        BY <2>3, <4>1, RecordIs
    <3> HIDE DEF j
    <3>2. Fits(t, a, j, r)
      BY <1>1, <2>2, <3>1, JobIs DEF Fits, Before, Right, RightMove, JobOk, RunOk, WorkerOk, Drives, Driving,
         Free, Where, Owns, Same, OkSnap, Live, Terminal, Enders
    <3> QED
      BY <1>1, <2>1, <2>2, <2>3, <2>4, <3>2, RecordMove DEF j, Writes
  <2>5. CASE Goto(t, "reread") /\ UNCHANGED lock
    <3> DEFINE j == [jobs[t] EXCEPT !.pc = "reread"]
    <3>1. j \in JobRecords /\ j # None /\ j.pc = "reread" /\ j.attempt = a /\ j.kind = jobs[t].kind
      BY <2>3, JobIs, JobGoto, NoneApart
    <3> HIDE DEF j
    <3>2. Fits(t, a, j, r)
      BY <1>1, <2>2, <3>1, JobIs DEF Fits, Before, Right, RightMove, JobOk, RunOk, WorkerOk, Drives, Driving,
         Free, Where, Owns, Same, OkSnap, Live, Terminal, Enders
    <3> QED
      BY <1>1, <2>1, <2>2, <2>3, <2>5, <3>2, GotoMove DEF j
  <2> QED
    BY <1>4, <2>4, <2>5
<1> QED
  BY <1>2, <1>3, <1>4, JobIs DEF TurnOver

LEMMA RereadMove ==
  ASSUME Typed, NEW t \in Tasks, NEW a \in AttemptIds, jobs[t] # None, jobs[t].attempt = a, Reread(t)
  PROVE  JobMove(t, a)
<1>1. jobs[t].pc = "reread" /\ Alone /\ index' = index
  BY DEF Reread, At, Job, Alone, Elsewhere, scheduler, projection, disk, bounds
<1>2. CASE runs[a].attempt.status = "paused" /\ End(t) /\ UNCHANGED <<lock, runs>>
  <2>1. Fits(t, a, None, runs[a])
    BY <1>1, <1>2 DEF Fits, Before, Right, RightMove, JobOk, RunOk, Drives, Driving, Free, Where, Owns, Same,
       OkSnap, Live, Terminal, Enders
  <2> QED
    BY <1>1, <1>2, <2>1, JobIs, LeaveMove
<1>3. CASE runs[a].handoff /\ Goto(t, "handoff") /\ runs' = [runs EXCEPT ![a] = Stop("job", @)] /\ UNCHANGED lock
  <2> DEFINE j == [jobs[t] EXCEPT !.pc = "handoff"]
             r == Stop("job", runs[a])
  <2>1. Goto(t, "handoff") /\ runs' = [runs EXCEPT ![a] = r]
    BY <1>3
  <2>2. "handoff" \in Pcs /\ "handoff" \notin Early \cup {"append"}
    BY DEF Pcs, Early
  <2>3. j \in JobRecords /\ j.pc = "handoff" /\ j.attempt = a /\ j.kind = jobs[t].kind
    BY <2>2, JobIs, JobGoto
  <2>4. /\ r \in RunRecords /\ r.attempt = runs[a].attempt /\ r.listed = runs[a].listed
        /\ r.stopping = TRUE /\ r.turn = runs[a].turn /\ r.workspace = runs[a].workspace
        /\ r.ends = [runs[a].ends EXCEPT !["job"] = "halt"] /\ r.handoff = runs[a].handoff
        /\ r.worker = runs[a].worker /\ r.settled = runs[a].settled
    BY JobIs, RunStop DEF Enders
  <2> HIDE DEF j, r
  <2>6. /\ r.ends["job"] = "halt" /\ r.ends["command"] = runs[a].ends["command"]
        /\ r.ends["stop"] = runs[a].ends["stop"] /\ r.ends["tick"] = runs[a].ends["tick"]
        /\ \E who \in Enders : r.ends[who] # "none"
    BY <2>4, JobIs DEF Enders
  <2>5. Fits(t, a, j, r)
    BY <1>1, <1>3, <2>3, <2>4, <2>6, JobIs, NoneApart DEF Fits, Before, Right, RightMove, JobOk, RunOk,
       WorkerOk, Drives, Driving, Free, Where, Owns, Same, OkSnap, Live, Terminal, Enders
  <2> QED
    BY <1>1, <1>3, <2>1, <2>2, <2>4, <2>5, GotoMove DEF j
<1>4. CASE RecordTask(t, "decide") /\ runs' = [runs EXCEPT ![a].view = tracker[t]]
  <2> DEFINE r == [runs[a] EXCEPT !.view = tracker[t]]
             j == WritingTask(jobs[t], "decide", tracker[t])
  <2>1. runs' = [runs EXCEPT ![a] = r]
    BY <1>4 DEF Typed, RunsTyped
  <2>2. tracker[t] \in AllViews
    BY DEF Typed, DataTyped
  <2>3. /\ r \in RunRecords /\ r.attempt = runs[a].attempt /\ r.listed = runs[a].listed /\ r.view = tracker[t]
        /\ r.stopping = runs[a].stopping /\ r.workspace = runs[a].workspace /\ r.turn = runs[a].turn
        /\ r.ends = runs[a].ends /\ r.settled = runs[a].settled /\ r.handoff = runs[a].handoff
    BY <2>2, JobIs, RunView
  <2>5. "decide" \in Pcs /\ "decide" \notin Early
    BY DEF Pcs, Early
  <2>4. /\ j # None /\ j.pc = "append" /\ j.attempt = a /\ j.kind = jobs[t].kind /\ j.next = "decide"
        /\ j.write = "task" /\ j.view = tracker[t]
    <3>1. jobs[t] \in JobRecords
      BY JobIs
    <3> QED
      BY <2>2, <2>5, <3>1, TaskIs
  <2> HIDE DEF j, r
  <2>6. Fits(t, a, j, r)
    BY <1>1, <2>3, <2>4, JobIs DEF Fits, Before, Right, RightMove, JobOk, RunOk, WorkerOk, Drives, Driving,
       Free, Where, Owns, Same, OkSnap, Live, Terminal, Enders
  <2> QED
    BY <1>1, <1>4, <2>1, <2>3, <2>5, <2>6, TaskMove DEF j
<1>5. CASE Throw(t) /\ UNCHANGED <<lock, runs>>
  BY <1>1, <1>5, QuitsAt, ThrowMove
<1> QED
  BY <1>2, <1>3, <1>4, <1>5, JobIs DEF Reread

LEMMA DecideMove ==
  ASSUME Typed, NEW t \in Tasks, NEW a \in AttemptIds, jobs[t] # None, jobs[t].attempt = a, Decide(t)
  PROVE  JobMove(t, a)
<1>1. jobs[t].pc = "decide" /\ Elsewhere /\ UNCHANGED <<attempts, retries>>
  BY DEF Decide, At, Job, Alone, Elsewhere, scheduler, projection, disk, bounds
<1>2. CASE jobs[t].view = "eligible" /\ SetStatus(t, "building_prompt", "prompt")
  <2>1. Before(t, a) => Drives(jobs[t]) /\ jobs[t].pc \in {"install", "prompt", "decide"}
    BY <1>1, <1>2 DEF Drives, Where
  <2> QED
    BY <1>1, <1>2, <2>1, SetStatusMove DEF Live
<1>3. CASE Throw(t) /\ UNCHANGED <<index, lock, runs>>
  BY <1>1, <1>3, QuitsAt, ThrowMove DEF Alone
<1> DEFINE r == [runs[a] EXCEPT !.attempt.status = "finishing", !.worker = "closed"]
<1>4. CASE runs[a].attempt.status \notin Terminal /\ RecordAttempt(t, a, r, "retain")
  <2> DEFINE j == Recording(jobs[t], a, r, "retain")
  <2>2. /\ r \in RunRecords /\ r.listed = runs[a].listed /\ r.settled = runs[a].settled /\ r.view = runs[a].view
        /\ r.attempt = [runs[a].attempt EXCEPT !.status = "finishing"]
        /\ r.stopping = runs[a].stopping /\ r.turn = runs[a].turn /\ r.workspace = runs[a].workspace
        /\ r.ends = runs[a].ends /\ r.handoff = runs[a].handoff
        /\ r.worker = "closed"
    BY JobIs, RunFinishing
  <2>3. /\ r.attempt.status = "finishing" /\ r.attempt.task = runs[a].attempt.task
        /\ r.attempt.sequence = runs[a].attempt.sequence /\ r.attempt.controller = runs[a].attempt.controller
    BY <2>2, JobIs DEF Snapshots
  <2>4. "retain" \in Pcs /\ "retain" \notin Early
    BY DEF Pcs, Early
  <2> HIDE DEF r
  <2>5. /\ j \in JobRecords /\ j.attempt = a /\ j.pc = "append" /\ j.next = "retain" /\ j.write = "attempt"
        /\ j.snapshot = r.attempt /\ j.kind = jobs[t].kind /\ j.view = jobs[t].view
    <3>1. jobs[t] \in JobRecords /\ JobShape(jobs[t])
      BY JobIs
    <3> QED
      BY <2>2, <2>4, <3>1, RecordingIs
  <2> HIDE DEF j
  <2>6. Before(t, a) => RightMove(jobs[t], a, runs[a], attempts[a], j, r, attempts[a], logged[t].last, Awake)
    BY <1>1, <2>2, <2>3, <2>5, JobIs, NoneApart DEF Before, Right, RightMove, JobOk, RunOk, WorkerOk, Drives,
       Driving, Free, Where, Owns, Same, OkSnap, Live, Terminal, Enders
  <2>7. attempts'[a] = attempts[a] /\ SchedulerMove(t, a)
    BY <1>1 DEF SchedulerMove
  <2> QED
    BY <1>1, <1>4, <2>2, <2>3, <2>4, <2>6, <2>7, AttemptMove DEF j
<1> QED
  BY <1>2, <1>3, <1>4, JobIs DEF Decide

LEMMA RetainMove ==
  ASSUME Typed, NEW t \in Tasks, NEW a \in AttemptIds, jobs[t] # None, jobs[t].attempt = a, Retain(t)
  PROVE  JobMove(t, a)
<1>1. jobs[t].pc = "retain" /\ Alone /\ UNCHANGED <<index, lock>>
  BY DEF Retain, At, Job, Alone, Elsewhere, scheduler, projection, disk, bounds
<1>2. CASE Goto(t, "finish") /\ UNCHANGED runs
  <2> DEFINE j == [jobs[t] EXCEPT !.pc = "finish"]
  <2>1. "finish" \in Pcs /\ "finish" \notin Early \cup {"append"}
    BY DEF Pcs, Early
  <2>2. j \in JobRecords /\ j.pc = "finish" /\ j.attempt = a /\ j.kind = jobs[t].kind
    BY <2>1, JobIs, JobGoto
  <2> HIDE DEF j
  <2>3. Fits(t, a, j, runs[a])
    BY <1>1, <2>2, JobIs, NoneApart DEF Fits, Before, Right, RightMove, JobOk, RunOk, WorkerOk, Drives,
       Driving, Free, Where, Owns, Same, OkSnap, Live, Terminal, Enders
  <2> QED
    BY <1>1, <1>2, <2>1, <2>3, JobIs, GotoMove DEF j
<1>3. CASE runs' = [runs EXCEPT ![a].managed = "retained"] /\ Goto(t, "retained")
  <2> DEFINE j == [jobs[t] EXCEPT !.pc = "retained"]
             r == [runs[a] EXCEPT !.managed = "retained"]
  <2>1. "retained" \in Pcs /\ "retained" \notin Early \cup {"append"}
    BY DEF Pcs, Early
  <2>2. j \in JobRecords /\ j.pc = "retained" /\ j.attempt = a /\ j.kind = jobs[t].kind
    BY <2>1, JobIs, JobGoto
  <2>3. runs' = [runs EXCEPT ![a] = r]
    BY <1>3 DEF Typed, RunsTyped
  <2>4. /\ r \in RunRecords /\ r.attempt = runs[a].attempt /\ r.listed = runs[a].listed /\ r.view = runs[a].view
        /\ r.stopping = runs[a].stopping /\ r.workspace = runs[a].workspace /\ r.turn = runs[a].turn
        /\ r.ends = runs[a].ends /\ r.settled = runs[a].settled /\ r.handoff = runs[a].handoff
        /\ r.worker = runs[a].worker
    BY JobIs, RunManaged
  <2> HIDE DEF j, r
  <2>5. Fits(t, a, j, r)
    BY <1>1, <2>2, <2>4, JobIs, NoneApart DEF Fits, Before, Right, RightMove, JobOk, RunOk, WorkerOk, Drives,
       Driving, Free, Where, Owns, Same, OkSnap, Live, Terminal, Enders
  <2> QED
    BY <1>1, <1>3, <2>1, <2>3, <2>4, <2>5, GotoMove DEF j
<1>4. CASE Throw(t) /\ UNCHANGED runs
  BY <1>1, <1>4, QuitsAt, ThrowMove
<1> QED
  BY <1>2, <1>3, <1>4, JobIs DEF Retain

LEMMA RetainedMove ==
  ASSUME Typed, NEW t \in Tasks, NEW a \in AttemptIds, jobs[t] # None, jobs[t].attempt = a, Retained(t)
  PROVE  JobMove(t, a)
<1>1. jobs[t].pc = "retained" /\ Alone /\ index' = index /\ Record(t, "retained", "finish")
  BY DEF Retained, At, Job, Alone, Elsewhere, scheduler, projection, disk, bounds
<1> DEFINE j == Writing(jobs[t], "retained", "finish")
           r == [runs[a] EXCEPT !.workspace = "retained"]
<1>2. "finish" \in Pcs /\ "finish" \notin Early /\ "retained" \in Writes /\ "retained" # "attempt"
  BY DEF Pcs, Early, Writes
<1>3. runs' = [runs EXCEPT ![a] = r]
  BY JobIs DEF Retained, Typed, RunsTyped
<1>4. /\ r \in RunRecords /\ r.attempt = runs[a].attempt /\ r.listed = runs[a].listed /\ r.view = runs[a].view
      /\ r.stopping = runs[a].stopping /\ r.workspace = "retained" /\ r.turn = runs[a].turn
      /\ r.ends = runs[a].ends /\ r.settled = runs[a].settled /\ r.handoff = runs[a].handoff
      /\ r.worker = runs[a].worker
  BY JobIs, RunWorkspace
<1> HIDE DEF r
<1>5. jobs[t] \in JobRecords
  BY JobIs
<1>6. /\ j # None /\ j.pc = "append" /\ j.attempt = a /\ j.kind = jobs[t].kind /\ j.next = "finish"
      /\ j.write = "retained" /\ j.view = jobs[t].view
  BY <1>2, <1>5, RecordIs
<1> HIDE DEF j
<1>7. Fits(t, a, j, r)
  BY <1>1, <1>4, <1>6, JobIs DEF Fits, Before, Right, RightMove, JobOk, RunOk, WorkerOk, Drives, Driving, Free,
     Where, Owns, Same, OkSnap, Live, Terminal, Enders
<1> QED
  BY <1>1, <1>2, <1>3, <1>4, <1>7, RecordMove DEF j

LEMMA FinishAttemptMove ==
  ASSUME Typed, NEW t \in Tasks, NEW a \in AttemptIds, jobs[t] # None, jobs[t].attempt = a, Elsewhere,
         NEW status \in {"succeeded", "failed"}, FinishAttempt(t, status), jobs[t].pc \in {"finish", "failed"}
  PROVE  JobMove(t, a)
<1>1. "settle" \in Pcs /\ "settle" \notin Early /\ status \in Terminal /\ status # "paused"
      /\ status \in Live \cup Terminal \cup {"paused"}
  BY DEF Pcs, Early, Terminal
<1>2. CASE Scheduled(a)
  <2> DEFINE x == [attempts[a] EXCEPT !.status = status]
             r == [runs[a] EXCEPT !.attempt = x]
             j == Recording(jobs[t], a, r, "settle")
  <2>1. attempts' = [attempts EXCEPT ![a] = x] /\ RecordAttempt(t, a, r, "settle")
        /\ retries' = [retries EXCEPT ![t] = NextRetry(x)]
    BY <1>2, JobIs DEF FinishAttempt
  <2>2. attempts[a] \in Snapshots /\ attempts[a].status \in Live
    BY <1>2 DEF Scheduled, Typed, SchedulerTyped
  <2>3. /\ x \in Snapshots /\ x.task = attempts[a].task /\ x.sequence = attempts[a].sequence
        /\ x.status = status /\ x.controller = attempts[a].controller
    BY <1>1, <2>2 DEF Snapshots
  <2>4. attempts'[a] = x
    BY <2>1 DEF Typed, SchedulerTyped
  <2>5. NextRetry(x) \in RetryRecords /\ retries'[t] = NextRetry(x)
    <3>1. NextRetry(x) \in RetryRecords
      BY DEF NextRetry, RetryRecords
    <3> QED
      BY <2>1, <3>1 DEF Typed, SchedulerTyped
  <2> HIDE DEF x
  <2>6. /\ r \in RunRecords /\ r.attempt = x /\ r.listed = runs[a].listed /\ r.view = runs[a].view
        /\ r.stopping = runs[a].stopping /\ r.workspace = runs[a].workspace /\ r.turn = runs[a].turn
        /\ r.ends = runs[a].ends /\ r.settled = runs[a].settled /\ r.handoff = runs[a].handoff
        /\ r.worker = runs[a].worker
    <3>1. x \in Snapshots /\ runs[a] \in RunRecords
      BY <2>3, JobIs
    <3> HIDE DEF j
    <3> QED
      BY <3>1, RunSnapshot
  <2> HIDE DEF r
  <2>7. /\ j \in JobRecords /\ j.attempt = a /\ j.pc = "append" /\ j.next = "settle" /\ j.write = "attempt"
        /\ j.snapshot = r.attempt /\ j.kind = jobs[t].kind /\ j.view = jobs[t].view
    <3>1. jobs[t] \in JobRecords /\ JobShape(jobs[t])
      BY JobIs
    <3> QED
      BY <1>1, <2>6, <3>1, RecordingIs
  <2> HIDE DEF j
  <2>8. Before(t, a) => RightMove(jobs[t], a, runs[a], attempts[a], j, r, attempts'[a], logged[t].last, Awake)
    BY <1>1, <2>2, <2>3, <2>4, <2>6, <2>7, JobIs, NoneApart DEF Before, Right, RightMove, JobOk, RunOk,
       WorkerOk, Drives, Driving, Free, Where, Owns, Same, OkSnap, Live, Terminal, Enders
  <2>9. SchedulerMove(t, a)
    BY <1>1, <2>1, <2>2, <2>3, <2>4, <2>5 DEF SchedulerMove, Same
  <2> QED
    BY <1>1, <2>1, <2>3, <2>6, <2>8, <2>9, AttemptMove DEF j
<1>3. CASE ~Scheduled(a) /\ attempts[a] # None /\ attempts[a].status \in Terminal
  <2> DEFINE r == [runs[a] EXCEPT !.attempt = attempts[a]]
             j == Recording(jobs[t], a, r, "settle")
  <2>1. RecordAttempt(t, a, r, "settle") /\ UNCHANGED <<attempts, retries>>
    BY <1>3, JobIs DEF FinishAttempt
  <2>2. attempts[a] \in Snapshots /\ attempts[a].status # "paused"
    BY <1>3 DEF Terminal, Typed, SchedulerTyped
  <2>6. /\ r \in RunRecords /\ r.attempt = attempts[a] /\ r.listed = runs[a].listed /\ r.view = runs[a].view
        /\ r.stopping = runs[a].stopping /\ r.workspace = runs[a].workspace /\ r.turn = runs[a].turn
        /\ r.ends = runs[a].ends /\ r.settled = runs[a].settled /\ r.handoff = runs[a].handoff
        /\ r.worker = runs[a].worker
    <3>1. runs[a] \in RunRecords
      BY JobIs
    <3> HIDE DEF j
    <3> QED
      BY <2>2, <3>1, RunSnapshot
  <2> HIDE DEF r
  <2>7. /\ j \in JobRecords /\ j.attempt = a /\ j.pc = "append" /\ j.next = "settle" /\ j.write = "attempt"
        /\ j.snapshot = r.attempt /\ j.kind = jobs[t].kind /\ j.view = jobs[t].view
    <3>1. jobs[t] \in JobRecords /\ JobShape(jobs[t])
      BY JobIs
    <3> QED
      BY <1>1, <2>6, <3>1, RecordingIs
  <2> HIDE DEF j
  <2>8. Before(t, a) => RightMove(jobs[t], a, runs[a], attempts[a], j, r, attempts[a], logged[t].last, Awake)
    BY <1>1, <1>3, <2>2, <2>6, <2>7, JobIs, NoneApart DEF Before, Right, RightMove, JobOk, RunOk, WorkerOk,
       Drives, Driving, Free, Where, Owns, Same, OkSnap, Live, Terminal, Enders
  <2>9. SchedulerMove(t, a) /\ attempts'[a] = attempts[a]
    BY <2>1 DEF SchedulerMove
  <2> QED
    BY <1>1, <2>1, <2>2, <2>6, <2>8, <2>9, AttemptMove DEF j
<1>4. CASE ~Scheduled(a) /\ ~(attempts[a] # None /\ attempts[a].status \in Terminal)
  <2>1. Throw(t) /\ Alone /\ UNCHANGED <<runs, index, lock>>
    BY <1>4 DEF FinishAttempt, Alone
  <2>2. attempts[a] \in Snapshots => attempts[a].status \notin Live \cup Terminal
    BY <1>4, NoneApart DEF Scheduled
  <2>3. Quits(t, a)
    BY <2>2 DEF Quits, Before, Right, JobOk, RunOk, Where
  <2> QED
    BY <2>1, <2>3, ThrowMove
<1> QED
  BY <1>2, <1>3, <1>4

LEMMA FinishMove ==
  ASSUME Typed, NEW t \in Tasks, NEW a \in AttemptIds, jobs[t] # None, jobs[t].attempt = a, Finish(t)
  PROVE  JobMove(t, a)
<1>1. jobs[t].pc = "finish" /\ Elsewhere /\ FinishAttempt(t, "succeeded")
  BY DEF Finish, At, Job, Alone, Elsewhere, scheduler, projection, disk, bounds
<1> QED
  BY <1>1, FinishAttemptMove

LEMMA SettleMove ==
  ASSUME Typed, NEW t \in Tasks, NEW a \in AttemptIds, jobs[t] # None, jobs[t].attempt = a, Settle(t)
  PROVE  JobMove(t, a)
<1>1. jobs[t].pc = "settle" /\ Alone /\ UNCHANGED <<index, lock>> /\ End(t)
  BY DEF Settle, At, Job, Alone, Elsewhere, scheduler, projection, disk, bounds
<1> DEFINE r == Settled(runs[a])
<1>2. runs' = [runs EXCEPT ![a] = r]
  BY JobIs DEF Settle
<1>3. /\ r \in RunRecords /\ r.attempt = runs[a].attempt /\ r.listed = FALSE
      /\ r.stopping = runs[a].stopping /\ r.workspace = runs[a].workspace /\ r.turn = runs[a].turn
      /\ r.ends = runs[a].ends
      /\ r.worker = runs[a].worker
  BY JobIs, RunSettled
<1> HIDE DEF r
<1>4. Fits(t, a, None, r)
  BY <1>1, <1>3 DEF Fits, Before, Right, RightMove, JobOk, RunOk, WorkerOk, Drives, Driving, Free, Where, Owns,
     Same, OkSnap, Live, Terminal, Enders
<1> QED
  BY <1>1, <1>2, <1>3, <1>4, LeaveMove

LEMMA FailMove ==
  ASSUME Typed, NEW t \in Tasks, NEW a \in AttemptIds, jobs[t] # None, jobs[t].attempt = a, Fail(t)
  PROVE  JobMove(t, a)
<1>1. jobs[t].pc = "fail" /\ Alone /\ index' = index
  BY DEF Fail, At, Job, Alone, Elsewhere, scheduler, projection, disk, bounds
<1>2. "failed" \in Pcs /\ "failed" \notin Early \cup {"append"} /\ "retained" \in Writes /\ "retained" # "attempt"
  BY DEF Pcs, Early, Writes
<1>3. jobs[t] \in JobRecords /\ runs[a] \in RunRecords
  BY JobIs
<1> DEFINE p == [Halt(runs[a]) EXCEPT !.managed = "retained", !.workspace = "retained"]
           q == Halt(runs[a])
<1>4. CASE runs' = [runs EXCEPT ![a] = p] /\ Record(t, "retained", "failed")
  <2> DEFINE j == Writing(jobs[t], "retained", "failed")
  <2>1. /\ p \in RunRecords /\ p.attempt = runs[a].attempt /\ p.listed = runs[a].listed /\ p.view = runs[a].view
        /\ p.stopping = runs[a].stopping /\ p.workspace = "retained" /\ p.turn = runs[a].turn
        /\ p.ends = runs[a].ends /\ p.settled = runs[a].settled /\ p.handoff = runs[a].handoff
    BY <1>3, RunHaltKept
  <2>4. p.worker # "open"
    <3>1. p.worker = IF runs[a].worker = "open" THEN "closed" ELSE runs[a].worker
      BY <1>3, RunHaltKept
    <3> HIDE DEF p
    <3> QED
      BY <3>1
  <2> HIDE DEF p, q
  <2>2. /\ j # None /\ j.pc = "append" /\ j.attempt = a /\ j.kind = jobs[t].kind /\ j.next = "failed"
        /\ j.write = "retained" /\ j.view = jobs[t].view
    BY <1>2, <1>3, RecordIs
  <2> HIDE DEF j
  <2>3. Fits(t, a, j, p)
    BY <1>1, <2>1, <2>2, <2>4, JobIs DEF Fits, Before, Right, RightMove, JobOk, RunOk, WorkerOk, Drives,
       Driving, Free, Where, Owns, Same, OkSnap, Live, Terminal, Enders
  <2> QED
    BY <1>1, <1>2, <1>4, <2>1, <2>3, RecordMove DEF j
<1>5. CASE runs' = [runs EXCEPT ![a] = q] /\ Goto(t, "failed") /\ UNCHANGED lock
  <2> DEFINE j == [jobs[t] EXCEPT !.pc = "failed"]
  <2>1. /\ q \in RunRecords /\ q.attempt = runs[a].attempt /\ q.listed = runs[a].listed /\ q.view = runs[a].view
        /\ q.stopping = runs[a].stopping /\ q.workspace = runs[a].workspace /\ q.turn = runs[a].turn
        /\ q.ends = runs[a].ends /\ q.settled = runs[a].settled /\ q.handoff = runs[a].handoff
        /\ q.worker # "open"
    BY <1>3, RunHalt
  <2> HIDE DEF p, q
  <2>2. j \in JobRecords /\ j.pc = "failed" /\ j.attempt = a /\ j.kind = jobs[t].kind
    BY <1>2, <1>3, JobGoto
  <2> HIDE DEF j
  <2>3. Fits(t, a, j, q)
    BY <1>1, <2>1, <2>2, JobIs, NoneApart DEF Fits, Before, Right, RightMove, JobOk, RunOk, WorkerOk, Drives,
       Driving, Free, Where, Owns, Same, OkSnap, Live, Terminal, Enders
  <2> QED
    BY <1>1, <1>2, <1>5, <2>1, <2>3, GotoMove DEF j
<1> QED
  BY <1>4, <1>5, JobIs DEF Fail

LEMMA FailedMove ==
  ASSUME Typed, NEW t \in Tasks, NEW a \in AttemptIds, jobs[t] # None, jobs[t].attempt = a, Failed(t)
  PROVE  JobMove(t, a)
<1>1. jobs[t].pc = "failed" /\ Elsewhere
  BY DEF Failed, At, Job, Alone, Elsewhere, scheduler, projection, disk, bounds
<1>2. CASE FinishAttempt(t, "failed")
  BY <1>1, <1>2, FinishAttemptMove
<1>3. CASE ~(attempts[a] # None /\ attempts[a].status # "paused") /\ End(t)
           /\ UNCHANGED <<index, lock, runs, attempts, retries>>
  <2>1. Fits(t, a, None, runs[a])
    BY <1>1, <1>3, NoneApart DEF Fits, Before, Right, RightMove, JobOk, RunOk, WorkerOk, Drives, Driving, Free,
       Where, Owns, Same, OkSnap, Live, Terminal, Enders
  <2> QED
    BY <1>1, <1>3, <2>1, JobIs, LeaveMove DEF Alone
<1> DEFINE r == [runs[a] EXCEPT !.attempt.status = "failed"]
<1>4. CASE RecordAttempt(t, a, r, "settle") /\ runs[a].workspace # "retained" /\ UNCHANGED <<attempts, retries>>
  <2> DEFINE j == Recording(jobs[t], a, r, "settle")
  <2>1. "failed" \in Live \cup Terminal \cup {"paused"} /\ "failed" \notin Live
    BY DEF Live, Terminal
  <2>2. /\ r \in RunRecords /\ r.listed = runs[a].listed /\ r.settled = runs[a].settled /\ r.view = runs[a].view
        /\ r.attempt = [runs[a].attempt EXCEPT !.status = "failed"]
        /\ r.stopping = runs[a].stopping /\ r.turn = runs[a].turn /\ r.workspace = runs[a].workspace
        /\ r.ends = runs[a].ends /\ r.handoff = runs[a].handoff /\ r.worker = runs[a].worker
    BY <2>1, JobIs, RunStatus
  <2>3. /\ r.attempt.status = "failed" /\ r.attempt.task = runs[a].attempt.task
        /\ r.attempt.sequence = runs[a].attempt.sequence /\ r.attempt.controller = runs[a].attempt.controller
    BY <2>2, JobIs DEF Snapshots
  <2>4. "settle" \in Pcs /\ "settle" \notin Early
    BY DEF Pcs, Early
  <2> HIDE DEF r
  <2>5. /\ j \in JobRecords /\ j.attempt = a /\ j.pc = "append" /\ j.next = "settle" /\ j.write = "attempt"
        /\ j.snapshot = r.attempt /\ j.kind = jobs[t].kind /\ j.view = jobs[t].view
    <3>1. jobs[t] \in JobRecords /\ JobShape(jobs[t])
      BY JobIs
    <3> QED
      BY <2>2, <2>4, <3>1, RecordingIs
  <2> HIDE DEF j
  <2>6. Before(t, a) => RightMove(jobs[t], a, runs[a], attempts[a], j, r, attempts[a], logged[t].last, Awake)
    BY <1>1, <1>4, <2>2, <2>3, <2>5, JobIs, NoneApart DEF Before, Right, RightMove, JobOk, RunOk, WorkerOk,
       Drives, Driving, Free, Where, Owns, Same, OkSnap, Live, Terminal, Enders
  <2>7. attempts'[a] = attempts[a] /\ SchedulerMove(t, a)
    BY <1>4 DEF SchedulerMove
  <2> QED
    BY <1>1, <1>4, <2>2, <2>3, <2>4, <2>6, <2>7, AttemptMove DEF j
<1> QED
  BY <1>2, <1>3, <1>4, JobIs DEF Failed

LEMMA JobEndedMove ==
  ASSUME Typed, NEW t \in Tasks, NEW a \in AttemptIds, jobs[t] # None, jobs[t].attempt = a, JobEnded(t)
  PROVE  JobMove(t, a)
<1>1. jobs[t].pc \in {"handoff", "interrupt"} /\ Alone /\ UNCHANGED <<index, lock, runs>>
  BY DEF JobEnded, At, Job, Alone, Elsewhere, scheduler, projection, disk, bounds
<1>2. CASE runs[a].ends["job"] = "done" /\ End(t)
  <2>1. "job" \in Enders
    BY DEF Enders
  <2>2. Fits(t, a, None, runs[a])
    BY <1>1, <1>2, <2>1 DEF Fits, Before, Right, RightMove, JobOk, RunOk, WorkerOk, Where, Owns, Same
  <2> QED
    BY <1>1, <1>2, <2>2, JobIs, LeaveMove
<1>3. CASE runs[a].ends["job"] = "failed" /\ Throw(t)
  <2>1. Quits(t, a)
    BY <1>1, <1>3 DEF Quits, Before, Right, JobOk, RunOk, Where
  <2> QED
    BY <1>1, <1>3, <2>1, ThrowMove
<1> QED
  BY <1>2, <1>3, JobIs DEF JobEnded

-----------------------------------------------------------------------------
(* Types under every step *)

LEMMA DataSame ==
  ASSUME Typed, UNCHANGED <<scenario, drawn, given, restarts, tracker, known, recorded, index, workspaces, logged>>
  PROVE  DataTyped'
BY DEF Typed, DataTyped

LEMMA SchedulerSame ==
  ASSUME Typed, UNCHANGED <<schedulerUp, attempts, claims, retries>>
  PROVE  SchedulerTyped'
BY DEF Typed, SchedulerTyped

LEMMA Pushed ==
  ASSUME Typed, NEW p \in Tasks \cup {"tick", "command"}, lock' = Append(lock, p)
  PROVE  lock' \in Seq(Tasks \cup {"tick", "command"})
BY DEF Typed, RestTyped

LEMMA Popped ==
  ASSUME Typed, lock # <<>>, lock' = Tail(lock)
  PROVE  lock' \in Seq(Tasks \cup {"tick", "command"})
BY DEF Typed, RestTyped

LEMMA ShutdownSame ==
  ASSUME Typed, UNCHANGED shutdown
  PROVE  shutdown' \in Shutdowns
BY DEF Typed, RestTyped

LEMMA LockSame ==
  ASSUME Typed, UNCHANGED lock
  PROVE  lock' \in Seq(Tasks \cup {"tick", "command"})
BY DEF Typed, RestTyped

LEMMA IdleCommand ==
  ASSUME command' = [pc |-> "idle"]
  PROVE  command' \in CommandRecords \cup {Idle} /\ CommandShape' /\ InSection'
BY DEF CommandShape, Idle, InSection

LEMMA IdleTick ==
  ASSUME tick' = [pc |-> "idle"]
  PROVE  tick' \in TickRecords \cup {Idle} /\ TickShape'
BY DEF TickShape, Idle, Where

Reasons == {"dispatch", "retry", "force"}

\* A job that has just been launched.
LEMMA FreshJob ==
  ASSUME NEW q \in JobRecords, q.attempt = None, q.pc = "fetch", q.kind = "continue" => q.from # None
  PROVE  JobShape(q)
<1>1. "fetch" \in Early
  BY DEF Early
<1> QED
  BY <1>1 DEF JobShape, Where

LEMMA Words ==
  /\ "fetch" \in Pcs
  /\ "dispatch" \in Reasons /\ "retry" \in Reasons /\ "force" \in Reasons
  /\ "eligible" \in AllViews
BY DEF Pcs, Reasons, AllViews

LEMMA JobMoveTyped ==
  ASSUME Typed, NEW t \in Tasks, NEW a \in AttemptIds, JobMove(t, a)
  PROVE  Typed'
<1>1. /\ jobs' = [jobs EXCEPT ![t] = jobs'[t]] /\ runs' = [runs EXCEPT ![a] = runs'[a]]
      /\ TypedMove(jobs'[t], a, runs'[a]) /\ Elsewhere /\ SchedulerMove(t, a) /\ a # None
      /\ lock' = lock \/ lock' = Append(lock, t)
      /\ index' = index \/ index' = [index EXCEPT ![a] = runs'[a].attempt]
  BY DEF JobMove
<1>2. runs'[a] \in RunRecords /\ runs'[a].attempt \in Snapshots
  BY <1>1 DEF TypedMove, RunRecords
<1>3. DataTyped'
  BY <1>1, <1>2 DEF Typed, DataTyped, Elsewhere, projection, bounds
<1>4. SchedulerTyped'
  BY <1>1 DEF Typed, SchedulerTyped, Elsewhere, SchedulerMove
<1> DEFINE r == runs'[a]
           j == jobs'[t]
<1> HIDE DEF r, j
<1>5. RunsTyped' /\ RunsStay
  BY <1>1, <1>2, RunSet DEF r
<1>6. j \in JobRecords \cup {None} /\ (j # None => JobShape(j) /\ runs'[j.attempt] # None)
  BY <1>1, <1>2, NoneApart DEF TypedMove, j
<1>7. JobsTyped'
  BY <1>1, <1>5, <1>6, JobSet DEF j
<1>8. RestTyped'
  BY <1>1, <1>5, RestSame DEF Elsewhere, bounds
<1> QED
  BY <1>3, <1>4, <1>5, <1>7, <1>8 DEF Typed

\* A step that changes a job that has no Attempt, and what the log and the projection say.
LEMMA EarlyTyped ==
  ASSUME Typed, NEW t \in Tasks, NEW j \in JobRecords \cup {None}, j # None => JobShape(j) /\ j.attempt = None,
         jobs' = [jobs EXCEPT ![t] = j], lock' = lock \/ lock' = Append(lock, t),
         DataTyped', SchedulerTyped', UNCHANGED <<runs, command, tick, shutdown, scenario>>
  PROVE  Typed'
<1>1. RunsTyped' /\ RunsStay
  BY RunsSame
<1>2. JobsTyped'
  BY <1>1, JobSet
<1>3. RestTyped'
  BY <1>1, RestSame
<1> QED
  BY <1>1, <1>2, <1>3 DEF Typed

LEMMA FetchTyped ==
  ASSUME Typed, NEW t \in Tasks, Fetch(t)
  PROVE  Typed'
<1>1. /\ jobs[t] # None /\ jobs[t].pc = "fetch" /\ DataTyped' /\ SchedulerTyped'
      /\ UNCHANGED <<runs, command, tick, shutdown, scenario>>
  BY DataSame, SchedulerSame DEF Fetch, At, Job, projection, disk, scheduler, bounds
<1>2. jobs[t] \in JobRecords /\ JobShape(jobs[t]) /\ tracker[t] \in AllViews
  BY <1>1, JobTyped DEF Typed, DataTyped
<1>3. jobs[t].attempt = None
  BY <1>1, <1>2 DEF JobShape, Where, Early
<1>4. CASE End(t) /\ UNCHANGED lock
  BY <1>1, <1>4, EarlyTyped DEF End
<1>5. ASSUME NEW p \in {"prepare", "resume"}, RecordTask(t, p), p = "resume" => jobs[t].kind # "run"
      PROVE  Typed'
  <2> DEFINE j == WritingTask(jobs[t], p, tracker[t])
  <2>1. p \in Pcs /\ p \in Early
    BY DEF Pcs, Early
  <2>2. /\ j \in JobRecords /\ j.attempt = None /\ j.pc = "append" /\ j.next = p /\ j.write = "task"
        /\ j.kind = jobs[t].kind /\ j.from = jobs[t].from
    BY <1>2, <1>3, <2>1, TaskIs
  <2>3. jobs' = [jobs EXCEPT ![t] = j] /\ lock' = Append(lock, t)
    BY <1>5 DEF RecordTask, WritingTask, Typed, JobsTyped
  <2> HIDE DEF j
  <2>4. JobShape(j)
    BY <1>2, <1>5, <2>1, <2>2 DEF JobShape, Where, JobRecords
  <2> QED
    BY <1>1, <2>2, <2>3, <2>4, EarlyTyped
<1> QED
  BY <1>4, <1>5 DEF Fetch

LEMMA NotStartedTyped ==
  ASSUME Typed, NEW t \in Tasks, NotStarted(t) \/ NotResumed(t)
  PROVE  Typed'
BY DataSame, SchedulerSame, EarlyTyped DEF NotStarted, NotResumed, End, projection, disk, scheduler, bounds

LEMMA UnreservedTyped ==
  ASSUME Typed, NEW t \in Tasks, Unreserved(t)
  PROVE  Typed'
<1>1. /\ jobs[t] # None /\ jobs[t].pc = "prepare" /\ DataTyped'
      /\ UNCHANGED <<schedulerUp, attempts, claims, runs, command, tick, shutdown, scenario>>
  BY DataSame DEF Unreserved, At, Job, projection, disk, bounds
<1>2. SchedulerTyped'
  <2>1. CASE retries' = retries
    BY <1>1, <2>1, SchedulerSame
  <2>2. CASE retries' = [retries EXCEPT ![t].due = FALSE] /\ retries[t] # None
    <3>1. retries[t] \in RetryRecords
      BY <2>2 DEF Typed, SchedulerTyped
    <3>2. [retries[t] EXCEPT !.due = FALSE] \in RetryRecords
      BY <3>1 DEF RetryRecords
    <3>3. retries' = [retries EXCEPT ![t] = [retries[t] EXCEPT !.due = FALSE]]
      BY <2>2 DEF Typed, SchedulerTyped
    <3> QED
      BY <1>1, <3>2, <3>3 DEF Typed, SchedulerTyped
  <2> QED
    BY <2>1, <2>2 DEF Unreserved, Granted
<1>3. jobs[t] \in JobRecords /\ JobShape(jobs[t])
  BY <1>1, JobTyped
<1>4. jobs[t].attempt = None
  BY <1>1, <1>3 DEF JobShape, Where, Early
<1>5. CASE End(t) /\ UNCHANGED lock
  BY <1>1, <1>2, <1>5, EarlyTyped DEF End
<1>6. CASE Record(t, "unreserved", "end")
  <2> DEFINE j == [jobs[t] EXCEPT !.pc = "append", !.write = "unreserved", !.next = "end"]
  <2>1. "append" \in Pcs
    BY DEF Pcs
  <2>2. j \in JobRecords /\ j.attempt = None /\ j.pc = "append" /\ j.next = "end" /\ j.write = "unreserved"
        /\ j.kind = jobs[t].kind /\ j.from = jobs[t].from
    BY <1>3, <1>4, <2>1 DEF JobRecords
  <2>3. jobs' = [jobs EXCEPT ![t] = j] /\ lock' = Append(lock, t)
    BY <1>6 DEF Record, Typed, JobsTyped
  <2> HIDE DEF j
  <2>4. JobShape(j)
    BY <1>3, <2>2 DEF JobShape, Where
  <2> QED
    BY <1>1, <1>2, <2>2, <2>3, <2>4, EarlyTyped
<1> QED
  BY <1>5, <1>6 DEF Unreserved

LEMMA FreshRun ==
  ASSUME NEW s \in Snapshots, NEW v \in AllViews
  PROVE  LET q == NewRun(s, v) IN
         /\ q \in RunRecords
         /\ q.attempt = s /\ q.view = v /\ q.stopping = FALSE /\ q.handoff = FALSE /\ q.workspace = "ready"
         /\ q.worker = "none" /\ q.turn = "none" /\ q.listed = TRUE /\ q.settled = FALSE
         /\ q.ends = [w \in Enders |-> "none"]
BY DEF NewRun, RunRecords, Stages

\* A job that had none takes an Attempt.
LEMMA TakeTyped ==
  ASSUME Typed, NEW t \in Tasks, jobs[t] # None, NEW a \in AttemptIds, NEW r \in RunRecords,
         NEW p \in Pcs, p \notin Early, RecordAttempt(t, a, r, p), SchedulerTyped',
         drawn' \in 0..MaxDrawn,
         UNCHANGED <<tracker, projection, logged, command, tick, shutdown, given, restarts, scenario>>
  PROVE  Typed'
<1> DEFINE j == Recording(jobs[t], a, r, p)
<1>1. jobs[t] \in JobRecords /\ JobShape(jobs[t]) /\ r.attempt \in Snapshots
  BY JobTyped DEF RunRecords
<1>2. j \in JobRecords /\ JobShape(j) /\ j.attempt = a
  BY <1>1, RecordingIs
<1>3. jobs' = [jobs EXCEPT ![t] = j]
  BY DEF RecordAttempt, Recording, Typed, JobsTyped
<1> HIDE DEF j
<1>4. lock' = Append(lock, t) /\ index' = [index EXCEPT ![a] = r.attempt] /\ runs' = [runs EXCEPT ![a] = r]
  BY DEF RecordAttempt
<1>5. RunsTyped' /\ RunsStay /\ runs'[a] # None
  BY <1>4, RunSet, NoneApart
<1>6. JobsTyped'
  BY <1>2, <1>3, <1>5, JobSet
<1>7. RestTyped'
  BY <1>4, <1>5, RestSame
<1>8. DataTyped'
  BY <1>1, <1>4 DEF Typed, DataTyped, projection
<1> QED
  BY <1>5, <1>6, <1>7, <1>8 DEF Typed

LEMMA StartTyped ==
  ASSUME Typed, NEW t \in Tasks, Start(t)
  PROVE  Typed'
<1> DEFINE a == drawn + 1
           s == [task |-> t, sequence |-> NextSequence(t), status |-> "preparing_workspace",
                 controller |-> "symphoneer", session |-> FALSE]
           r == NewRun(s, jobs[t].view)
<1>1. /\ RecordAttempt(t, a, r, "install") /\ drawn' = a /\ attempts' = [attempts EXCEPT ![a] = s]
      /\ claims' = [claims EXCEPT ![t] = a] /\ retries' = [retries EXCEPT ![t] = None]
      /\ jobs[t] # None /\ drawn < scenario.drawn
      /\ UNCHANGED <<tracker, projection, logged, schedulerUp, command, tick, shutdown, given, restarts, scenario>>
  BY DEF Start, At, Job
<1>2. a \in AttemptIds /\ drawn' \in 0..MaxDrawn
  BY <1>1, ScenarioAssumption DEF Typed, DataTyped, ScenarioRecords, AttemptIds
<1>3. NextSequence(t) \in Nat \ {0}
  <2>1. AttemptsOf(t) \subseteq 1..MaxDrawn
    BY DEF AttemptsOf, AttemptIds
  <2>2. IsFiniteSet(1..MaxDrawn)
    BY FS_Interval, ScenarioAssumption
  <2>3. Cardinality(AttemptsOf(t)) \in Nat
    BY <2>1, <2>2, FS_Subset, FS_CardinalityType
  <2> QED
    BY <2>3 DEF NextSequence
<1>4. s \in Snapshots
  BY <1>3 DEF Snapshots, Live
<1>5. jobs[t].view \in AllViews
  BY <1>1, JobTyped DEF JobRecords
<1> HIDE DEF s
<1>6. r \in RunRecords
  BY <1>4, <1>5, FreshRun
<1> HIDE DEF r, a
<1>7. SchedulerTyped'
  BY <1>1, <1>2, <1>4 DEF Typed, SchedulerTyped
<1>8. "install" \in Pcs /\ "install" \notin Early
  BY DEF Pcs, Early
<1> QED
  BY <1>1, <1>2, <1>6, <1>7, <1>8, TakeTyped

LEMMA ResumeTyped ==
  ASSUME Typed, NEW t \in Tasks, Resume(t)
  PROVE  Typed'
<1> DEFINE a == jobs[t].from
           s == [attempts[a] EXCEPT !.status = "launching_agent", !.controller = "symphoneer"]
           r == NewRun(s, jobs[t].view)
<1>1. /\ RecordAttempt(t, a, r, "open") /\ attempts' = [attempts EXCEPT ![a] = s]
      /\ jobs[t] # None /\ jobs[t].pc = "resume" /\ attempts[a] # None /\ claims[t] = a /\ attempts[a].status = "paused"
      /\ UNCHANGED <<tracker, projection, logged, schedulerUp, claims, retries, command, tick, shutdown, drawn,
                     given, restarts, scenario>>
  BY DEF Resume, CanResume, At, Job, bounds
<1>2. jobs[t] \in JobRecords /\ a \in AttemptIds \cup {None} /\ jobs[t].view \in AllViews
  BY <1>1, JobTyped DEF JobRecords
<1>3. a \in AttemptIds
  BY <1>1, <1>2, JobTyped DEF JobShape, Where
<1>4. attempts[a] \in Snapshots
  BY <1>1, <1>3 DEF Typed, SchedulerTyped
<1>5. s \in Snapshots
  BY <1>4, SnapResumed
<1> HIDE DEF s
<1>6. r \in RunRecords
  BY <1>2, <1>5, FreshRun
<1> HIDE DEF r, a
<1>7. SchedulerTyped'
  BY <1>1, <1>3, <1>5 DEF Typed, SchedulerTyped
<1>8. "open" \in Pcs /\ "open" \notin Early
  BY DEF Pcs, Early
<1>9. drawn' \in 0..MaxDrawn
  BY <1>1 DEF Typed, DataTyped
<1> QED
  BY <1>1, <1>3, <1>6, <1>7, <1>8, <1>9, TakeTyped

\* The steps of a command.
LEMMA AwaitTyped ==
  ASSUME Typed, RunsStay, command.pc # "idle", scenario' = scenario,
         NEW p \in {"pausing", "delete", "unindex", "handoff", "return"}, command' = [command EXCEPT !.pc = p],
         Holds("command"), lock' = lock,
         p \in {"pausing", "handoff"} => command.attempt # None /\ runs[command.attempt] # None,
         p = "return" => command.attempt # None
  PROVE  command' \in CommandRecords \cup {Idle} /\ CommandShape' /\ InSection'
<1>1. command \in CommandRecords
  BY DEF Typed, RestTyped, Idle
<1>2. /\ command' \in CommandRecords /\ command'.pc = p /\ command'.kind = command.kind
      /\ command'.attempt = command.attempt /\ command.attempt \in AttemptIds \cup {None}
  BY <1>1 DEF CommandRecords
<1>3. InSection'
  BY DEF InSection, Holds
<1>4. CommandShape'
  BY <1>2 DEF Typed, RestTyped, CommandShape, RunsStay
<1> QED
  BY <1>2, <1>3, <1>4

LEMMA SectionHeld ==
  ASSUME Typed, command.pc # "idle", command.pc # "queued" \/ Holds("command")
  PROVE  /\ lock # <<>> /\ Holds("command") /\ command \in CommandRecords /\ command.task \in Tasks
         /\ command.attempt \in AttemptIds \cup {None} /\ command.kind \in AllKinds
         /\ command.kind # "start" => command.attempt \in AttemptIds
<1>1. command \in CommandRecords
  BY DEF Typed, RestTyped, Idle
<1>2. command.pc \in {"queued", "pausing", "delete", "unindex", "handoff", "return"}
      /\ command.task \in Tasks /\ command.attempt \in AttemptIds \cup {None} /\ command.kind \in AllKinds
  BY <1>1 DEF CommandRecords
<1> QED
  BY <1>1, <1>2 DEF Typed, RestTyped, InSection, CommandShape, Holds

LEMMA AnswerTyped ==
  ASSUME Typed, command.pc # "idle", command.pc # "queued" \/ Holds("command"), Answer
  PROVE  /\ command' \in CommandRecords \cup {Idle} /\ CommandShape' /\ InSection'
         /\ lock' \in Seq(Tasks \cup {"tick", "command"})
BY SectionHeld, IdleCommand, Popped DEF Answer

\* A command that moves nothing but itself, the FIFO and a job that had none.
LEMMA LaunchTyped ==
  ASSUME Typed, DataTyped', SchedulerTyped', UNCHANGED <<runs, tick, shutdown, scenario>>,
         command' \in CommandRecords \cup {Idle}, CommandShape', InSection',
         lock' \in Seq(Tasks \cup {"tick", "command"}),
         jobs' = jobs \/ \E t \in Tasks, j \in JobRecords : /\ JobShape(j) /\ j.attempt = None
                                                            /\ jobs' = [jobs EXCEPT ![t] = j]
  PROVE  Typed'
<1>1. RunsTyped' /\ RunsStay
  BY RunsSame
<1>2. JobsTyped'
  BY <1>1, JobsSame, JobSet
<1>3. RestTyped'
  BY <1>1, TickSame, ShutdownSame DEF RestTyped
<1> QED
  BY <1>1, <1>2, <1>3 DEF Typed

LEMMA GiveTyped ==
  ASSUME Typed, NEW kind \in AllKinds \ {"stop"}, NEW a \in AttemptIds \cup {None}, NEW t \in Tasks,
         kind # "start" => a # None, kind \in scenario.kinds, Give(kind, a, t)
  PROVE  Typed'
<1>1. DataTyped' /\ SchedulerTyped' /\ UNCHANGED <<runs, tick, shutdown, scenario, jobs>>
  <2>1. DataTyped'
    BY DEF Give, Typed, DataTyped, projection, disk
  <2> QED
    BY <2>1, SchedulerSame DEF Give, scheduler
<1>2. command' = [pc |-> "queued", kind |-> kind, attempt |-> a, task |-> t]
  BY DEF Give
<1>3. command' \in CommandRecords /\ InSection'
  BY <1>2 DEF CommandRecords, InSection
<1>4. CommandShape'
  BY <1>1, <1>2 DEF CommandShape
<1>5. lock' \in Seq(Tasks \cup {"tick", "command"})
  BY Pushed DEF Give
<1> QED
  BY <1>1, <1>3, <1>4, <1>5, LaunchTyped

LEMMA StartRunTyped ==
  ASSUME Typed, StartRun
  PROVE  Typed'
<1> DEFINE t == command.task
           j == NewJob("run", "dispatch", FALSE, None, known[t])
<1>1. command.pc = "queued" /\ Holds("command") /\ Answer /\ UNCHANGED <<runs, tick, shutdown, scenario>>
      /\ DataTyped' /\ SchedulerTyped'
  BY DataSame, SchedulerSame DEF StartRun, Now, projection, disk, scheduler, bounds
<1>2. t \in Tasks
  BY <1>1, SectionHeld
<1>3. jobs' = jobs \/ (known[t] = "eligible" /\ jobs' = [jobs EXCEPT ![t] = j])
  BY DEF StartRun
<1>4. ASSUME known[t] = "eligible"
      PROVE  j \in JobRecords /\ JobShape(j) /\ j.attempt = None
  <2>1. known[t] \in AllViews
    BY <1>2, <1>4, Words DEF Typed, DataTyped
  <2>2. j \in JobRecords /\ j.attempt = None /\ j.pc = "fetch" /\ j.kind = "run"
    BY <2>1, Words DEF NewJob, JobRecords
  <2> HIDE DEF j
  <2> QED
    BY <2>2, FreshJob
<1> HIDE DEF t, j
<1> QED
  BY <1>1, <1>2, <1>3, <1>4, AnswerTyped, LaunchTyped

LEMMA RetryAttemptTyped ==
  ASSUME Typed, RetryAttempt
  PROVE  Typed'
<1> DEFINE t == command.task
           j == NewJob("run", "force", FALSE, None, known[t])
<1>1. command.pc = "queued" /\ Holds("command") /\ Answer /\ UNCHANGED <<runs, tick, shutdown, scenario>>
      /\ DataTyped' /\ SchedulerTyped'
  BY DataSame, SchedulerSame DEF RetryAttempt, Now, projection, disk, scheduler, bounds
<1>2. t \in Tasks
  BY <1>1, SectionHeld
<1>3. jobs' = jobs \/ (known[t] # None /\ jobs' = [jobs EXCEPT ![t] = j])
  BY DEF RetryAttempt
<1>4. ASSUME known[t] # None
      PROVE  j \in JobRecords /\ JobShape(j) /\ j.attempt = None
  <2>1. known[t] \in AllViews
    BY <1>2, <1>4 DEF Typed, DataTyped
  <2>2. j \in JobRecords /\ j.attempt = None /\ j.pc = "fetch" /\ j.kind = "run"
    BY <2>1, Words DEF NewJob, JobRecords
  <2> HIDE DEF j
  <2> QED
    BY <2>2, FreshJob
<1> HIDE DEF t, j
<1> QED
  BY <1>1, <1>2, <1>3, <1>4, AnswerTyped, LaunchTyped

LEMMA SendInputTyped ==
  ASSUME Typed, SendInput
  PROVE  Typed'
<1> DEFINE t == command.task
           a == command.attempt
           j == NewJob("continue", "dispatch", FALSE, a, known[t])
<1>1. command.pc = "queued" /\ Holds("command") /\ Answer /\ UNCHANGED <<runs, tick, shutdown, scenario>>
      /\ DataTyped' /\ SchedulerTyped' /\ command.kind = "input"
  BY DataSame, SchedulerSame DEF SendInput, Now, projection, disk, scheduler, bounds
<1>2. t \in Tasks /\ a \in AttemptIds
  BY <1>1, SectionHeld
<1>3. jobs' = jobs \/ (known[t] # None /\ jobs' = [jobs EXCEPT ![t] = j])
  BY DEF SendInput
<1>4. ASSUME known[t] # None
      PROVE  j \in JobRecords /\ JobShape(j) /\ j.attempt = None
  <2>1. known[t] \in AllViews /\ a # None
    BY <1>2, <1>4, NoneApart DEF Typed, DataTyped
  <2>2. j \in JobRecords /\ j.attempt = None /\ j.pc = "fetch" /\ j.from = a
    BY <1>2, <2>1, Words DEF NewJob, JobRecords
  <2> HIDE DEF j
  <2> QED
    BY <2>1, <2>2, FreshJob
<1> HIDE DEF t, j
<1> QED
  BY <1>1, <1>2, <1>3, <1>4, AnswerTyped, LaunchTyped

LEMMA ReturnControlTyped ==
  ASSUME Typed, ReturnControl
  PROVE  Typed'
<1> DEFINE t == command.task
           a == command.attempt
           j == NewJob("continue", "dispatch", TRUE, a, known[t])
<1>1. command.pc = "queued" /\ Holds("command") /\ UNCHANGED <<runs, tick, shutdown, scenario>>
      /\ DataTyped' /\ SchedulerTyped' /\ command.kind = "return"
  BY DataSame, SchedulerSame DEF ReturnControl, Now, projection, disk, scheduler, bounds
<1>2. t \in Tasks /\ a \in AttemptIds
  BY <1>1, SectionHeld
<1>3. CASE Answer /\ jobs' = jobs
  BY <1>1, <1>3, AnswerTyped, LaunchTyped
<1>4. CASE Await("return") /\ known[t] # None /\ jobs' = [jobs EXCEPT ![t] = j]
  <2>1. j \in JobRecords /\ JobShape(j) /\ j.attempt = None
    <3>1. known[t] \in AllViews /\ a # None
      BY <1>2, <1>4, NoneApart DEF Typed, DataTyped
    <3>2. j \in JobRecords /\ j.attempt = None /\ j.pc = "fetch" /\ j.from = a
      BY <1>2, <3>1, Words DEF NewJob, JobRecords
    <3> HIDE DEF j
    <3> QED
      BY <3>1, <3>2, FreshJob
  <2> HIDE DEF t, j
  <2>2. command' = [command EXCEPT !.pc = "return"] /\ lock' = lock
    BY <1>4 DEF Await
  <2>3. RunsStay
    BY <1>1, RunsSame
  <2>4. command' \in CommandRecords \cup {Idle} /\ CommandShape' /\ InSection'
    BY <1>1, <1>2, <2>2, <2>3, AwaitTyped, NoneApart
  <2> QED
    BY <1>1, <1>2, <1>4, <2>1, <2>2, <2>4, LockSame, LaunchTyped
<1> QED
  BY <1>3, <1>4 DEF ReturnControl

\* A command that moves itself, the FIFO and a run.
LEMMA CommandTyped ==
  ASSUME Typed, DataTyped', SchedulerTyped', RunsTyped', RunsStay, UNCHANGED <<jobs, tick, shutdown>>,
         command' \in CommandRecords \cup {Idle}, CommandShape', InSection',
         lock' \in Seq(Tasks \cup {"tick", "command"})
  PROVE  Typed'
BY JobsSame, TickSame, ShutdownSame DEF RestTyped, Typed

LEMMA PauseAttemptTyped ==
  ASSUME Typed, PauseAttempt
  PROVE  Typed'
<1> DEFINE a == command.attempt
           r == Stop("command", runs[a])
<1>1. command.pc = "queued" /\ Holds("command") /\ UNCHANGED <<jobs, tick, shutdown, scenario>>
      /\ DataTyped' /\ SchedulerTyped' /\ command.kind \in {"pause", "delete"}
  BY DataSame, SchedulerSame DEF PauseAttempt, Now, projection, disk, scheduler, bounds
<1>2. a \in AttemptIds
  BY <1>1, SectionHeld
<1>3. CASE Answer /\ runs' = runs
  BY <1>1, <1>3, AnswerTyped, RunsSame, CommandTyped
<1>4. CASE Await("delete") /\ runs' = runs
  <2>1. RunsTyped' /\ RunsStay
    BY <1>4, RunsSame
  <2> QED
    BY <1>1, <1>4, <2>1, AwaitTyped, LockSame, CommandTyped DEF Await
<1>5. CASE Await("pausing") /\ Listed(a) /\ runs' = [runs EXCEPT ![a] = Stop("command", @)]
  <2>1. runs[a] # None /\ runs[a] \in RunRecords
    BY <1>2, <1>5 DEF Listed, Typed, RunsTyped
  <2>2. r \in RunRecords
    BY <2>1, RunStop DEF Enders
  <2>3. runs' = [runs EXCEPT ![a] = r]
    BY <1>5
  <2> HIDE DEF r
  <2>4. RunsTyped' /\ RunsStay
    BY <1>2, <2>2, <2>3, RunSet
  <2> QED
    BY <1>1, <1>2, <1>5, <2>1, <2>4, AwaitTyped, LockSame, CommandTyped, NoneApart DEF Await
<1> QED
  BY <1>3, <1>4, <1>5 DEF PauseAttempt

LEMMA AttemptPausedTyped ==
  ASSUME Typed, AttemptPaused
  PROVE  Typed'
<1>1. command.pc = "pausing" /\ UNCHANGED <<runs, jobs, tick, shutdown, scenario>>
      /\ DataTyped' /\ SchedulerTyped'
  BY DataSame, SchedulerSame DEF AttemptPaused, projection, disk, scheduler, bounds
<1>2. RunsTyped' /\ RunsStay
  BY <1>1, RunsSame
<1>3. CASE Answer
  BY <1>1, <1>2, <1>3, AnswerTyped, CommandTyped
<1>4. CASE Await("delete")
  BY <1>1, <1>2, <1>4, SectionHeld, AwaitTyped, LockSame, CommandTyped DEF Await
<1> QED
  BY <1>3, <1>4 DEF AttemptPaused

LEMMA DeleteAttemptTyped ==
  ASSUME Typed, DeleteAttempt
  PROVE  Typed'
<1> DEFINE a == command.attempt
           t == command.task
<1>1. command.pc = "delete" /\ UNCHANGED <<jobs, tick, shutdown, scenario>>
  BY DEF DeleteAttempt, bounds
<1>2. CASE Answer /\ UNCHANGED <<recorded, attempts, claims, retries, runs>>
  <2>1. DataTyped' /\ SchedulerTyped'
    BY <1>2, DataSame, SchedulerSame DEF DeleteAttempt, disk, bounds
  <2> QED
    BY <1>1, <1>2, <2>1, RunsSame, AnswerTyped, CommandTyped
<1>3. CASE /\ attempts' = [attempts EXCEPT ![a] = None]
           /\ claims' = [claims EXCEPT ![t] = IF @ = a THEN None ELSE @]
           /\ retries' = [retries EXCEPT ![t] = IF claims[t] = a THEN None ELSE @]
           /\ runs' = [b \in AttemptIds |->
                         IF b = a /\ runs[a] # None THEN [runs[a] EXCEPT !.listed = FALSE] ELSE runs[b]]
           /\ recorded' = [recorded EXCEPT ![a] = None]
           /\ Await("unindex")
  <2>1. UNCHANGED <<tracker, known, workspaces, index, logged, schedulerUp, drawn, given, restarts, scenario>>
    BY DEF DeleteAttempt, disk, bounds
  <2>2. DataTyped'
    BY <1>3, <2>1 DEF Typed, DataTyped
  <2>3. SchedulerTyped'
    BY <1>3, <2>1 DEF Typed, SchedulerTyped
  <2>4. RunsTyped' /\ RunsStay
    <3>1. ASSUME NEW b \in AttemptIds
          PROVE  runs'[b] \in RunRecords \cup {None} /\ (runs[b] # None => runs'[b] # None)
      <4>1. CASE b = a /\ runs[a] # None
        <5>1. runs[a] \in RunRecords
          BY <4>1 DEF Typed, RunsTyped
        <5>2. [runs[a] EXCEPT !.listed = FALSE] \in RunRecords
          BY <5>1, RunUnlisted
        <5> QED
          BY <1>3, <4>1, <5>2, NoneApart
      <4>2. CASE ~(b = a /\ runs[a] # None)
        BY <1>3, <4>2 DEF Typed, RunsTyped
      <4> QED
        BY <4>1, <4>2
    <3> QED
      BY <1>3, <3>1 DEF RunsTyped, RunsStay
  <2> QED
    BY <1>1, <1>3, <2>1, <2>2, <2>3, <2>4, SectionHeld, AwaitTyped, LockSame, CommandTyped DEF Await
<1> QED
  BY <1>2, <1>3 DEF DeleteAttempt

LEMMA UnindexTyped ==
  ASSUME Typed, Unindex
  PROVE  Typed'
<1>1. command.pc = "unindex" /\ UNCHANGED <<runs, jobs, tick, shutdown, scenario>> /\ Answer
  BY DEF Unindex, bounds
<1>2. DataTyped' /\ SchedulerTyped'
  BY SchedulerSame DEF Unindex, Typed, DataTyped, projection, scheduler, bounds
<1> QED
  BY <1>1, <1>2, RunsSame, AnswerTyped, CommandTyped

LEMMA HandoffTyped ==
  ASSUME Typed, Handoff
  PROVE  Typed'
<1> DEFINE a == command.attempt
           r == [runs[a] EXCEPT !.handoff = TRUE]
<1>1. command.pc = "queued" /\ Holds("command") /\ UNCHANGED <<jobs, tick, shutdown, scenario>>
      /\ DataTyped' /\ SchedulerTyped' /\ command.kind = "handoff"
  BY DataSame, SchedulerSame DEF Handoff, Now, projection, disk, scheduler, bounds
<1>2. a \in AttemptIds
  BY <1>1, SectionHeld
<1>3. CASE Answer /\ runs' = runs
  BY <1>1, <1>3, AnswerTyped, RunsSame, CommandTyped
<1>4. CASE Await("handoff") /\ Listed(a) /\ runs' = [runs EXCEPT ![a].handoff = TRUE]
  <2>1. runs[a] # None /\ runs[a] \in RunRecords
    BY <1>2, <1>4 DEF Listed, Typed, RunsTyped
  <2>2. r \in RunRecords
    BY <2>1, RunHandoff
  <2>3. runs' = [runs EXCEPT ![a] = r]
    BY <1>4 DEF Typed, RunsTyped
  <2> HIDE DEF r
  <2>4. RunsTyped' /\ RunsStay
    BY <1>2, <2>2, <2>3, RunSet
  <2> QED
    BY <1>1, <1>2, <1>4, <2>1, <2>4, AwaitTyped, LockSame, CommandTyped, NoneApart DEF Await
<1> QED
  BY <1>3, <1>4 DEF Handoff

LEMMA SetControllerTyped ==
  ASSUME Typed, NEW a \in AttemptIds, NEW c \in {"symphoneer", "codex"}, SetController(a, c)
  PROVE  index' \in [AttemptIds -> Snapshots \cup {None}] /\ recorded' \in [AttemptIds -> Snapshots \cup {None}]
<1>1. CASE recorded[a] = None
  BY <1>1 DEF SetController, Typed, DataTyped
<1>2. CASE recorded[a] # None
  <2> DEFINE s == [recorded[a] EXCEPT !.controller = c]
  <2>1. recorded[a] \in Snapshots
    BY <1>2 DEF Typed, DataTyped
  <2>2. s \in Snapshots
    BY <2>1, SnapControl
  <2>3. index' = [index EXCEPT ![a] = s] /\ recorded' = [recorded EXCEPT ![a] = s]
    BY <1>2 DEF SetController, Typed, DataTyped
  <2> HIDE DEF s
  <2> QED
    BY <2>2, <2>3 DEF Typed, DataTyped
<1> QED
  BY <1>1, <1>2

LEMMA HandedOffTyped ==
  ASSUME Typed, HandedOff \/ Returned
  PROVE  Typed'
<1>1. command.pc \in {"handoff", "return"} /\ UNCHANGED <<runs, jobs, tick, shutdown, scenario>> /\ Answer
      /\ SchedulerTyped' /\ UNCHANGED <<tracker, known, workspaces, logged, drawn, given, restarts>>
  BY SchedulerSame DEF HandedOff, Returned, scheduler, bounds
<1>2. \/ UNCHANGED <<index, recorded>>
      \/ SetController(command.attempt, "codex") \/ SetController(command.attempt, "symphoneer")
  BY DEF HandedOff, Returned
<1>3. command.attempt \in AttemptIds
  <2>1. command.attempt # None
    BY <1>1 DEF Typed, RestTyped, CommandShape
  <2> QED
    BY <1>1, <2>1, SectionHeld
<1>4. DataTyped'
  BY <1>1, <1>2, <1>3, SetControllerTyped DEF Typed, DataTyped
<1> QED
  BY <1>1, <1>4, RunsSame, AnswerTyped, CommandTyped

\* A step of whoever ends a run.
LEMMA RunStepTyped ==
  ASSUME Typed, DataTyped', SchedulerTyped', NEW a \in AttemptIds, NEW r \in RunRecords,
         runs' = [runs EXCEPT ![a] = r], UNCHANGED <<jobs, lock, command, tick, shutdown, scenario>>
  PROVE  Typed'
<1>1. RunsTyped' /\ RunsStay
  BY RunSet
<1>2. JobsTyped'
  BY <1>1, JobsSame
<1>3. RestTyped'
  BY <1>1, RestSame
<1> QED
  BY <1>1, <1>2, <1>3 DEF Typed

LEMMA ARun ==
  ASSUME Typed, NEW a \in AttemptIds, runs[a] # None
  PROVE  /\ runs[a] \in RunRecords /\ runs[a].attempt \in Snapshots /\ runs[a].attempt.task \in Tasks
         /\ runs[a].ends \in [Enders -> Stages] /\ runs[a].workspace \in {"ready", "retained"}
         /\ runs[a].view \in AllViews
<1>1. runs[a] \in RunRecords
  BY DEF Typed, RunsTyped
<1>2. runs[a].attempt \in Snapshots
  BY <1>1 DEF RunRecords
<1>3. runs[a].attempt.task \in Tasks
  BY <1>2 DEF Snapshots
<1> QED
  BY <1>1, <1>2, <1>3 DEF RunRecords

LEMMA TurnEndsTyped ==
  ASSUME Typed, NEW a \in AttemptIds, TurnEnds(a)
  PROVE  Typed'
<1>1. /\ runs[a] # None /\ UNCHANGED <<jobs, lock, command, tick, shutdown, scenario>>
      /\ DataTyped' /\ SchedulerTyped'
  BY DataSame, SchedulerSame DEF TurnEnds, projection, disk, scheduler, bounds
<1>2. PICK o \in {"completed", "interrupted"} : runs' = [runs EXCEPT ![a].turn = o]
  BY DEF TurnEnds
<1> DEFINE r == [runs[a] EXCEPT !.turn = o]
<1>3. r \in RunRecords
  BY <1>1, ARun, RunTurnOver
<1>4. runs' = [runs EXCEPT ![a] = r]
  BY <1>2 DEF Typed, RunsTyped
<1> HIDE DEF r
<1> QED
  BY <1>1, <1>3, <1>4, RunStepTyped

LEMMA HaltStep ==
  ASSUME Typed, NEW who \in Enders, NEW a \in AttemptIds, EndHalt(who, a)
  PROVE  /\ runs[a] \in RunRecords /\ runs[a].ends[who] = "halt" /\ Halted(a)
         /\ \E x \in {"status", "retained", "failed"} :
              /\ runs' = [runs EXCEPT ![a] = HaltedBy(who, runs[a], x)]
              /\ x = "status" => runs[a].workspace = "retained"
         /\ UNCHANGED <<tracker, projection, disk, scheduler, jobs, lock, command, tick, shutdown, bounds>>
<1>1. runs[a] \in RunRecords /\ runs[a].ends[who] = "halt" /\ Halted(a)
  BY ARun DEF EndHalt
<1>2. PICK x \in (IF runs[a].workspace = "retained" THEN {"status"}
                   ELSE (IF CanRetain(a) THEN {"retained"} ELSE {"failed"})
                        \cup (IF "finish" \in Faults THEN {"failed"} ELSE {})) :
       runs' = [runs EXCEPT ![a] = [Halt(@) EXCEPT
                  !.ends[who] = x,
                  !.managed = IF x = "retained" THEN "retained" ELSE runs[a].managed]]
  BY DEF EndHalt
<1>3. x \in {"status", "retained", "failed"} /\ (x = "status" => runs[a].workspace = "retained")
  BY <1>2
<1>4. runs' = [runs EXCEPT ![a] = HaltedBy(who, runs[a], x)]
  BY <1>2 DEF HaltedBy
<1> QED
  BY <1>1, <1>3, <1>4 DEF EndHalt

LEMMA EndHaltTyped ==
  ASSUME Typed, NEW who \in Enders, NEW a \in AttemptIds, EndHalt(who, a)
  PROVE  Typed'
<1>1. PICK x \in {"status", "retained", "failed"} : runs' = [runs EXCEPT ![a] = HaltedBy(who, runs[a], x)]
  BY HaltStep
<1>2. /\ UNCHANGED <<jobs, lock, command, tick, shutdown, scenario>>
      /\ DataTyped' /\ SchedulerTyped' /\ runs[a] \in RunRecords
  BY HaltStep, DataSame, SchedulerSame DEF projection, disk, scheduler, bounds
<1>3. x \in Stages
  BY DEF Stages
<1>4. HaltedBy(who, runs[a], x) \in RunRecords
  BY <1>2, <1>3, RunHalted
<1> QED
  BY <1>1, <1>2, <1>4, RunStepTyped

\* What the log and the projection say of a workspace.
LEMMA LogTyped ==
  ASSUME Typed, NEW t \in Tasks, NEW x \in {"retained", "released"}, NEW key \in {"retained", "terminal-cleanup"},
         LogWorkspace(t, key, x)
  PROVE  /\ logged' \in [Tasks -> Logged]
         /\ workspaces' \in [Tasks -> {"none", "ready", "retained", "released"}]
         /\ logged' = [logged EXCEPT ![t] = logged'[t]]
         /\ logged'[t] = logged[t] \/ logged'[t].last = x
         /\ key \in logged'[t].keys
<1>1. logged[t] \in Logged
  BY DEF Typed, DataTyped
<1>2. CASE key \in logged[t].keys
  BY <1>2 DEF LogWorkspace, Typed, DataTyped
<1>3. CASE key \notin logged[t].keys
  <2> DEFINE l == [last |-> x, keys |-> logged[t].keys \cup {key}]
  <2>1. logged' = [logged EXCEPT ![t] = l] /\ workspaces' = [workspaces EXCEPT ![t] = x]
    BY <1>3 DEF LogWorkspace, Typed, DataTyped
  <2>2. l \in Logged /\ l.last = x /\ key \in l.keys
    BY <1>1 DEF Logged
  <2> HIDE DEF l
  <2>3. logged \in [Tasks -> Logged] /\ workspaces \in [Tasks -> {"none", "ready", "retained", "released"}]
    BY DEF Typed, DataTyped
  <2> QED
    BY <2>1, <2>2, <2>3
<1> QED
  BY <1>2, <1>3

LEMMA KeptStep ==
  ASSUME Typed, NEW who \in Enders, NEW a \in AttemptIds, EndRetained(who, a)
  PROVE  /\ runs[a] \in RunRecords /\ runs[a].ends[who] = "retained" /\ who # "tick"
         /\ runs' = [runs EXCEPT ![a] = KeptBy(who, runs[a])]
         /\ LogRetained(runs[a].attempt.task) /\ runs[a].attempt.task \in Tasks
         /\ UNCHANGED <<tracker, known, recorded, index, scheduler, jobs, lock, command, tick, shutdown, bounds>>
<1>1. runs' = [runs EXCEPT ![a] = KeptBy(who, runs[a])]
  BY DEF EndRetained, KeptBy, Typed, RunsTyped
<1> QED
  BY <1>1, ARun DEF EndRetained

LEMMA EndRetainedTyped ==
  ASSUME Typed, NEW who \in Enders, NEW a \in AttemptIds, EndRetained(who, a)
  PROVE  Typed'
<1>1. KeptBy(who, runs[a]) \in RunRecords
  BY KeptStep, RunKept
<1>2. SchedulerTyped' /\ UNCHANGED <<jobs, lock, command, tick, shutdown, scenario>>
  BY KeptStep, SchedulerSame DEF scheduler, bounds
<1>3. DataTyped'
  BY KeptStep, LogTyped DEF LogRetained, Typed, DataTyped, bounds
<1> QED
  BY <1>1, <1>2, <1>3, KeptStep, RunStepTyped

\* The end of a run: it fails, or says how the Attempt ended.
LEMMA StatusStep ==
  ASSUME Typed, NEW who \in Enders, NEW a \in AttemptIds, EndStatus(who, a)
  PROVE  /\ runs[a] \in RunRecords /\ runs[a].ends[who] = "status" /\ who # "tick"
         /\ UNCHANGED <<tracker, known, logged, schedulerUp, claims, retries, jobs, lock, command, tick, shutdown,
                        bounds>>
         /\ \/ /\ runs' = [runs EXCEPT ![a] = EndedAt(who, runs[a], "failed")]
               /\ UNCHANGED <<index, recorded, workspaces, attempts>>
            \/ \E s \in Snapshots :
                 /\ runs' = [runs EXCEPT ![a] = ClosedBy(who, runs[a], s)]
                 /\ index' = [index EXCEPT ![a] = s] /\ recorded' = [recorded EXCEPT ![a] = s]
                 /\ workspaces' = [workspaces EXCEPT ![s.task] = "retained"]
                 /\ \/ /\ attempts' = attempts /\ ~Pauses(who, a)
                       /\ s = [runs[a].attempt EXCEPT !.status = "interrupted"]
                    \/ /\ attempts' = [attempts EXCEPT ![a] = s] /\ Pauses(who, a) /\ Scheduled(a)
                       /\ attempts[a] \in Snapshots /\ s = Paused(a)
<1>1. runs[a] \in RunRecords /\ runs[a].ends[who] = "status" /\ who # "tick" /\ runs[a].attempt \in Snapshots
  BY ARun DEF EndStatus
<1>2. CASE Pauses(who, a) /\ ~CanPause(a)
  <2>1. runs' = [runs EXCEPT ![a] = EndedAt(who, runs[a], "failed")]
    BY <1>2 DEF EndStatus, EndedAt, Typed, RunsTyped
  <2> QED
    BY <1>1, <1>2, <2>1 DEF EndStatus
<1>3. CASE ~(Pauses(who, a) /\ ~CanPause(a))
  <2> DEFINE s == IF Pauses(who, a) THEN Paused(a) ELSE [runs[a].attempt EXCEPT !.status = "interrupted"]
  <2>1. /\ attempts' = IF Pauses(who, a) THEN [attempts EXCEPT ![a] = s] ELSE attempts
        /\ index' = [index EXCEPT ![a] = s]
        /\ recorded' = [recorded EXCEPT ![a] = s]
        /\ workspaces' = [workspaces EXCEPT ![s.task] = "retained"]
        /\ runs' = [runs EXCEPT ![a] = [Settled(@) EXCEPT !.attempt = s, !.ends[who] = "done"]]
    BY <1>3 DEF EndStatus
  <2>2. runs' = [runs EXCEPT ![a] = ClosedBy(who, runs[a], s)]
    BY <2>1 DEF ClosedBy
  <2>3. CASE Pauses(who, a)
    <3>1. attempts[a] \in Snapshots /\ Scheduled(a)
      BY <1>3, <2>3 DEF CanPause, Scheduled, Typed, SchedulerTyped
    <3>2. Paused(a) \in Snapshots
      <4>1. runs[a].handoff => Paused(a) = [attempts[a] EXCEPT !.status = "paused", !.controller = "codex"]
        BY DEF Paused
      <4>2. ~runs[a].handoff =>
              Paused(a) = [attempts[a] EXCEPT !.status = "paused", !.controller = attempts[a].controller]
        BY DEF Paused
      <4>3. attempts[a].controller \in {"symphoneer", "codex"}
        BY <3>1 DEF Snapshots
      <4> QED
        BY <3>1, <4>1, <4>2, <4>3 DEF Snapshots
    <3>3. s = Paused(a)
      BY <2>3
    <3> HIDE DEF s
    <3> QED
      BY <1>1, <2>1, <2>2, <2>3, <3>1, <3>2, <3>3 DEF EndStatus
  <2>4. CASE ~Pauses(who, a)
    <3>1. s = [runs[a].attempt EXCEPT !.status = "interrupted"]
      BY <2>4
    <3>2. "interrupted" \in Live \cup Terminal \cup {"paused"}
      BY DEF Terminal
    <3>3. s \in Snapshots
      BY <1>1, <3>1, <3>2, SnapStatus
    <3> HIDE DEF s
    <3> QED
      BY <1>1, <2>1, <2>2, <2>4, <3>1, <3>3 DEF EndStatus
  <2> QED
    BY <2>3, <2>4
<1> QED
  BY <1>2, <1>3

LEMMA EndStatusTyped ==
  ASSUME Typed, NEW who \in Enders, NEW a \in AttemptIds, EndStatus(who, a)
  PROVE  Typed'
<1>1. /\ runs[a] \in RunRecords /\ UNCHANGED <<jobs, lock, command, tick, shutdown, scenario>>
      /\ UNCHANGED <<tracker, known, logged, drawn, given, restarts, schedulerUp, claims, retries>>
  BY StatusStep DEF bounds
<1>2. CASE /\ runs' = [runs EXCEPT ![a] = EndedAt(who, runs[a], "failed")]
           /\ UNCHANGED <<index, recorded, workspaces, attempts>>
  <2>1. "failed" \in Stages
    BY DEF Stages
  <2>2. EndedAt(who, runs[a], "failed") \in RunRecords
    BY <1>1, <2>1, RunEnded
  <2>3. DataTyped' /\ SchedulerTyped'
    BY <1>1, <1>2, DataSame, SchedulerSame
  <2> QED
    BY <1>1, <1>2, <2>2, <2>3, RunStepTyped
<1>3. ASSUME NEW s \in Snapshots,
             runs' = [runs EXCEPT ![a] = ClosedBy(who, runs[a], s)],
             index' = [index EXCEPT ![a] = s], recorded' = [recorded EXCEPT ![a] = s],
             workspaces' = [workspaces EXCEPT ![s.task] = "retained"],
             attempts' = attempts \/ attempts' = [attempts EXCEPT ![a] = s]
      PROVE  Typed'
  <2>1. ClosedBy(who, runs[a], s) \in RunRecords
    BY <1>1, RunClosed
  <2>2. DataTyped'
    BY <1>1, <1>3 DEF Typed, DataTyped
  <2>3. SchedulerTyped'
    BY <1>1, <1>3 DEF Typed, SchedulerTyped
  <2> QED
    BY <1>1, <1>3, <2>1, <2>2, <2>3, RunStepTyped
<1> QED
  BY <1>2, <1>3, StatusStep
LEMMA CommitTyped ==
  ASSUME Typed, NEW t \in Tasks, Commit(t)
  PROVE  Typed'
<1> DEFINE j == jobs[t]
           k == [jobs[t] EXCEPT !.pc = jobs[t].next]
<1>1. /\ jobs[t] # None /\ jobs[t].pc = "append" /\ Holds(t) /\ lock' = Tail(lock)
      /\ UNCHANGED <<tracker, index, runs, command, tick, shutdown, drawn, given, restarts, scenario>>
      /\ SchedulerTyped'
  BY SchedulerSame DEF Commit, At, Job, scheduler, bounds
<1>2. jobs[t] \in JobRecords /\ JobShape(jobs[t]) /\ (jobs[t].attempt # None => runs[jobs[t].attempt] # None)
  BY <1>1, JobTyped DEF Typed, JobsTyped
<1>3. RunsTyped' /\ RunsStay
  BY <1>1, RunsSame
<1>4. JobsTyped'
  <2>1. CASE jobs[t].next = "end"
    <3>1. jobs' = [jobs EXCEPT ![t] = None]
      BY <2>1 DEF Commit, Typed, JobsTyped
    <3> QED
      BY <1>3, <3>1, JobSet
  <2>2. CASE jobs[t].next # "end"
    <3>1. jobs' = [jobs EXCEPT ![t] = k]
      BY <2>2 DEF Commit, Typed, JobsTyped
    <3>2. jobs[t].next \in Pcs
      BY <1>2, <2>2 DEF JobRecords
    <3>3. /\ k \in JobRecords /\ k.pc = jobs[t].next /\ k.next = jobs[t].next /\ k.attempt = jobs[t].attempt
          /\ k.write = jobs[t].write /\ k.snapshot = jobs[t].snapshot /\ k.space = jobs[t].space
          /\ k.kind = jobs[t].kind /\ k.from = jobs[t].from
      BY <1>2, <3>2, JobGoto
    <3> HIDE DEF k
    <3>4. JobShape(k)
      BY <1>1, <1>2, <3>3 DEF JobShape, Where
    <3>5. k.attempt # None => runs'[k.attempt] # None
      BY <1>1, <1>2, <3>3
    <3> QED
      BY <1>3, <3>1, <3>3, <3>4, <3>5, JobSet
  <2> QED
    BY <2>1, <2>2
<1>5. RestTyped'
  <2>1. InSection'
    BY <1>1, SectionLeft, TaskAssumption
  <2>2. lock' \in Seq(Tasks \cup {"tick", "command"})
    BY <1>1, Popped DEF Holds
  <2> QED
    BY <1>1, <1>3, <2>1, <2>2, TickSame, CommandSame, ShutdownSame DEF RestTyped
<1>6. DataTyped'
  <2>1. CASE jobs[t].write = "attempt"
    <3>1. /\ recorded' = [recorded EXCEPT ![jobs[t].attempt] = jobs[t].snapshot]
          /\ workspaces' = [workspaces EXCEPT ![t] = jobs[t].space] /\ UNCHANGED <<known, logged>>
      BY <2>1 DEF Commit
    <3>2. jobs[t].snapshot \in Snapshots
      BY <1>1, <1>2, <2>1 DEF JobShape
    <3>3. jobs[t].space \in {"ready", "retained"}
      BY <1>1, <1>2, <2>1 DEF JobShape, JobRecords
    <3> QED
      BY <1>1, <3>1, <3>2, <3>3 DEF Typed, DataTyped
  <2>2. CASE jobs[t].write = "task"
    <3>1. known' = [known EXCEPT ![t] = jobs[t].view] /\ UNCHANGED <<recorded, workspaces, logged>>
      BY <2>2 DEF Commit
    <3>2. jobs[t].view \in AllViews
      BY <1>2 DEF JobRecords
    <3> QED
      BY <1>1, <3>1, <3>2 DEF Typed, DataTyped
  <2>3. CASE jobs[t].write = "retained"
    <3>1. LogRetained(t) /\ UNCHANGED <<known, recorded>>
      BY <2>3 DEF Commit
    <3> QED
      BY <1>1, <3>1, LogTyped DEF LogRetained, Typed, DataTyped
  <2>4. CASE jobs[t].write = "unreserved"
    <3>1. /\ logged' = [logged EXCEPT ![t].last = "retained"] /\ workspaces' = [workspaces EXCEPT ![t] = "retained"]
          /\ UNCHANGED <<known, recorded>>
      BY <2>4 DEF Commit
    <3> DEFINE l == [logged[t] EXCEPT !.last = "retained"]
    <3>2. l \in Logged
      BY DEF Typed, DataTyped, Logged
    <3>3. logged' = [logged EXCEPT ![t] = l]
      BY <3>1 DEF Typed, DataTyped
    <3> HIDE DEF l
    <3> QED
      BY <1>1, <3>1, <3>2, <3>3 DEF Typed, DataTyped
  <2>5. CASE jobs[t].write \notin {"attempt", "task", "retained", "unreserved"}
    <3>1. UNCHANGED <<known, recorded, workspaces, logged>>
      BY <2>5 DEF Commit
    <3> QED
      BY <1>1, <3>1, DataSame
  <2> QED
    BY <2>1, <2>2, <2>3, <2>4, <2>5
<1> QED
  BY <1>1, <1>3, <1>4, <1>5, <1>6 DEF Typed

LEMMA OtherTyped ==
  ASSUME Typed, DataTyped', SchedulerTyped', UNCHANGED <<runs, jobs, lock, command, tick, shutdown, scenario>>
  PROVE  Typed'
BY RunsSame, JobsSame, RestSame DEF Typed

\* The scheduler is restored from the projection.
Restored ==
  [a \in AttemptIds |-> IF recorded[a] # None /\ known[recorded[a].task] # None THEN recorded[a] ELSE None]
Claimant(t) == CHOOSE a \in Claimants(Restored, t) : TRUE

LEMMA RestoreStep ==
  ASSUME EnsureScheduler
  PROVE  /\ attempts' = Restored /\ schedulerUp' = TRUE /\ ~schedulerUp
         /\ claims' = [t \in Tasks |-> IF Claimants(Restored, t) = {} THEN None ELSE Claimant(t)]
         /\ retries' = [t \in Tasks |-> IF Claimants(Restored, t) # {} /\ Waits(Restored[Claimant(t)], t)
                                        THEN NextRetry(Restored[Claimant(t)]) ELSE None]
         /\ UNCHANGED <<tracker, projection, disk, runs, jobs, lock, command, tick, shutdown, bounds>>
BY DEF EnsureScheduler, Restored, Claimant

LEMMA RestoredTyped ==
  ASSUME Typed
  PROVE  /\ Restored \in [AttemptIds -> Snapshots \cup {None}]
         /\ \A t \in Tasks : Claimants(Restored, t) # {} =>
              /\ Claimant(t) \in Claimants(Restored, t) /\ Claimant(t) \in AttemptIds
              /\ Restored[Claimant(t)] \in Snapshots
<1>1. Restored \in [AttemptIds -> Snapshots \cup {None}]
  BY DEF Restored, Typed, DataTyped
<1>2. ASSUME NEW t \in Tasks, Claimants(Restored, t) # {}
      PROVE  /\ Claimant(t) \in Claimants(Restored, t) /\ Claimant(t) \in AttemptIds
             /\ Restored[Claimant(t)] \in Snapshots
  <2>1. Claimant(t) \in Claimants(Restored, t)
    BY <1>2 DEF Claimant
  <2>2. Claimant(t) \in AttemptIds /\ Restored[Claimant(t)] # None
    BY <2>1 DEF Claimants, Latest
  <2> QED
    BY <1>1, <2>1, <2>2
<1> QED
  BY <1>1, <1>2

LEMMA RetryTyped ==
  ASSUME NEW s \in Snapshots
  PROVE  NextRetry(s) \in RetryRecords /\ NextRetry(s) # None
<1>1. NextRetry(s) \in RetryRecords
  BY DEF NextRetry, RetryRecords
<1> QED
  BY <1>1, NoneApart

LEMMA EnsureSchedulerTyped ==
  ASSUME Typed, EnsureScheduler
  PROVE  Typed'
<1>1. DataTyped' /\ UNCHANGED <<runs, jobs, lock, command, tick, shutdown, scenario>>
  BY RestoreStep, DataSame DEF projection, disk, bounds
<1>2. attempts' \in [AttemptIds -> Snapshots \cup {None}]
  BY RestoreStep, RestoredTyped
<1>3. claims' \in [Tasks -> AttemptIds \cup {None}]
  BY RestoreStep, RestoredTyped
<1>4. retries' \in [Tasks -> RetryRecords \cup {None}]
  BY RestoreStep, RestoredTyped, RetryTyped
<1> QED
  BY <1>1, <1>2, <1>3, <1>4, OtherTyped, RestoreStep DEF SchedulerTyped

\* A step of the tick.
LEMMA TickTyped ==
  ASSUME Typed, DataTyped', SchedulerTyped', RunsTyped', RunsStay, JobsTyped', UNCHANGED <<command, shutdown, scenario>>,
         lock' \in Seq(Tasks \cup {"tick", "command"}), InSection',
         tick' \in TickRecords \cup {Idle}, TickShape'
  PROVE  Typed'
BY CommandSame, ShutdownSame DEF Typed, RestTyped

LEMMA NewTickTyped ==
  ASSUME NEW seen \in [Tasks -> AllViews \cup {None}], tick' = NewTick(seen)
  PROVE  tick' \in TickRecords \cup {Idle} /\ TickShape'
<1>1. tick' \in TickRecords /\ tick'.pc = "reconcile"
  BY DEF NewTick, TickRecords, TickPcs, TickWrites, TickNexts, TickNotes
<1> QED
  BY <1>1 DEF TickShape, Where

LEMMA RefreshTyped ==
  ASSUME Typed, Refresh
  PROVE  Typed'
<1>1. /\ known' = tracker /\ UNCHANGED <<runs, jobs, lock, command, shutdown, scenario>> /\ SchedulerTyped'
      /\ tick' = NewTick(tracker)
      /\ UNCHANGED <<tracker, recorded, workspaces, index, logged, drawn, given, restarts>>
  BY SchedulerSame DEF Refresh, disk, scheduler, bounds
<1>2. DataTyped'
  BY <1>1 DEF Typed, DataTyped
<1>3. tracker \in [Tasks -> AllViews \cup {None}]
  BY DEF Typed, DataTyped
<1> QED
  BY <1>1, <1>2, <1>3, NewTickTyped, TickTyped, RunsSame, JobsSame, LockSame, SectionStays

LEMMA RetryTimerTyped ==
  ASSUME Typed, NEW t \in Tasks, RetryTimer(t)
  PROVE  Typed'
<1>1. /\ UNCHANGED <<runs, jobs, lock, command, shutdown, scenario>> /\ DataTyped'
      /\ tick' = NewTick(known) /\ retries[t] # None /\ retries' = [retries EXCEPT ![t].due = TRUE]
      /\ UNCHANGED <<schedulerUp, attempts, claims>>
  BY DataSame DEF RetryTimer, HasTimer, projection, disk, bounds
<1>2. SchedulerTyped'
  <2>1. retries[t] \in RetryRecords
    BY <1>1 DEF Typed, SchedulerTyped
  <2>2. [retries[t] EXCEPT !.due = TRUE] \in RetryRecords
    BY <2>1 DEF RetryRecords
  <2>3. retries' = [retries EXCEPT ![t] = [retries[t] EXCEPT !.due = TRUE]]
    BY <1>1 DEF Typed, SchedulerTyped
  <2> QED
    BY <1>1, <2>2, <2>3 DEF Typed, SchedulerTyped
<1>3. known \in [Tasks -> AllViews \cup {None}]
  BY DEF Typed, DataTyped
<1> QED
  BY <1>1, <1>2, <1>3, NewTickTyped, TickTyped, RunsSame, JobsSame, LockSame, SectionStays

\* What the tick keeps of the Tasks it has gone through.
Cancelable ==
  {a \in AttemptIds : /\ attempts[a] # None /\ attempts[a].status \in Live \cup {"paused"}
                      /\ attempts[a].controller # "codex" /\ ViewOf(attempts[a].task) # "eligible"}
Given == {t \in Tasks : ViewOf(t) # "eligible" /\ (retries[t] # None \/ \E a \in Cancelable : attempts[a].task = t)}

LEMMA ReconcileStep ==
  ASSUME Reconcile
  PROVE  /\ tick.pc = "reconcile" /\ schedulerUp
         /\ attempts' = [a \in AttemptIds |->
              IF a \in Cancelable THEN [attempts[a] EXCEPT !.status = "canceled_by_reconciliation"] ELSE attempts[a]]
         /\ claims' = [t \in Tasks |-> IF t \in Given THEN None ELSE claims[t]]
         /\ retries' = [t \in Tasks |-> IF t \in Given THEN None ELSE retries[t]]
         /\ tick' = [tick EXCEPT !.pc = "cancel", !.stopped = Cancelable,
                                 !.closed = {t \in Given : ViewOf(t) = "closed"}]
         /\ UNCHANGED <<tracker, projection, disk, schedulerUp, runs, jobs, lock, command, shutdown, bounds>>
BY DEF Reconcile, Cancelable, Given, TickAt

LEMMA ATick ==
  ASSUME Typed, tick.pc # "idle"
  PROVE  tick \in TickRecords
BY DEF Typed, RestTyped, Idle

LEMMA ReconcileTyped ==
  ASSUME Typed, Reconcile
  PROVE  Typed'
<1>1. /\ tick \in TickRecords /\ DataTyped'
      /\ UNCHANGED <<schedulerUp, runs, jobs, lock, command, shutdown, scenario>>
  BY ReconcileStep, ATick, DataSame DEF projection, disk, bounds
<1>2. attempts' \in [AttemptIds -> Snapshots \cup {None}]
  <2>1. "canceled_by_reconciliation" \in Live \cup Terminal \cup {"paused"}
    BY DEF Terminal
  <2>2. ASSUME NEW a \in Cancelable
        PROVE  [attempts[a] EXCEPT !.status = "canceled_by_reconciliation"] \in Snapshots
    <3>1. attempts[a] \in Snapshots
      BY DEF Cancelable, Typed, SchedulerTyped
    <3> QED
      BY <2>1, <3>1, SnapStatus
  <2>3. attempts \in [AttemptIds -> Snapshots \cup {None}]
    BY DEF Typed, SchedulerTyped
  <2> QED
    BY <2>2, <2>3, ReconcileStep
<1>3. SchedulerTyped'
  BY <1>1, <1>2, ReconcileStep DEF Typed, SchedulerTyped
<1>4. tick' \in TickRecords /\ tick'.pc = "cancel"
  <2>1. Cancelable \in SUBSET AttemptIds /\ {t \in Given : ViewOf(t) = "closed"} \in SUBSET Tasks
    BY DEF Cancelable, Given
  <2> DEFINE c == Cancelable
             d == {t \in Given : ViewOf(t) = "closed"}
  <2>2. tick' = [tick EXCEPT !.pc = "cancel", !.stopped = c, !.closed = d]
    BY ReconcileStep
  <2>3. c \in SUBSET AttemptIds /\ d \in SUBSET Tasks
    BY <2>1
  <2> HIDE DEF c, d
  <2> QED
    BY <1>1, <2>2, <2>3 DEF TickRecords, TickPcs
<1>5. TickShape'
  BY <1>4 DEF TickShape, Where
<1> QED
  BY <1>1, <1>3, <1>4, <1>5, TickTyped, RunsSame, JobsSame, LockSame, SectionStays
\* What the tick stops next.
Rest(a) == [tick EXCEPT !.stopped = @ \ {a}]

\* The tick waits for its place in the FIFO.
TickWriting(k, w, t, a, s, p) ==
  [k EXCEPT !.pc = "append", !.write = w, !.task = t, !.attempt = a, !.snapshot = s, !.next = p]

LEMMA TickWritingIs ==
  ASSUME NEW k \in TickRecords, NEW t \in Tasks, NEW a \in AttemptIds \cup {None},
         NEW s \in TickNotes, NEW p \in TickNexts, NEW w \in TickWrites
  PROVE  LET q == TickWriting(k, w, t, a, s, p) IN
         /\ q \in TickRecords /\ q.pc = "append" /\ q.write = w /\ q.task = t /\ q.attempt = a
         /\ q.snapshot = s /\ q.next = p /\ q.stopped = k.stopped
<1>1. "append" \in TickPcs
  BY DEF TickPcs
<1> QED
  BY <1>1 DEF TickRecords, TickWriting

LEMMA TickWords ==
  /\ "ending" \in TickNexts /\ "cancel" \in TickNexts /\ "retries" \in TickNexts /\ "retry" \in TickNexts
  /\ "attempt" \in TickWrites /\ "retained" \in TickWrites /\ "released" \in TickWrites /\ "task" \in TickWrites
  /\ "ending" \in TickPcs /\ "cancel" \in TickPcs /\ "retries" \in TickPcs /\ "append" \in TickPcs
  /\ "retry" \in TickPcs
  /\ None \in TickNotes /\ "tick" \in Enders
  /\ \A s \in Snapshots : s \in TickNotes
  /\ \A v \in AllViews : v \in TickNotes
BY DEF TickNexts, TickWrites, TickPcs, TickNotes, Enders

LEMMA RestIs ==
  ASSUME Typed, NEW a, tick \in TickRecords
  PROVE  /\ Rest(a) \in TickRecords /\ Rest(a).pc = tick.pc /\ Rest(a).stopped = tick.stopped \ {a}
         /\ Rest(a).attempt = tick.attempt
BY DEF Rest, TickRecords

\* A step of the tick that lets the runs and the jobs be.
LEMMA TickOnly ==
  ASSUME Typed, DataTyped', SchedulerTyped', UNCHANGED <<runs, jobs, command, shutdown, scenario>>,
         lock' = lock \/ lock' = Append(lock, "tick"), tick' \in TickRecords \cup {Idle}, TickShape'
  PROVE  Typed'
<1>1. InSection' /\ lock' \in Seq(Tasks \cup {"tick", "command"})
  BY SectionStays, LockSame, Pushed
<1> QED
  BY <1>1, TickTyped, RunsSame, JobsSame

CancelRun(a) ==
  /\ Listed(a) /\ runs' = [runs EXCEPT ![a] = Stop("tick", @)]
  /\ tick' = [Rest(a) EXCEPT !.pc = "ending", !.attempt = a] /\ UNCHANGED <<index, lock>>
CancelRecord(a) ==
  LET s == [recorded[a] EXCEPT !.status = "canceled_by_reconciliation"]
  IN  /\ ~Listed(a) /\ recorded[a] # None /\ recorded[a].status \notin Terminal /\ recorded[a].controller # "codex"
      /\ index' = [index EXCEPT ![a] = s] /\ lock' = Append(lock, "tick") /\ UNCHANGED runs
      /\ tick' = [Rest(a) EXCEPT !.pc = "append", !.write = "attempt", !.task = s.task, !.attempt = a, !.snapshot = s,
                                 !.next = "cancel"]

LEMMA CancelStep ==
  ASSUME Cancel
  PROVE  /\ tick.pc = "cancel" /\ UNCHANGED <<tracker, projection, logged, scheduler, jobs, command, shutdown, bounds>>
         /\ \E a \in tick.stopped :
              CancelRun(a) \/ CancelRecord(a) \/ (tick' = Rest(a) /\ UNCHANGED <<index, lock, runs>>)
BY DEF Cancel, TickAt, CancelRun, CancelRecord, Rest

LEMMA CancelTyped ==
  ASSUME Typed, Cancel
  PROVE  Typed'
<1>1. /\ tick \in TickRecords /\ tick.pc = "cancel" /\ SchedulerTyped'
      /\ UNCHANGED <<tracker, known, recorded, workspaces, logged, drawn, given, restarts>>
      /\ UNCHANGED <<jobs, command, shutdown, scenario>>
  BY CancelStep, ATick, SchedulerSame DEF projection, scheduler, bounds
<1>2. PICK a \in tick.stopped :
        CancelRun(a) \/ CancelRecord(a) \/ (tick' = Rest(a) /\ UNCHANGED <<index, lock, runs>>)
  BY CancelStep
<1>3. a \in AttemptIds
  BY <1>1 DEF TickRecords
<1>4. Rest(a) \in TickRecords /\ Rest(a).pc = "cancel" /\ Rest(a).stopped \subseteq AttemptIds
  BY <1>1, RestIs DEF TickRecords
<1>5. CASE CancelRun(a)
  <2>1. runs[a] # None /\ runs[a] \in RunRecords
    BY <1>3, <1>5, ARun DEF CancelRun, Listed
  <2>2. "tick" \in Enders
    BY DEF Enders
  <2> DEFINE r == Stop("tick", runs[a])
             q == [Rest(a) EXCEPT !.pc = "ending", !.attempt = a]
  <2>3. r \in RunRecords
    BY <2>1, <2>2, RunStop
  <2>4. runs' = [runs EXCEPT ![a] = r] /\ tick' = q /\ UNCHANGED <<index, lock>>
    BY <1>5 DEF CancelRun
  <2>5. q \in TickRecords /\ q.pc = "ending" /\ q.attempt = a
    BY <1>3, <1>4, TickWords DEF TickRecords
  <2> HIDE DEF r, q
  <2>6. RunsTyped' /\ RunsStay /\ runs'[a] = r
    BY <1>3, <2>3, <2>4, RunSet
  <2>7. TickShape'
    BY <1>3, <2>3, <2>4, <2>5, <2>6, NoneApart DEF TickShape, Where
  <2>8. DataTyped'
    BY <1>1, <2>4, DataSame
  <2> QED
    BY <1>1, <2>4, <2>5, <2>6, <2>7, <2>8, TickTyped, JobsSame, LockSame, SectionStays
<1>6. CASE CancelRecord(a)
  <2> DEFINE s == [recorded[a] EXCEPT !.status = "canceled_by_reconciliation"]
             q == TickWriting(Rest(a), "attempt", s.task, a, s, "cancel")
  <2>1. recorded[a] \in Snapshots
    BY <1>3, <1>6 DEF CancelRecord, Typed, DataTyped
  <2>2. s \in Snapshots
    <3>1. "canceled_by_reconciliation" \in Live \cup Terminal \cup {"paused"}
      BY DEF Terminal
    <3> QED
      BY <2>1, <3>1, SnapStatus
  <2>3. index' = [index EXCEPT ![a] = s] /\ lock' = Append(lock, "tick") /\ runs' = runs
    BY <1>6 DEF CancelRecord
  <2>4. tick' = q
    BY <1>6 DEF CancelRecord, TickWriting
  <2> HIDE DEF s
  <2>5. s.task \in Tasks /\ "cancel" \in TickNexts /\ s # None
    BY <2>2, NoneApart, TickWords DEF Snapshots
  <2>6. /\ q \in TickRecords /\ q.pc = "append" /\ q.write = "attempt" /\ q.task = s.task /\ q.attempt = a
        /\ q.snapshot = s /\ q.next = "cancel"
    BY <1>3, <1>4, <2>2, <2>5, TickWritingIs, TickWords
  <2> HIDE DEF q
  <2>7. TickShape'
    BY <1>3, <2>2, <2>4, <2>5, <2>6, NoneApart DEF TickShape, Where
  <2>8. DataTyped'
    BY <1>1, <2>2, <2>3 DEF Typed, DataTyped
  <2> QED
    BY <1>1, <2>3, <2>4, <2>6, <2>7, <2>8, TickOnly
<1>7. CASE tick' = Rest(a) /\ UNCHANGED <<index, lock, runs>>
  <2>1. DataTyped'
    BY <1>1, <1>7, DataSame
  <2>2. TickShape'
    BY <1>4, <1>7 DEF TickShape, Where
  <2> QED
    BY <1>1, <1>4, <1>7, <2>1, <2>2, TickOnly
<1> QED
  BY <1>2, <1>5, <1>6, <1>7

\* The steps of the tick that ends the run of a.
EndsRetained(a) ==
  /\ runs[a].ends["tick"] = "retained" /\ runs' = [runs EXCEPT ![a] = KeptBy("tick", runs[a])]
  /\ tick' = TickWriting(tick, "retained", runs[a].attempt.task, a, None, "ending")
  /\ lock' = Append(lock, "tick") /\ UNCHANGED index
EndsStatus(a, s) ==
  /\ runs[a].ends["tick"] = "status" /\ runs' = [runs EXCEPT ![a] = NotedBy("tick", runs[a], s)]
  /\ s = [runs[a].attempt EXCEPT !.status = "canceled_by_reconciliation"]
  /\ index' = [index EXCEPT ![a] = s]
  /\ tick' = TickWriting(tick, "attempt", runs[a].attempt.task, a, s, "ending") /\ lock' = Append(lock, "tick")
EndsSettle(a) ==
  /\ runs[a].ends["tick"] = "settle" /\ runs' = [runs EXCEPT ![a] = OverBy("tick", runs[a])]
  /\ tick' = [tick EXCEPT !.pc = "cancel"] /\ UNCHANGED <<index, lock>>
EndsFailed(a) ==
  runs[a].ends["tick"] = "failed" /\ tick' = [pc |-> "idle"] /\ UNCHANGED <<index, lock, runs>>

LEMMA TickEndsStep ==
  ASSUME Typed, TickEnds, NEW a, a = tick.attempt
  PROVE  /\ tick.pc = "ending" /\ tick \in TickRecords /\ a \in AttemptIds
         /\ runs[a] # None /\ runs[a] \in RunRecords /\ runs[a].attempt \in Snapshots
         /\ UNCHANGED <<tracker, projection, logged, scheduler, jobs, command, shutdown, bounds>>
         /\ \/ EndsRetained(a) \/ EndsSettle(a) \/ EndsFailed(a)
            \/ \E s \in Snapshots : EndsStatus(a, s) /\ s.task = runs[a].attempt.task
<1>1. tick.pc = "ending" /\ tick \in TickRecords
  BY ATick DEF TickEnds, TickAt
<1>2. a \in AttemptIds /\ runs[a] # None
  <2>1. tick.attempt \in AttemptIds \cup {None}
    BY <1>1 DEF TickRecords
  <2> QED
    BY <1>1, <2>1 DEF Typed, RestTyped, TickShape, Where
<1>3. runs[a] \in RunRecords /\ runs[a].attempt \in Snapshots
  BY <1>2, ARun
<1> DEFINE s == [runs[a].attempt EXCEPT !.status = "canceled_by_reconciliation"]
<1>4. s \in Snapshots /\ s.task = runs[a].attempt.task
  <2>1. "canceled_by_reconciliation" \in Live \cup Terminal \cup {"paused"}
    BY DEF Terminal
  <2> QED
    BY <1>3, <2>1, SnapStatus
<1>5. runs \in [AttemptIds -> RunRecords \cup {None}]
  BY DEF Typed, RunsTyped
<1>6. ASSUME runs[a].ends["tick"] = "retained",
             runs' = [runs EXCEPT ![a].workspace = "retained", ![a].ends["tick"] = "status"],
             TickAppend("retained", runs[a].attempt.task, a, None, "ending"), UNCHANGED index
      PROVE  EndsRetained(a)
  <2>1. runs' = [runs EXCEPT ![a] = KeptBy("tick", runs[a])]
    BY <1>5, <1>6 DEF KeptBy
  <2> QED
    BY <1>6, <2>1 DEF EndsRetained, TickAppend, TickWriting
<1>7. ASSUME runs[a].ends["tick"] = "status",
             runs' = [runs EXCEPT ![a].attempt = s, ![a].ends["tick"] = "settle"],
             index' = [index EXCEPT ![a] = s], TickAppend("attempt", runs[a].attempt.task, a, s, "ending")
      PROVE  EndsStatus(a, s)
  <2>1. runs' = [runs EXCEPT ![a] = NotedBy("tick", runs[a], s)]
    BY <1>2, <1>3, <1>5, <1>7 DEF NotedBy
  <2> QED
    BY <1>7, <2>1 DEF EndsStatus, TickAppend, TickWriting
<1>8. ASSUME runs[a].ends["tick"] = "settle",
             runs' = [runs EXCEPT ![a] = [Settled(@) EXCEPT !.ends["tick"] = "done"]],
             TickTo("cancel"), UNCHANGED <<index, lock>>
      PROVE  EndsSettle(a)
  BY <1>8 DEF EndsSettle, OverBy, TickTo
<1>9. ASSUME runs[a].ends["tick"] = "failed", TickFails, UNCHANGED <<index, lock, runs>>
      PROVE  EndsFailed(a)
  BY <1>9 DEF EndsFailed, TickFails
<1>10. EndsRetained(a) \/ EndsStatus(a, s) \/ EndsSettle(a) \/ EndsFailed(a)
  BY <1>6, <1>7, <1>8, <1>9 DEF TickEnds
<1>11. UNCHANGED <<tracker, projection, logged, scheduler, jobs, command, shutdown, bounds>>
  BY DEF TickEnds
<1> HIDE DEF s
<1> QED
  BY <1>1, <1>2, <1>3, <1>4, <1>10, <1>11

LEMMA TickEndsTyped ==
  ASSUME Typed, TickEnds
  PROVE  Typed'
<1> DEFINE a == tick.attempt
<1>1. /\ tick \in TickRecords /\ a \in AttemptIds /\ runs[a] # None /\ runs[a] \in RunRecords
      /\ runs[a].attempt.task \in Tasks /\ SchedulerTyped'
      /\ UNCHANGED <<tracker, known, recorded, workspaces, logged, drawn, given, restarts>>
      /\ UNCHANGED <<jobs, command, shutdown, scenario>>
      /\ \/ EndsRetained(a) \/ EndsSettle(a) \/ EndsFailed(a)
         \/ \E s \in Snapshots : EndsStatus(a, s) /\ s.task = runs[a].attempt.task
  <2>1. SchedulerTyped'
    BY TickEndsStep, SchedulerSame DEF scheduler
  <2> QED
    BY <2>1, TickEndsStep, ARun DEF projection, bounds
<1>2. "tick" \in Enders /\ "ending" \in TickNexts
  BY TickWords
<1> HIDE DEF a
<1>3. CASE EndsRetained(a)
  <2> DEFINE r == KeptBy("tick", runs[a])
             q == TickWriting(tick, "retained", runs[a].attempt.task, a, None, "ending")
  <2>1. r \in RunRecords
    BY <1>1, <1>2, RunKept
  <2>2. runs' = [runs EXCEPT ![a] = r] /\ tick' = q /\ lock' = Append(lock, "tick") /\ index' = index
    BY <1>3 DEF EndsRetained
  <2>3. q \in TickRecords /\ q.pc = "append" /\ q.write = "retained" /\ q.task \in Tasks /\ q.next = "ending" /\ q.attempt = a
    BY <1>1, <1>2, TickWritingIs, TickWords
  <2> HIDE DEF r, q
  <2>4. RunsTyped' /\ RunsStay /\ runs'[a] = r
    BY <1>1, <2>1, <2>2, RunSet
  <2>5. TickShape'
    BY <1>1, <2>1, <2>2, <2>3, <2>4, NoneApart DEF TickShape, Where
  <2>6. DataTyped'
    BY <1>1, <2>2, DataSame
  <2> QED
    BY <1>1, <2>2, <2>3, <2>4, <2>5, <2>6, TickTyped, JobsSame, Pushed, SectionStays
<1>4. ASSUME NEW s \in Snapshots, EndsStatus(a, s)
      PROVE  Typed'
  <2> DEFINE r == NotedBy("tick", runs[a], s)
             q == TickWriting(tick, "attempt", runs[a].attempt.task, a, s, "ending")
  <2>1. r \in RunRecords
    BY <1>1, <1>2, RunNoted
  <2>2. runs' = [runs EXCEPT ![a] = r] /\ tick' = q /\ lock' = Append(lock, "tick") /\ index' = [index EXCEPT ![a] = s]
    BY <1>4 DEF EndsStatus
  <2>3. /\ q \in TickRecords /\ q.pc = "append" /\ q.write = "attempt" /\ q.task \in Tasks /\ q.next = "ending"
        /\ q.attempt = a /\ q.snapshot = s
    BY <1>1, <1>2, TickWritingIs, TickWords
  <2> HIDE DEF r, q
  <2>4. RunsTyped' /\ RunsStay /\ runs'[a] = r
    BY <1>1, <2>1, <2>2, RunSet
  <2>5. TickShape'
    BY <1>1, <2>1, <2>2, <2>3, <2>4, NoneApart DEF TickShape, Where
  <2>6. DataTyped'
    BY <1>1, <2>2 DEF Typed, DataTyped
  <2> QED
    BY <1>1, <2>2, <2>3, <2>4, <2>5, <2>6, TickTyped, JobsSame, Pushed, SectionStays
<1>5. CASE EndsSettle(a)
  <2> DEFINE r == OverBy("tick", runs[a])
             q == [tick EXCEPT !.pc = "cancel"]
  <2>1. r \in RunRecords
    BY <1>1, <1>2, RunOver
  <2>2. runs' = [runs EXCEPT ![a] = r] /\ tick' = q /\ UNCHANGED <<index, lock>>
    BY <1>5 DEF EndsSettle
  <2>3. q \in TickRecords /\ q.pc = "cancel"
    BY <1>1, TickWords DEF TickRecords
  <2> HIDE DEF r, q
  <2>4. RunsTyped' /\ RunsStay
    BY <1>1, <2>1, <2>2, RunSet
  <2>5. TickShape'
    BY <2>2, <2>3 DEF TickShape, Where
  <2>6. DataTyped'
    BY <1>1, <2>2, DataSame
  <2> QED
    BY <1>1, <2>2, <2>3, <2>4, <2>5, <2>6, TickTyped, JobsSame, LockSame, SectionStays
<1>6. CASE EndsFailed(a)
  <2>1. tick' = [pc |-> "idle"] /\ UNCHANGED <<index, lock, runs>>
    BY <1>6 DEF EndsFailed
  <2>2. DataTyped'
    BY <1>1, <2>1, DataSame
  <2> QED
    BY <1>1, <2>1, <2>2, IdleTick, TickOnly
<1> QED
  BY <1>1, <1>3, <1>4, <1>5, <1>6
LEMMA TickCommitTyped ==
  ASSUME Typed, TickCommit
  PROVE  Typed'
<1> DEFINE q == [tick EXCEPT !.pc = tick.next]
<1>1. /\ tick.pc = "append" /\ tick \in TickRecords /\ Holds("tick") /\ lock' = Tail(lock) /\ tick' = q
      /\ UNCHANGED <<runs, jobs, command, shutdown, scenario>> /\ SchedulerTyped'
      /\ UNCHANGED <<tracker, index, drawn, given, restarts>>
  BY ATick, SchedulerSame DEF TickCommit, TickAt, TickTo, scheduler, bounds
<1>2. /\ tick.task \in Tasks
      /\ tick.write = "attempt" => tick.snapshot \in Snapshots /\ tick.attempt \in AttemptIds
      /\ tick.write = "task" => tick.snapshot \in AllViews
  BY <1>1 DEF Typed, RestTyped, TickShape, TickRecords, Where
<1>3. /\ q \in TickRecords /\ q.pc = tick.next /\ q.next = tick.next /\ q.pc \in TickNexts /\ q.snapshot = tick.snapshot
      /\ q.task = tick.task /\ q.attempt = tick.attempt
  <2>1. tick.next \in TickNexts /\ tick.next \in TickPcs
    BY <1>1 DEF TickRecords, TickPcs, TickNexts
  <2> QED
    BY <1>1, <2>1 DEF TickRecords
<1> HIDE DEF q
<1>4. RunsTyped' /\ RunsStay /\ JobsTyped'
  BY <1>1, RunsSame, JobsSame
<1>5. TickShape'
  <2>1. q.pc # "append"
    BY <1>3 DEF TickNexts
  <2> QED
    BY <1>1, <1>2, <1>3, <2>1 DEF Typed, RestTyped, TickShape, Where
<1>6. lock' \in Seq(Tasks \cup {"tick", "command"}) /\ InSection'
  BY <1>1, SectionLeft, Popped DEF Holds
<1>7. DataTyped'
  <2>1. CASE tick.write = "attempt"
    <3>1. /\ recorded' = [recorded EXCEPT ![tick.attempt] = tick.snapshot]
          /\ workspaces' = [workspaces EXCEPT ![tick.task] =
                                IF runs[tick.attempt] # None THEN runs[tick.attempt].workspace ELSE @]
          /\ UNCHANGED <<known, logged>>
      BY <2>1 DEF TickCommit
    <3>2. runs[tick.attempt] # None => runs[tick.attempt].workspace \in {"ready", "retained"}
      BY <1>2, <2>1, ARun
    <3> QED
      BY <1>1, <1>2, <2>1, <3>1, <3>2 DEF Typed, DataTyped
  <2>2. CASE tick.write = "task"
    <3>1. known' = [known EXCEPT ![tick.task] = tick.snapshot] /\ UNCHANGED <<recorded, workspaces, logged>>
      BY <2>2 DEF TickCommit
    <3> QED
      BY <1>1, <1>2, <2>2, <3>1 DEF Typed, DataTyped
  <2>3. CASE tick.write \in {"retained", "released"}
    <3>1. (LogRetained(tick.task) \/ LogReleased(tick.task)) /\ UNCHANGED <<known, recorded>>
      BY <2>3 DEF TickCommit
    <3> QED
      BY <1>1, <1>2, <3>1, LogTyped DEF LogRetained, LogReleased, Typed, DataTyped
  <2>4. CASE tick.write \notin {"attempt", "task", "retained", "released"}
    <3>1. UNCHANGED <<known, recorded, workspaces, logged>>
      BY <2>4 DEF TickCommit
    <3> QED
      BY <1>1, <3>1, DataSame
  <2> QED
    BY <2>1, <2>2, <2>3, <2>4
<1> QED
  BY <1>1, <1>3, <1>4, <1>5, <1>6, <1>7, TickTyped

LEMMA CleanupTyped ==
  ASSUME Typed, Cleanup
  PROVE  Typed'
<1>1. /\ tick.pc = "cancel" /\ tick \in TickRecords /\ DataTyped' /\ SchedulerTyped'
      /\ UNCHANGED <<runs, jobs, command, shutdown, scenario>> /\ tick.closed \subseteq Tasks /\ tick.due \subseteq Tasks
  <2>1. tick.pc = "cancel" /\ tick \in TickRecords
    BY ATick DEF Cleanup, TickAt
  <2> QED
    BY <2>1, DataSame, SchedulerSame DEF Cleanup, projection, disk, scheduler, bounds, TickRecords
<1>2. CASE lock' = lock /\ tick' = [tick EXCEPT !.pc = "retries",
             !.due = {t \in Tasks : retries[t] # None /\ retries[t].automatic /\ retries[t].due}]
  <2> DEFINE d == {t \in Tasks : retries[t] # None /\ retries[t].automatic /\ retries[t].due}
  <2>1. d \in SUBSET Tasks /\ tick' = [tick EXCEPT !.pc = "retries", !.due = d]
    BY <1>2
  <2> HIDE DEF d
  <2>2. tick' \in TickRecords /\ tick'.pc = "retries"
    BY <1>1, <2>1, TickWords DEF TickRecords
  <2>3. TickShape'
    BY <2>2 DEF TickShape, Where
  <2> QED
    BY <1>1, <1>2, <2>2, <2>3, TickOnly
<1>3. ASSUME NEW t \in Tasks, lock' = lock, tick' = [tick EXCEPT !.closed = @ \ {t}]
      PROVE  Typed'
  <2>1. tick' \in TickRecords /\ tick'.pc = "cancel"
    BY <1>1, <1>3 DEF TickRecords
  <2>2. TickShape'
    BY <2>1 DEF TickShape, Where
  <2> QED
    BY <1>1, <1>3, <2>1, <2>2, TickOnly
<1>4. ASSUME NEW t \in Tasks, lock' = Append(lock, "tick"),
             tick' = [tick EXCEPT !.closed = @ \ {t}, !.pc = "append", !.task = t, !.write = "released", !.next = "cancel"]
      PROVE  Typed'
  <2>1. /\ tick' \in TickRecords /\ tick'.pc = "append" /\ tick'.task = t /\ tick'.write = "released"
        /\ tick'.next = "cancel"
    BY <1>1, <1>4, TickWords DEF TickRecords
  <2>2. TickShape'
    BY <2>1 DEF TickShape, Where
  <2> QED
    BY <1>1, <1>4, <2>1, <2>2, TickOnly
<1>5. CASE TickFails /\ UNCHANGED lock
  BY <1>1, <1>5, IdleTick, TickOnly DEF TickFails
<1> QED
  BY <1>1, <1>2, <1>3, <1>4, <1>5 DEF Cleanup

LEMMA ReadRetryTyped ==
  ASSUME Typed, ReadRetry
  PROVE  Typed'
<1>1. /\ tick.pc = "retries" /\ tick \in TickRecords /\ DataTyped' /\ SchedulerTyped'
      /\ UNCHANGED <<runs, jobs, command, shutdown, scenario>> /\ tick.due \subseteq Tasks
  <2>1. tick.pc = "retries" /\ tick \in TickRecords
    BY ATick DEF ReadRetry, TickAt
  <2> QED
    BY <2>1, DataSame, SchedulerSame DEF ReadRetry, projection, disk, scheduler, bounds, TickRecords
<1>2. ASSUME NEW t \in Tasks, lock' = Append(lock, "tick"),
             tick' = [tick EXCEPT !.pc = "append", !.write = "task", !.task = t, !.snapshot = tracker[t], !.next = "retry"]
      PROVE  Typed'
  <2>1. tracker[t] \in AllViews
    BY DEF Typed, DataTyped
  <2>2. /\ tick' \in TickRecords /\ tick'.pc = "append" /\ tick'.task = t /\ tick'.write = "task"
        /\ tick'.next = "retry" /\ tick'.snapshot = tracker[t]
    BY <1>1, <1>2, <2>1, TickWords DEF TickRecords
  <2>3. TickShape'
    BY <2>1, <2>2 DEF TickShape, Where
  <2> QED
    BY <1>1, <1>2, <2>2, <2>3, TickOnly
<1>3. ASSUME NEW t \in Tasks, lock' = lock, tick' = [tick EXCEPT !.due = @ \ {t}]
      PROVE  Typed'
  <2>1. tick' \in TickRecords /\ tick'.pc = "retries"
    BY <1>1, <1>3 DEF TickRecords
  <2>2. TickShape'
    BY <2>1 DEF TickShape, Where
  <2> QED
    BY <1>1, <1>3, <2>1, <2>2, TickOnly
<1> QED
  BY <1>1, <1>2, <1>3 DEF ReadRetry

LEMMA TryRetryStep ==
  ASSUME Typed, TryRetry, NEW t, t = tick.task, NEW n, n = [tick EXCEPT !.pc = "retries", !.due = @ \ {t}]
  PROVE  /\ tick.pc = "retry" /\ tick \in TickRecords /\ t \in Tasks
         /\ n \in TickRecords /\ n.pc = "retries"
         /\ UNCHANGED <<tracker, projection, disk, schedulerUp, attempts, runs, command, shutdown, bounds>>
         /\ \/ /\ jobs' = IF Job(t) THEN jobs
                          ELSE [jobs EXCEPT ![t] = NewJob("run", "retry", FALSE, None, "eligible")]
               /\ tick' = n /\ UNCHANGED <<claims, retries, lock>>
            \/ TickFails /\ UNCHANGED <<claims, retries, lock, jobs>>
            \/ /\ retries[t] # None
               /\ retries' = [retries EXCEPT ![t] = None] /\ claims' = [claims EXCEPT ![t] = None]
               /\ UNCHANGED jobs
               /\ \/ tick' = n /\ UNCHANGED lock
                  \/ /\ lock' = Append(lock, "tick")
                     /\ tick' = [n EXCEPT !.pc = "append", !.write = "released", !.next = "retries"]
                  \/ TickFails /\ UNCHANGED lock
<1>1. tick.pc = "retry" /\ tick \in TickRecords
  BY ATick DEF TryRetry, TickAt
<1>2. t \in Tasks
  BY <1>1 DEF Typed, RestTyped, TickShape
<1>3. n \in TickRecords /\ n.pc = "retries"
  BY <1>1, TickWords DEF TickRecords
<1>4. UNCHANGED <<tracker, projection, disk, schedulerUp, attempts, runs, command, shutdown, bounds>>
  BY DEF TryRetry
<1>5. CASE tick.snapshot = "eligible"
  BY <1>1, <1>2, <1>3, <1>4, <1>5 DEF TryRetry
<1>6. CASE tick.snapshot # "eligible"
  <2>1. CASE retries[t] = None
    BY <1>1, <1>2, <1>3, <1>4, <1>6, <2>1 DEF TryRetry
  <2>2. CASE retries[t] # None
    BY <1>1, <1>2, <1>3, <1>4, <1>6, <2>2 DEF TryRetry
  <2> QED
    BY <2>1, <2>2
<1> QED
  BY <1>5, <1>6

LEMMA TryRetryTyped ==
  ASSUME Typed, TryRetry
  PROVE  Typed'
<1> DEFINE t == tick.task
           n == [tick EXCEPT !.pc = "retries", !.due = @ \ {t}]
           j == NewJob("run", "retry", FALSE, None, "eligible")
<1>1. /\ tick.pc = "retry" /\ tick \in TickRecords /\ t \in Tasks /\ n \in TickRecords /\ n.pc = "retries"
      /\ UNCHANGED <<runs, command, shutdown, scenario, schedulerUp, attempts>> /\ DataTyped'
      /\ \/ /\ jobs' = IF Job(t) THEN jobs ELSE [jobs EXCEPT ![t] = j]
            /\ tick' = n /\ UNCHANGED <<claims, retries, lock>>
         \/ TickFails /\ UNCHANGED <<claims, retries, lock, jobs>>
         \/ /\ retries[t] # None
            /\ retries' = [retries EXCEPT ![t] = None] /\ claims' = [claims EXCEPT ![t] = None]
            /\ UNCHANGED jobs
            /\ \/ tick' = n /\ UNCHANGED lock
               \/ /\ lock' = Append(lock, "tick")
                  /\ tick' = [n EXCEPT !.pc = "append", !.write = "released", !.next = "retries"]
               \/ TickFails /\ UNCHANGED lock
  BY TryRetryStep, DataSame DEF projection, disk, bounds
<1>2. j \in JobRecords /\ j.attempt = None /\ j.pc = "fetch" /\ j.kind = "run"
  BY Words DEF NewJob, JobRecords
<1> HIDE DEF j
<1>3. JobShape(j)
  BY <1>2, FreshJob
<1>4. JobsTyped'
  <2>1. RunsStay
    BY <1>1, RunsSame
  <2>2. CASE jobs' = jobs
    BY <2>1, <2>2, JobsSame
  <2>3. CASE jobs' = [jobs EXCEPT ![t] = j]
    <3> HIDE DEF t
    <3> QED
      BY <1>1, <1>2, <1>3, <2>1, <2>3, JobSet
  <2> HIDE DEF t, n
  <2> QED
    BY <1>1, <2>2, <2>3
<1>5. SchedulerTyped'
  <2> HIDE DEF n, t
  <2> QED
    BY <1>1 DEF Typed, SchedulerTyped
<1>6. tick' \in TickRecords \cup {Idle} /\ TickShape' /\ (lock' = lock \/ lock' = Append(lock, "tick"))
  <2>0. n.task = t
    BY <1>1 DEF TickRecords
  <2> HIDE DEF t, n
  <2>1. CASE tick' = n /\ UNCHANGED lock
    BY <1>1, <2>1 DEF TickShape, Where
  <2>2. CASE TickFails /\ UNCHANGED lock
    BY <2>2, IdleTick DEF TickFails
  <2>3. CASE /\ lock' = Append(lock, "tick")
             /\ tick' = [n EXCEPT !.pc = "append", !.write = "released", !.next = "retries"]
    <3>1. /\ tick' \in TickRecords /\ tick'.pc = "append" /\ tick'.write = "released" /\ tick'.next = "retries"
          /\ tick'.task = t
      BY <1>1, <2>0, <2>3, TickWords DEF TickRecords
    <3> QED
      BY <1>1, <2>3, <3>1 DEF TickShape, Where
  <2> QED
    BY <1>1, <2>1, <2>2, <2>3
<1>7. RunsTyped' /\ RunsStay
  BY <1>1, RunsSame
<1> QED
  BY <1>1, <1>4, <1>5, <1>6, <1>7, TickTyped, LockSame, Pushed, SectionStays

LEMMA DispatchTyped ==
  ASSUME Typed, DispatchTick
  PROVE  Typed'
<1>1. /\ tick' = [pc |-> "idle"] /\ DataTyped' /\ SchedulerTyped' /\ UNCHANGED <<runs, lock, command, shutdown, scenario>>
  BY DataSame, SchedulerSame DEF DispatchTick, projection, disk, scheduler, bounds
<1> DEFINE j == NewJob("run", "dispatch", FALSE, None, "eligible")
<1>2. \E l \in SUBSET Tasks : jobs' = [t \in Tasks |-> IF t \in l THEN j ELSE jobs[t]]
  BY DEF DispatchTick
<1>3. j \in JobRecords /\ j.attempt = None /\ j.pc = "fetch" /\ j.kind = "run"
  BY Words DEF NewJob, JobRecords
<1> HIDE DEF j
<1>4. JobShape(j)
  BY <1>3, FreshJob
<1>5. JobsTyped'
  <2>1. PICK l \in SUBSET Tasks : jobs' = [t \in Tasks |-> IF t \in l THEN j ELSE jobs[t]]
    BY <1>2
  <2>2. ASSUME NEW t \in Tasks
        PROVE  /\ jobs'[t] \in JobRecords \cup {None}
               /\ jobs'[t] # None => /\ JobShape(jobs'[t])
                                     /\ (jobs'[t].attempt # None => runs'[jobs'[t].attempt] # None)
    <3>1. CASE t \in l
      BY <1>3, <1>4, <2>1, <3>1
    <3>2. CASE t \notin l
      <4>1. jobs'[t] = jobs[t]
        BY <2>1, <3>2
      <4> QED
        BY <1>1, <4>1, JobTyped DEF Typed, JobsTyped
    <3> QED
      BY <3>1, <3>2
  <2> QED
    BY <2>1, <2>2 DEF JobsTyped, JobShape
<1> QED
  BY <1>1, <1>5, IdleTick, TickTyped, RunsSame, LockSame, SectionStays

\* A step of the shutdown.
LEMMA ShutdownTyped ==
  ASSUME Typed, DataTyped', SchedulerTyped', RunsTyped', RunsStay, UNCHANGED <<jobs, tick, scenario>>,
         command' \in CommandRecords \cup {Idle}, CommandShape', InSection',
         lock' \in Seq(Tasks \cup {"tick", "command"}), shutdown' \in Shutdowns
  PROVE  Typed'
BY JobsSame, TickSame DEF Typed, RestTyped

LEMMA StopTyped ==
  ASSUME Typed, StopRequested \/ StopJobs
  PROVE  Typed'
<1>1. DataTyped' /\ SchedulerTyped' /\ UNCHANGED <<runs, jobs, lock, command, tick, scenario>>
  BY DataSame, SchedulerSame DEF StopRequested, StopJobs, projection, disk, scheduler, bounds
<1>2. shutdown' \in Shutdowns
  BY DEF StopRequested, StopJobs, Shutdowns, Typed, RestTyped
<1>3. RunsTyped' /\ RunsStay
  BY <1>1, RunsSame
<1> QED
  BY <1>1, <1>2, <1>3, ShutdownTyped, CommandSame, LockSame, SectionStays

LEMMA StopRunsTyped ==
  ASSUME Typed, StopRuns
  PROVE  Typed'
<1>1. /\ DataTyped' /\ SchedulerTyped' /\ UNCHANGED <<jobs, lock, command, tick, scenario>>
  BY DataSame, SchedulerSame DEF StopRuns, projection, disk, scheduler, bounds
<1> DEFINE listed == {a \in AttemptIds : Listed(a)}
           awaited == {a \in listed : runs[a].stopping \/ runs[a].attempt.status \in Terminal}
<1>2. /\ shutdown' = [pc |-> "runs", awaited |-> awaited, ended |-> listed \ awaited]
      /\ runs' = [a \in AttemptIds |-> IF a \in listed \ awaited THEN Stop("stop", runs[a]) ELSE runs[a]]
  BY DEF StopRuns
<1>3. shutdown' \in Shutdowns
  BY <1>2 DEF Shutdowns
<1>4. ASSUME NEW a \in AttemptIds
      PROVE  runs'[a] \in RunRecords \cup {None} /\ (runs[a] # None => runs'[a] # None)
  <2>1. CASE a \in listed \ awaited
    <3>1. runs[a] \in RunRecords
      BY <2>1, ARun DEF Listed
    <3>2. "stop" \in Enders
      BY DEF Enders
    <3>3. Stop("stop", runs[a]) \in RunRecords
      BY <3>1, <3>2, RunStop
    <3> QED
      BY <1>2, <2>1, <3>3, NoneApart
  <2>2. CASE a \notin listed \ awaited
    BY <1>2, <2>2 DEF Typed, RunsTyped
  <2> QED
    BY <2>1, <2>2
<1>5. RunsTyped' /\ RunsStay
  BY <1>2, <1>4 DEF RunsTyped, RunsStay
<1> QED
  BY <1>1, <1>3, <1>5, ShutdownTyped, CommandSame, LockSame, SectionStays

LEMMA StoppedTyped ==
  ASSUME Typed, Stopped
  PROVE  Typed'
<1>1. /\ DataTyped' /\ SchedulerTyped' /\ UNCHANGED <<runs, jobs, tick, scenario>>
      /\ command' = [pc |-> "idle"] /\ lock' = <<>>
  BY DataSame, SchedulerSame DEF Stopped, projection, disk, scheduler, bounds
<1>2. shutdown' \in Shutdowns
  BY DEF Stopped, Shutdowns, Typed, RestTyped
<1> QED
  BY <1>1, <1>2, ShutdownTyped, RunsSame, IdleCommand

LEMMA TrackerMovesTyped ==
  ASSUME Typed, NEW t \in Tasks, TrackerMoves(t)
  PROVE  Typed'
<1>1. SchedulerTyped' /\ UNCHANGED <<runs, jobs, lock, command, tick, shutdown, scenario>>
      /\ UNCHANGED <<known, recorded, workspaces, index, logged, drawn, given, restarts>>
  BY SchedulerSame DEF TrackerMoves, projection, disk, scheduler, bounds
<1>2. Views \subseteq AllViews
  BY ScenarioAssumption DEF Views, Typed, DataTyped, ScenarioRecords
<1>3. DataTyped'
  BY <1>1, <1>2 DEF TrackerMoves, Typed, DataTyped
<1> QED
  BY <1>1, <1>3, OtherTyped

LEMMA OrphanTyped ==
  ASSUME NEW s \in Snapshots \cup {None}
  PROVE  Orphan(s) \in Snapshots \cup {None}
<1>1. CASE s # None
  <2>1. "interrupted" \in Live \cup Terminal \cup {"paused"}
    BY DEF Terminal
  <2>2. [s EXCEPT !.status = "interrupted"] \in Snapshots
    BY <1>1, <2>1, SnapStatus
  <2> QED
    BY <2>2 DEF Orphan
<1>2. CASE s = None
  BY <1>2 DEF Orphan
<1> QED
  BY <1>1, <1>2

\* Nothing runs after a restart.
LEMMA RestartTyped ==
  ASSUME Typed, Restart
  PROVE  Typed'
<1>1. DataTyped'
  <2>1. \A a \in AttemptIds : Orphan(index[a]) \in Snapshots \cup {None}
    BY OrphanTyped DEF Typed, DataTyped
  <2>2. index' \in [AttemptIds -> Snapshots \cup {None}] /\ recorded' \in [AttemptIds -> Snapshots \cup {None}]
    BY <2>1 DEF Restart
  <2>3. \A t \in Tasks : logged[t].last \in {"none", "ready", "retained", "released"}
    BY DEF Typed, DataTyped, Logged
  <2>4. workspaces' \in [Tasks -> {"none", "ready", "retained", "released"}]
    BY <2>3 DEF Restart
  <2>5. known' \in [Tasks -> AllViews \cup {None}] /\ restarts' \in Nat
    BY DEF Restart, Typed, DataTyped
  <2>6. UNCHANGED <<tracker, logged, drawn, given, scenario>>
    BY DEF Restart
  <2> QED
    BY <2>2, <2>4, <2>5, <2>6 DEF Typed, DataTyped
<1>2. SchedulerTyped' /\ RunsTyped' /\ JobsTyped'
  BY DEF Restart, SchedulerTyped, RunsTyped, JobsTyped
<1>3. RestTyped'
  <2>1. shutdown' \in Shutdowns /\ lock' = <<>>
    BY DEF Restart, Shutdowns
  <2> QED
    BY <2>1, IdleCommand, IdleTick DEF Restart, RestTyped
<1> QED
  BY <1>1, <1>2, <1>3 DEF Typed

LEMMA InitTyped ==
  ASSUME Init
  PROVE  Typed
<1>1. tracker \in [Tasks -> AllViews]
  <2>1. Views \cup {"held"} \subseteq AllViews
    BY ScenarioAssumption DEF Init, Views, AllViews, ScenarioRecords
  <2> QED
    BY <2>1 DEF Init
<1>2. DataTyped
  BY <1>1, ScenarioAssumption DEF Init, DataTyped, Logged
<1>3. SchedulerTyped /\ RunsTyped /\ JobsTyped
  BY DEF Init, SchedulerTyped, RunsTyped, JobsTyped
<1>4. RestTyped
  BY DEF Init, RestTyped, Shutdowns, TickShape, CommandShape, InSection, Idle, Where
<1> QED
  BY <1>2, <1>3, <1>4 DEF Typed
\* The steps of a job that has an Attempt.
Moving(t) ==
  \/ Install(t) \/ Prompt(t) \/ Open(t) \/ Reopen(t) \/ StartTurn(t) \/ Attach(t) \/ Activity(t) \/ TurnOver(t)
  \/ Reread(t) \/ Decide(t) \/ Retain(t) \/ Retained(t) \/ Finish(t) \/ Settle(t) \/ Fail(t) \/ Failed(t)
  \/ JobEnded(t)

LEMMA MovingMoves ==
  ASSUME Typed, NEW t \in Tasks, Moving(t)
  PROVE  \E a \in AttemptIds : JobMove(t, a)
<1>1. jobs[t] # None /\ jobs[t].pc \notin Early \cup {"append", "end"}
  <2>1. Job(t) /\ jobs[t].pc \in {"install", "prompt", "open", "turn", "consume", "reread", "decide", "retain",
                                  "retained", "finish", "settle", "fail", "failed", "handoff", "interrupt"}
    BY DEF Moving, Install, Prompt, Open, Reopen, StartTurn, Attach, Activity, TurnOver, Reread, Decide,
       Retain, Retained,
           Finish, Settle, Fail, Failed, JobEnded, At
  <2> QED
    BY <2>1 DEF Job, Early
<1>2. jobs[t].attempt \in AttemptIds
  <2>1. jobs[t] \in JobRecords /\ JobShape(jobs[t]) /\ (jobs[t].attempt # None => jobs[t].attempt \in AttemptIds)
    BY <1>1, JobTyped
  <2> QED
    BY <1>1, <2>1 DEF JobShape, Where
<1> DEFINE a == jobs[t].attempt
<1> HIDE DEF a
<1>3. a \in AttemptIds /\ jobs[t].attempt = a
  BY <1>2 DEF a
<1>4. JobMove(t, a)
  BY <1>1, <1>3, InstallMove, PromptMove, OpenMove, StartTurnMove, AttachMove, ActivityMove, TurnOverMove, RereadMove,
     DecideMove, RetainMove, RetainedMove, FinishMove, SettleMove, FailMove, FailedMove, JobEndedMove DEF Moving
<1> QED
  BY <1>3, <1>4

LEMMA RequestTyped ==
  ASSUME Typed, Request
  PROVE  Typed'
<1>1. ASSUME NEW t \in scenario.tasks, "start" \in Kinds, Give("start", None, t)
      PROVE  Typed'
  <2>1. t \in Tasks
    BY ScenarioAssumption DEF Typed, DataTyped, ScenarioRecords
  <2>2. "start" \in AllKinds \ {"stop"}
    BY DEF AllKinds
  <2> QED
    BY <1>1, <2>1, <2>2, GiveTyped DEF Kinds
<1>2. ASSUME NEW a \in AttemptIds, NEW kind \in Kinds \ {"start", "stop"}, recorded[a] # None,
             Give(kind, a, recorded[a].task)
      PROVE  Typed'
  <2>1. recorded[a].task \in Tasks
    BY <1>2 DEF Typed, DataTyped, Snapshots
  <2>2. kind \in AllKinds \ {"stop"} /\ kind \in scenario.kinds
    BY ScenarioAssumption DEF Kinds, Typed, DataTyped, ScenarioRecords
  <2> QED
    BY <1>2, <2>1, <2>2, GiveTyped, NoneApart
<1> QED
  BY <1>1, <1>2, StopTyped DEF Request

\* The types are kept by every step.
LEMMA NextTyped ==
  ASSUME Typed, [Next]_vars
  PROVE  Typed'
<1>1. ASSUME NEW t \in Tasks, JobStep(t) \/ Activity(t) \/ RetryTimer(t) \/ TrackerMoves(t)
      PROVE  Typed'
  <2>1. CASE Moving(t)
    BY <2>1, MovingMoves, JobMoveTyped
  <2>2. CASE Commit(t) \/ Fetch(t) \/ NotStarted(t) \/ Unreserved(t) \/ Start(t) \/ NotResumed(t) \/ Resume(t)
    BY <2>2, CommitTyped, FetchTyped, NotStartedTyped, UnreservedTyped, StartTyped, ResumeTyped
  <2>3. CASE RetryTimer(t) \/ TrackerMoves(t)
    BY <2>3, RetryTimerTyped, TrackerMovesTyped
  <2> QED
    BY <1>1, <2>1, <2>2, <2>3 DEF JobStep, Moving
<1>2. ASSUME NEW a \in AttemptIds, TurnEnds(a) \/ Ending(a)
      PROVE  Typed'
  BY <1>2, TurnEndsTyped, EndHaltTyped, EndRetainedTyped, EndStatusTyped DEF Ending
<1>3. CASE CommandStep
  BY <1>3, StartRunTyped, RetryAttemptTyped, PauseAttemptTyped, AttemptPausedTyped, DeleteAttemptTyped, UnindexTyped,
     SendInputTyped, HandoffTyped, HandedOffTyped, ReturnControlTyped DEF CommandStep
<1>4. CASE TickStep
  BY <1>4, ReconcileTyped, CancelTyped, TickEndsTyped, TickCommitTyped, CleanupTyped, ReadRetryTyped, TryRetryTyped,
     DispatchTyped DEF TickStep
<1>5. CASE StopStep
  BY <1>5, StopRunsTyped, StopTyped, StoppedTyped DEF StopStep
<1>6. CASE UNCHANGED vars
  <2>1. DataTyped' /\ SchedulerTyped' /\ UNCHANGED <<runs, jobs, lock, command, tick, shutdown, scenario>>
    BY <1>6, DataSame, SchedulerSame DEF vars, projection, disk, scheduler, bounds
  <2> QED
    BY <2>1, OtherTyped
<1> QED
  BY <1>1, <1>2, <1>3, <1>4, <1>5, <1>6, RequestTyped, RefreshTyped, EnsureSchedulerTyped, RestartTyped DEF Next

\* Every variable has its type, and a job, the tick and the command have what their step works on:
\* in every scenario, with every command, fault, restart and stop.
THEOREM TypedInvariant == Spec => []Typed
BY InitTyped, NextTyped, PTL DEF Spec

LEMMA TypedOK ==
  ASSUME Typed
  PROVE  TypeOK
<1>1. \A i \in 1..Len(lock) : lock[i] \in Tasks \cup {"tick", "command"}
  BY DEF Typed, RestTyped
<1>2. \A t \in Tasks : Job(t) /\ jobs[t].attempt # None => runs[jobs[t].attempt] # None
  BY DEF Typed, JobsTyped, Job
<1> QED
  BY <1>1, <1>2 DEF TypeOK, Typed, DataTyped, SchedulerTyped

\* The type invariant of the runs: what TypedInvariant says, in the terms of SingleAgent.
THEOREM TypesKept == Spec => []TypeOK
BY TypedInvariant, TypedOK, PTL
-----------------------------------------------------------------------------
(* The inductive invariant: what is right while people neither pause nor delete Attempts.    *)

Waiting(j) == j.attempt = None /\ j.pc \in {"fetch", "append"}

\* Commands: a return keeps the critical section, so the job it waits for cannot record the Task.
CommandsRight ==
  /\ command.pc \in {"idle", "queued", "handoff", "return"}
  /\ command.pc = "return" /\ jobs[command.task] # None => Waiting(jobs[command.task])
  /\ \A t \in Tasks : jobs[t] # None =>
       /\ jobs[t].kind = "continue" => command.pc = "return" /\ command.task = t
       /\ Where(jobs[t]) = "resume" => jobs[t].kind = "continue"

\* The projection knows every Task before anything works on one.
TasksKnown ==
  \/ schedulerUp \/ tick.pc # "idle"
  \/ \E t \in Tasks : known[t] # None \/ jobs[t] # None
  => \A t \in Tasks : known[t] # None

\* The four tables speak of the same Attempts.
IdOk(a) ==
  /\ index[a] # None => a <= drawn
  /\ recorded[a] # None => index[a] # None /\ Same(recorded[a], index[a])
  /\ runs[a] # None => schedulerUp /\ index[a] # None /\ Same(runs[a].attempt, index[a])
  /\ schedulerUp => /\ attempts[a] = None <=> index[a] = None
                    /\ index[a] # None => Same(attempts[a], index[a])

\* Before the scheduler is restored nothing has happened since the start of the process.
DownRight ==
  ~schedulerUp =>
    /\ \A a \in AttemptIds : /\ attempts[a] = None /\ recorded[a] = index[a]
                             /\ recorded[a] # None => recorded[a].status \notin Live
    /\ \A t \in Tasks : retries[t] = None /\ workspaces[t] = logged[t].last
    /\ tick.pc \in {"idle", "reconcile"}
    /\ \A t \in Tasks : jobs[t] # None => /\ Where(jobs[t]) \in Early
                                          /\ jobs[t].pc = "append" => jobs[t].write = "task"

Of(s, t) == {a \in AttemptIds : s[a] # None /\ s[a].task = t}
Greatest(s, a) == \A b \in AttemptIds : s[b] # None /\ s[b].task = s[a].task /\ b # a => s[b].sequence < s[a].sequence

\* The sequence numbers of a Task are those of its Attempts.
Dense ==
  \A t \in Tasks :
    /\ \A a \in Of(index, t) : index[a].sequence <= Cardinality(Of(index, t))
    /\ Of(index, t) = {} \/ \E a \in Of(index, t) : index[a].sequence = Cardinality(Of(index, t))

\* An Attempt that is paused stays paused, is the last of its Task and has a workspace.
Kept(a) ==
  /\ schedulerUp => attempts[a].status = "paused"
  /\ logged[index[a].task].last # "none"
  /\ Greatest(index, a)

IsPaused(s) == s # None /\ s.status = "paused"
SnapsOk(a) ==
  /\ index[a] # None => OkSnap(index[a])
  /\ recorded[a] # None => OkSnap(recorded[a])
  /\ attempts[a] # None => OkSnap(attempts[a])
  /\ IsPaused(index[a]) \/ IsPaused(recorded[a]) => Kept(a)

LogRight == \A t \in Tasks : logged[t].keys # {} => logged[t].last # "none"

\* A job, and a run, are right in what they are for their Attempt.
JobRight(t) ==
  jobs[t] # None /\ jobs[t].attempt # None =>
    /\ runs[jobs[t].attempt].attempt.task = t
    /\ JobOk(jobs[t], runs[jobs[t].attempt], attempts[jobs[t].attempt], Awake)
RunRight(a) ==
  runs[a] # None =>
    RunOk(a, runs[a], jobs[runs[a].attempt.task], attempts[a], logged[runs[a].attempt.task].last, Awake)

\* An Attempt that runs or is paused claims its Task, waits for no retry and is the last of its Task.
Lives(s) == s # None /\ s.status \in Live \cup {"paused"}
ClaimOk(a) ==
  Lives(attempts[a]) =>
    /\ claims[attempts[a].task] = a /\ retries[attempts[a].task] = None
    /\ Greatest(attempts, a)

\* What the tick stops is over in the scheduler.
TickRight ==
  tick.pc # "idle" =>
    /\ Awake
    /\ \A a \in tick.stopped : attempts[a] # None /\ attempts[a].status \in Terminal
    /\ tick.pc = "append" /\ tick.write = "attempt" =>
         /\ index[tick.attempt] # None /\ Same(tick.snapshot, index[tick.attempt])
         /\ OkSnap(tick.snapshot) /\ tick.snapshot.status # "paused"

ScheduledIds == {a \in AttemptIds : Scheduled(a)}
LimitRight == Cardinality(ScheduledIds) <= MaxAgents

TablesRight ==
  /\ \A a \in AttemptIds : IdOk(a) /\ SnapsOk(a) /\ ClaimOk(a)
  /\ Dense /\ LogRight /\ LimitRight

WorkRight ==
  /\ \A t \in Tasks : JobRight(t)
  /\ \A a \in AttemptIds : RunRight(a)

IInv == CommandsRight /\ TasksKnown /\ DownRight /\ TablesRight /\ WorkRight /\ TickRight

-----------------------------------------------------------------------------
(* What stays right when little changes *)

HasAttempt(j) == j # None /\ j.attempt # None

\* A run stays right when its job goes on where it was.
LEMMA RunOkStays ==
  ASSUME NEW a, NEW r, NEW j, NEW k, NEW s, NEW last, NEW last2, NEW open, NEW open2,
         RunOk(a, r, j, s, last, open),
         Owns(j, a) => Owns(k, a) /\ Where(k) = Where(j) /\ (j.pc \in {"handoff", "interrupt"} => k.pc = j.pc),
         Owns(k, a) => Owns(j, a), last # "none" => last2 # "none", open2 => open
  PROVE  RunOk(a, r, k, s, last2, open2)
BY DEF RunOk, WorkerOk

LEMMA JobOkStays ==
  ASSUME NEW j, NEW r, NEW s, NEW open, NEW open2, JobOk(j, r, s, open), open2 => open
  PROVE  JobOk(j, r, s, open2)
BY DEF JobOk

\* What a job has queued is recorded.
Committed(j) == [j EXCEPT !.pc = j.next]

LEMMA CommittedIs ==
  ASSUME NEW j \in JobRecords, j.pc = "append", j.next # "end"
  PROVE  LET k == Committed(j) IN
         /\ k \in JobRecords /\ k # None /\ k.pc = j.next /\ k.attempt = j.attempt /\ k.kind = j.kind /\ k.view = j.view
         /\ k.from = j.from /\ k.write = j.write /\ k.snapshot = j.snapshot /\ k.next = j.next /\ Where(k) = Where(j)
BY NoneApart DEF JobRecords, Committed, Where

LEMMA CommittedOk ==
  ASSUME NEW j \in JobRecords, j.pc = "append", j.next # "end", NEW r, NEW s, NEW open, JobOk(j, r, s, open)
  PROVE  JobOk(Committed(j), r, s, open)
<1> DEFINE k == Committed(j)
<1>1. k.view = j.view /\ k.snapshot = j.snapshot /\ k.write = j.write /\ Where(k) = Where(j)
  BY CommittedIs
<1> HIDE DEF k
<1>2. JobOk(k, r, s, open)
  BY <1>1 DEF JobOk, Drives
<1> QED
  BY <1>2 DEF k

LogStays == \A t \in Tasks : logged[t].last # "none" => logged'[t].last # "none"

\* The jobs move while they have no Attempt, or record what they have queued.
JobsStay ==
  \A t \in Tasks :
    \/ jobs'[t] = jobs[t]
    \/ ~HasAttempt(jobs[t]) /\ ~HasAttempt(jobs'[t])
    \/ HasAttempt(jobs[t]) /\ jobs[t].pc = "append" /\ jobs[t].next # "end" /\ jobs'[t] = Committed(jobs[t])

LEMMA WorkSame ==
  ASSUME Typed, WorkRight, UNCHANGED <<runs, attempts>>, Awake' => Awake, LogStays, JobsStay
  PROVE  WorkRight'
<1>1. ASSUME NEW t \in Tasks
      PROVE  JobRight(t)'
  <2>1. SUFFICES ASSUME HasAttempt(jobs'[t])
                 PROVE  /\ runs[jobs'[t].attempt].attempt.task = t
                        /\ JobOk(jobs'[t], runs[jobs'[t].attempt], attempts[jobs'[t].attempt], Awake')
    BY DEF JobRight, HasAttempt
  <2>2. HasAttempt(jobs[t]) /\ JobRight(t) /\ jobs[t] \in JobRecords
    BY <2>1, JobTyped DEF JobsStay, WorkRight, HasAttempt
  <2>3. CASE jobs'[t] = jobs[t]
    BY <2>2, <2>3, JobOkStays DEF JobRight, HasAttempt
  <2>4. CASE jobs[t].pc = "append" /\ jobs[t].next # "end" /\ jobs'[t] = Committed(jobs[t])
    <3>1. jobs'[t].attempt = jobs[t].attempt
      BY <2>2, <2>4, CommittedIs
    <3> DEFINE j == jobs[t]
               r == runs[jobs[t].attempt]
               s == attempts[jobs[t].attempt]
    <3>2. JobOk(j, r, s, Awake) /\ j \in JobRecords /\ r.attempt.task = t
      BY <2>2 DEF JobRight, HasAttempt
    <3> HIDE DEF r, s
    <3>3. JobOk(j, r, s, Awake')
      BY <3>2, JobOkStays
    <3>4. JobOk(Committed(j), r, s, Awake')
      BY <3>2, <3>3, <2>4, CommittedOk
    <3> QED
      BY <3>1, <3>2, <3>4, <2>4 DEF r, s
  <2> QED
    BY <2>1, <2>2, <2>3, <2>4 DEF JobsStay
<1>2. ASSUME NEW a \in AttemptIds
      PROVE  RunRight(a)'
  <2>1. SUFFICES ASSUME runs[a] # None, NEW t, t = runs[a].attempt.task
                 PROVE  RunOk(a, runs[a], jobs'[t], attempts[a], logged'[t].last, Awake')
    BY DEF RunRight
  <2>2. t \in Tasks
    BY <2>1, ARun
  <2>3. RunOk(a, runs[a], jobs[t], attempts[a], logged[t].last, Awake)
    BY <2>1 DEF WorkRight, RunRight
  <2>4. Owns(jobs[t], a) => /\ Owns(jobs'[t], a) /\ Where(jobs'[t]) = Where(jobs[t])
                            /\ jobs[t].pc \in {"handoff", "interrupt"} => jobs'[t].pc = jobs[t].pc
    <3>1. SUFFICES ASSUME Owns(jobs[t], a)
                   PROVE  /\ Owns(jobs'[t], a) /\ Where(jobs'[t]) = Where(jobs[t])
                          /\ jobs[t].pc \in {"handoff", "interrupt"} => jobs'[t].pc = jobs[t].pc
      OBVIOUS
    <3>2. HasAttempt(jobs[t]) /\ jobs[t] \in JobRecords
      BY <2>2, <3>1, JobTyped, NoneApart DEF Owns, HasAttempt
    <3>3. CASE jobs'[t] = jobs[t]
      BY <3>1, <3>3
    <3>4. CASE jobs[t].pc = "append" /\ jobs[t].next # "end" /\ jobs'[t] = Committed(jobs[t])
      BY <3>1, <3>2, <3>4, CommittedIs DEF Owns
    <3> QED
      BY <2>2, <3>2, <3>3, <3>4 DEF JobsStay
  <2>5. logged[t].last # "none" => logged'[t].last # "none"
    BY <2>2 DEF LogStays
  <2>6. Owns(jobs'[t], a) => Owns(jobs[t], a)
    <3>1. SUFFICES ASSUME Owns(jobs'[t], a)
                   PROVE  Owns(jobs[t], a)
      OBVIOUS
    <3>2. HasAttempt(jobs'[t])
      BY <2>1, <3>1, NoneApart DEF Owns, HasAttempt
    <3>3. CASE jobs'[t] = jobs[t]
      BY <3>1, <3>3
    <3>4. CASE HasAttempt(jobs[t]) /\ jobs[t].pc = "append" /\ jobs[t].next # "end" /\ jobs'[t] = Committed(jobs[t])
      <4>1. jobs[t] \in JobRecords
        BY <2>2, <3>4, JobTyped DEF HasAttempt
      <4> QED
        BY <3>1, <3>4, <4>1, CommittedIs DEF Owns, HasAttempt
    <3> QED
      BY <2>2, <3>2, <3>3, <3>4 DEF JobsStay
  <2> QED
    BY <2>3, <2>4, <2>5, <2>6, RunOkStays
<1> QED
  BY <1>1, <1>2 DEF WorkRight

\* One run changes.
LEMMA WorkRun ==
  ASSUME Typed, WorkRight, NEW a \in AttemptIds, runs[a] # None, NEW r \in RunRecords,
         runs' = [runs EXCEPT ![a] = r], Same(r.attempt, runs[a].attempt), jobs' = jobs,
         Awake' => Awake, LogStays, \A b \in AttemptIds : b # a => attempts'[b] = attempts[b],
         NEW t, t = runs[a].attempt.task,
         RunOk(a, r, jobs[t], attempts'[a], logged'[t].last, Awake'),
         Owns(jobs[t], a) => JobOk(jobs[t], r, attempts'[a], Awake')
  PROVE  WorkRight'
<1>1. t \in Tasks /\ runs'[a] = r /\ r # None /\ r.attempt.task = t
  BY ARun, RunSet, NoneApart DEF Same
<1>2. \A b \in AttemptIds : b # a => runs'[b] = runs[b]
  BY DEF Typed, RunsTyped
<1>3. ASSUME NEW u \in Tasks
      PROVE  JobRight(u)'
  <2>1. SUFFICES ASSUME jobs[u] # None, jobs[u].attempt # None, NEW b, b = jobs[u].attempt
                 PROVE  runs'[b].attempt.task = u /\ JobOk(jobs[u], runs'[b], attempts'[b], Awake')
    BY DEF JobRight
  <2>2. b \in AttemptIds /\ runs[b].attempt.task = u /\ JobOk(jobs[u], runs[b], attempts[b], Awake)
    BY <2>1, JobTyped DEF WorkRight, JobRight
  <2>3. CASE b = a
    <3>1. u = t /\ Owns(jobs[t], a)
      BY <2>1, <2>2, <2>3 DEF Owns
    <3> QED
      BY <1>1, <2>3, <3>1
  <2>4. CASE b # a
    <3>1. runs'[b] = runs[b] /\ attempts'[b] = attempts[b]
      BY <1>2, <2>2, <2>4
    <3> QED
      BY <2>2, <3>1, JobOkStays
  <2> QED
    BY <2>3, <2>4
<1>4. ASSUME NEW b \in AttemptIds
      PROVE  RunRight(b)'
  <2>1. CASE b = a
    BY <1>1, <2>1 DEF RunRight
  <2>2. CASE b # a /\ runs[b] # None
    <3> DEFINE u == runs[b].attempt.task
    <3>1. runs'[b] = runs[b] /\ attempts'[b] = attempts[b] /\ u \in Tasks
      BY <1>2, <2>2, ARun
    <3>2. RunOk(b, runs[b], jobs[u], attempts[b], logged[u].last, Awake)
      BY <2>2 DEF WorkRight, RunRight
    <3>3. logged[u].last # "none" => logged'[u].last # "none"
      BY <3>1 DEF LogStays
    <3>4. RunOk(b, runs[b], jobs[u], attempts[b], logged'[u].last, Awake')
      BY <3>2, <3>3, RunOkStays
    <3> QED
      BY <3>1, <3>4 DEF RunRight
  <2>3. CASE b # a /\ runs[b] = None
    BY <1>2, <2>3 DEF RunRight
  <2> QED
    BY <2>1, <2>2, <2>3
<1> QED
  BY <1>3, <1>4 DEF WorkRight

\* A job moves, with its run and its Attempt.
LEMMA WorkMove ==
  ASSUME Typed, WorkRight, NEW t \in Tasks, NEW a \in AttemptIds, JobMove(t, a), After(t, a), runs[a] # None
  PROVE  WorkRight'
<1>1. /\ jobs[t] # None /\ jobs[t].attempt = a /\ a # None /\ jobs' = [jobs EXCEPT ![t] = jobs'[t]]
      /\ runs' = [runs EXCEPT ![a] = runs'[a]] /\ logged' = logged /\ Awake' = Awake
      /\ TypedMove(jobs'[t], a, runs'[a])
  BY DEF JobMove, Elsewhere, Awake
<1>2. /\ runs[a].attempt.task = t /\ runs'[a].attempt.task = t
      /\ jobs'[t] # None => JobOk(jobs'[t], runs'[a], attempts'[a], Awake)
      /\ RunOk(a, runs'[a], jobs'[t], attempts'[a], logged[t].last, Awake)
  BY <1>1 DEF WorkRight, JobRight, After, RightMove, Same
<1>3. \A b \in AttemptIds : b # a => runs'[b] = runs[b] /\ attempts'[b] = attempts[b]
  <2>1. \A b \in AttemptIds : b # a => runs'[b] = runs[b]
    BY <1>1 DEF Typed, RunsTyped
  <2>2. \A b \in AttemptIds : b # a => attempts'[b] = attempts[b]
    BY DEF JobMove, SchedulerMove, Typed, SchedulerTyped
  <2> QED
    BY <2>1, <2>2
<1>4. \A u \in Tasks : u # t => jobs'[u] = jobs[u]
  BY <1>1 DEF Typed, JobsTyped
<1>5. jobs'[t] # None => jobs'[t].attempt = a
  BY <1>1 DEF TypedMove
<1>6. ASSUME NEW u \in Tasks
      PROVE  JobRight(u)'
  <2>1. CASE u = t
    BY <1>1, <1>2, <1>5, <2>1 DEF JobRight
  <2>2. CASE u # t
    <3>1. SUFFICES ASSUME jobs[u] # None, jobs[u].attempt # None, NEW b, b = jobs[u].attempt
                   PROVE  runs'[b].attempt.task = u /\ JobOk(jobs[u], runs'[b], attempts'[b], Awake)
      BY <1>1, <1>4, <2>2 DEF JobRight
    <3>2. b \in AttemptIds /\ runs[b].attempt.task = u /\ JobOk(jobs[u], runs[b], attempts[b], Awake)
      BY <3>1, JobTyped DEF WorkRight, JobRight
    <3>3. b # a
      BY <1>2, <2>2, <3>2
    <3> QED
      BY <1>3, <3>2, <3>3
  <2> QED
    BY <2>1, <2>2
<1>7. ASSUME NEW b \in AttemptIds
      PROVE  RunRight(b)'
  <2>1. CASE b = a
    BY <1>1, <1>2, <2>1 DEF RunRight
  <2>2. CASE b # a /\ runs[b] # None
    <3> DEFINE u == runs[b].attempt.task
    <3>1. runs'[b] = runs[b] /\ attempts'[b] = attempts[b] /\ u \in Tasks
      BY <1>3, <2>2, ARun
    <3>2. RunOk(b, runs[b], jobs[u], attempts[b], logged[u].last, Awake)
      BY <2>2 DEF WorkRight, RunRight
    <3>3. RunOk(b, runs[b], jobs'[u], attempts[b], logged[u].last, Awake)
      <4>1. CASE u # t
        BY <1>4, <3>1, <3>2, <4>1
      <4>2. CASE u = t
        <5>1. ~Owns(jobs[u], b) /\ ~Owns(jobs'[u], b)
          BY <1>1, <1>5, <2>2, <4>2 DEF Owns
        <5> QED
          BY <3>2, <5>1, RunOkStays
      <4> QED
        BY <4>1, <4>2
    <3> QED
      BY <1>1, <3>1, <3>3 DEF RunRight
  <2>3. CASE b # a /\ runs[b] = None
    BY <1>3, <2>3 DEF RunRight
  <2> QED
    BY <2>1, <2>2, <2>3
<1> QED
  BY <1>6, <1>7 DEF WorkRight

-----------------------------------------------------------------------------
(* The tables stay right *)

Keeps(s, r) == (s = None <=> r = None) /\ (s # None => Same(r, s))

\* The Attempts that claim their Task go on claiming it.
ClaimStays(t) == claims'[t] = claims[t] /\ (retries[t] = None => retries'[t] = None)

RunKeeps(b) == runs'[b] # None => runs[b] # None /\ Same(runs'[b].attempt, runs[b].attempt)

SnapsFit(b) ==
  /\ index'[b] # None => OkSnap(index'[b])
  /\ recorded'[b] # None => OkSnap(recorded'[b]) /\ index[b] # None /\ Same(recorded'[b], index[b])
  /\ attempts'[b] # None => OkSnap(attempts'[b])

PausesStay(b) ==
  /\ IsPaused(index'[b]) \/ IsPaused(recorded'[b]) => IsPaused(index[b]) \/ IsPaused(recorded[b]) \/ Kept(b)'
  /\ IsPaused(attempts[b]) => IsPaused(attempts'[b])

LivesStay(b) ==
  /\ Lives(attempts'[b]) => Lives(attempts[b]) /\ ClaimStays(attempts[b].task)
  /\ Scheduled(b)' => Scheduled(b)

\* No Attempt appears or begins, and one that pauses is kept.
Steady ==
  /\ schedulerUp' = schedulerUp /\ drawn' = drawn
  /\ \A b \in AttemptIds :
       /\ Keeps(index[b], index'[b]) /\ Keeps(attempts[b], attempts'[b]) /\ RunKeeps(b)
       /\ SnapsFit(b) /\ PausesStay(b) /\ LivesStay(b)
  /\ LogStays /\ LogRight'

LEMMA GreatestKept ==
  ASSUME NEW s, NEW r, \A b \in AttemptIds : Keeps(s[b], r[b]), NEW a \in AttemptIds, s[a] # None, Greatest(s, a)
  PROVE  Greatest(r, a)
BY DEF Greatest, Keeps, Same

LEMMA OfKept ==
  ASSUME NEW s, NEW r, \A b \in AttemptIds : Keeps(s[b], r[b]), NEW t
  PROVE  Of(r, t) = Of(s, t) /\ \A a \in Of(s, t) : r[a].sequence = s[a].sequence
BY DEF Of, Keeps, Same

LEMMA DenseKept ==
  ASSUME Dense, \A b \in AttemptIds : Keeps(index[b], index'[b])
  PROVE  Dense'
<1>1. ASSUME NEW t \in Tasks
      PROVE  Of(index', t) = Of(index, t) /\ \A a \in Of(index, t) : index'[a].sequence = index[a].sequence
  BY OfKept
<1> QED
  BY <1>1 DEF Dense

LEMMA FiniteIds == IsFiniteSet(AttemptIds) /\ \A S \in SUBSET AttemptIds : IsFiniteSet(S) /\ Cardinality(S) \in Nat
<1>1. IsFiniteSet(AttemptIds)
  BY ScenarioAssumption, FS_Interval DEF AttemptIds
<1> QED
  BY <1>1, FS_Subset, FS_CardinalityType

LEMMA LimitKept ==
  ASSUME LimitRight, \A b \in AttemptIds : Scheduled(b)' => Scheduled(b)
  PROVE  LimitRight'
<1>1. ScheduledIds' \subseteq ScheduledIds /\ ScheduledIds \subseteq AttemptIds
  BY DEF ScheduledIds
<1>2. Cardinality(ScheduledIds') <= Cardinality(ScheduledIds)
  BY <1>1, FiniteIds, FS_Subset
<1>3. Cardinality(ScheduledIds') \in Nat /\ Cardinality(ScheduledIds) \in Nat
  BY <1>1, FiniteIds
<1> QED
  BY <1>2, <1>3, PolicyAssumption DEF LimitRight

LEMMA TablesSteady ==
  ASSUME Typed, TablesRight, Steady
  PROVE  TablesRight'
<1>1. ASSUME NEW a \in AttemptIds
      PROVE  IdOk(a)'
  <2>1. /\ IdOk(a) /\ schedulerUp' = schedulerUp /\ drawn' = drawn
        /\ Keeps(index[a], index'[a]) /\ Keeps(attempts[a], attempts'[a]) /\ RunKeeps(a) /\ SnapsFit(a)
    BY DEF Steady, TablesRight
  <2>2. index'[a] # None => a <= drawn'
    BY <2>1 DEF IdOk, Keeps
  <2>3. recorded'[a] # None => index'[a] # None /\ Same(recorded'[a], index'[a])
    BY <2>1 DEF SnapsFit, Keeps, Same
  <2>4. runs'[a] # None => schedulerUp' /\ index'[a] # None /\ Same(runs'[a].attempt, index'[a])
    BY <2>1 DEF IdOk, RunKeeps, Keeps, Same
  <2>5. schedulerUp' => /\ attempts'[a] = None <=> index'[a] = None
                        /\ index'[a] # None => Same(attempts'[a], index'[a])
    BY <2>1 DEF IdOk, Keeps, Same
  <2> QED
    BY <2>2, <2>3, <2>4, <2>5 DEF IdOk
<1>2. ASSUME NEW a \in AttemptIds
      PROVE  SnapsOk(a)'
  <2>1. /\ SnapsOk(a) /\ IdOk(a) /\ SnapsFit(a) /\ PausesStay(a) /\ schedulerUp' = schedulerUp
        /\ Keeps(index[a], index'[a]) /\ Keeps(attempts[a], attempts'[a])
    BY DEF Steady, TablesRight
  <2>2. ASSUME IsPaused(index'[a]) \/ IsPaused(recorded'[a])
        PROVE  Kept(a)'
    <3> SUFFICES ASSUME ~Kept(a)'
                 PROVE  FALSE
      OBVIOUS
    <3>1. IsPaused(index[a]) \/ IsPaused(recorded[a])
      BY <2>1, <2>2 DEF PausesStay
    <3>2. Kept(a) /\ index[a] # None
      BY <2>1, <3>1 DEF SnapsOk, IdOk, IsPaused
    <3>3. schedulerUp' => attempts'[a].status = "paused"
      BY <2>1, <3>2 DEF Kept, IdOk, PausesStay, IsPaused
    <3>4. index[a].task \in Tasks
      BY <3>2 DEF Typed, DataTyped, Snapshots
    <3>5. logged'[index'[a].task].last # "none"
      BY <2>1, <3>2, <3>4 DEF Kept, Steady, LogStays, Keeps, Same
    <3>6. Greatest(index', a)
      BY <3>2, GreatestKept DEF Kept, Steady
    <3> QED
      BY <3>3, <3>5, <3>6 DEF Kept
  <2> QED
    BY <2>1, <2>2 DEF SnapsOk, SnapsFit
<1>3. ASSUME NEW a \in AttemptIds
      PROVE  ClaimOk(a)'
  <2>1. SUFFICES ASSUME Lives(attempts'[a])
                 PROVE  /\ claims'[attempts'[a].task] = a /\ retries'[attempts'[a].task] = None
                        /\ Greatest(attempts', a)
    BY DEF ClaimOk
  <2>2. /\ ClaimOk(a) /\ LivesStay(a) /\ Keeps(attempts[a], attempts'[a])
    BY DEF Steady, TablesRight
  <2>3. Lives(attempts[a]) /\ ClaimStays(attempts[a].task)
    BY <2>1, <2>2 DEF LivesStay
  <2>4. attempts[a] # None /\ attempts'[a].task = attempts[a].task
    BY <2>2, <2>3 DEF Lives, Keeps, Same
  <2>5. claims[attempts[a].task] = a /\ retries[attempts[a].task] = None /\ Greatest(attempts, a)
    BY <2>2, <2>3 DEF ClaimOk
  <2>6. Greatest(attempts', a)
    BY <2>4, <2>5, GreatestKept DEF Steady
  <2> QED
    BY <2>3, <2>4, <2>5, <2>6 DEF ClaimStays
<1>4. Dense'
  BY DenseKept DEF Steady, TablesRight
<1>5. LimitRight'
  BY LimitKept DEF Steady, TablesRight, LivesStay
<1> QED
  BY <1>1, <1>2, <1>3, <1>4, <1>5 DEF TablesRight, Steady

\* Nothing changes in the tables but what the runs have besides their Attempts.
LEMMA TablesSame ==
  ASSUME Typed, TablesRight, UNCHANGED <<schedulerUp, drawn, index, recorded, attempts>>,
         \A b \in AttemptIds : RunKeeps(b), LogStays, LogRight',
         \A b \in AttemptIds : Lives(attempts[b]) => ClaimStays(attempts[b].task)
  PROVE  TablesRight'
<1>1. \A b \in AttemptIds : IdOk(b) /\ SnapsOk(b)
  BY DEF TablesRight
<1>2. \A b \in AttemptIds : Keeps(index[b], index'[b]) /\ Keeps(attempts[b], attempts'[b])
  BY DEF Keeps, Same
<1>3. \A b \in AttemptIds : SnapsFit(b)
  BY <1>1 DEF SnapsFit, SnapsOk, IdOk
<1>4. \A b \in AttemptIds : PausesStay(b) /\ LivesStay(b)
  BY DEF PausesStay, LivesStay, Scheduled
<1> QED
  BY <1>2, <1>3, <1>4, TablesSteady DEF Steady

\* What keeps the log of the workspaces, and what writes it.
LEMMA LogSame ==
  ASSUME TablesRight, logged' = logged
  PROVE  LogStays /\ LogRight'
BY DEF LogStays, LogRight, TablesRight

LEMMA LogWritten ==
  ASSUME Typed, TablesRight, NEW t \in Tasks, NEW x \in {"retained", "released"},
         NEW key \in {"retained", "terminal-cleanup"}, LogWorkspace(t, key, x)
  PROVE  LogStays /\ LogRight' /\ logged'[t].last # "none"
<1>1. /\ logged' = [logged EXCEPT ![t] = logged'[t]]
      /\ logged'[t] = logged[t] \/ logged'[t].last = x
      /\ key \in logged'[t].keys
  BY LogTyped
<1>2. \A u \in Tasks : u # t => logged'[u] = logged[u]
  BY <1>1 DEF Typed, DataTyped
<1>3. LogRight
  BY DEF TablesRight
<1>4. logged'[t].last # "none"
  BY <1>1, <1>3 DEF LogRight
<1> QED
  BY <1>2, <1>3, <1>4 DEF LogStays, LogRight

LEMMA RunsKeep ==
  ASSUME runs' = runs
  PROVE  \A b \in AttemptIds : RunKeeps(b)
BY DEF RunKeeps, Same

LEMMA ARunKeeps ==
  ASSUME Typed, NEW a \in AttemptIds, runs[a] # None, NEW r, runs' = [runs EXCEPT ![a] = r],
         Same(r.attempt, runs[a].attempt)
  PROVE  \A b \in AttemptIds : RunKeeps(b)
BY DEF RunKeeps, Same, Typed, RunsTyped

LEMMA ClaimsSame ==
  ASSUME UNCHANGED <<claims, retries>>
  PROVE  \A b \in AttemptIds : Lives(attempts[b]) => ClaimStays(attempts[b].task)
BY DEF ClaimStays

\* A job moves: its Attempt, when the scheduler runs it, goes on or ends.
LEMMA TablesMove ==
  ASSUME Typed, TablesRight, NEW t \in Tasks, NEW a \in AttemptIds, JobMove(t, a), After(t, a),
         runs[a] # None, runs[a].attempt.task = t
  PROVE  TablesRight'
<1>1. /\ runs' = [runs EXCEPT ![a] = runs'[a]] /\ Elsewhere /\ SchedulerMove(t, a)
      /\ index' = index \/ (index' = [index EXCEPT ![a] = runs'[a].attempt] /\ runs'[a].attempt.status # "paused")
      /\ TypedMove(jobs'[t], a, runs'[a])
  BY DEF JobMove
<1>2. Same(runs'[a].attempt, runs[a].attempt) /\ OkSnap(runs'[a].attempt) /\ runs'[a].attempt \in Snapshots
  BY <1>1 DEF After, RightMove, RunOk, TypedMove, RunRecords
<1>3. \A b \in AttemptIds : RunKeeps(b)
  BY <1>1, <1>2, ARunKeeps
<1>4. UNCHANGED <<schedulerUp, drawn, recorded, claims, logged>> /\ LogStays /\ LogRight'
  BY <1>1, LogSame DEF Elsewhere, projection, bounds
<1>5. \A b \in AttemptIds : IdOk(b) /\ SnapsOk(b) /\ ClaimOk(b)
  BY DEF TablesRight
<1>6. schedulerUp /\ index[a] # None /\ Same(runs[a].attempt, index[a]) /\ attempts[a] # None
      /\ Same(attempts[a], index[a])
  BY <1>5 DEF IdOk
<1>7. attempts[a].task = t
  BY <1>6 DEF Same
<1>8. ASSUME NEW b \in AttemptIds
      PROVE  /\ Keeps(index[b], index'[b])
             /\ index'[b] # None => OkSnap(index'[b])
             /\ IsPaused(index'[b]) => IsPaused(index[b])
  <2>1. CASE index' = index
    BY <1>5, <2>1 DEF Keeps, Same, SnapsOk
  <2>2. CASE index' = [index EXCEPT ![a] = runs'[a].attempt] /\ b # a
    <3>1. index'[b] = index[b]
      BY <2>2 DEF Typed, DataTyped
    <3> QED
      BY <1>5, <3>1 DEF Keeps, Same, SnapsOk
  <2>3. CASE index' = [index EXCEPT ![a] = runs'[a].attempt] /\ b = a /\ runs'[a].attempt.status # "paused"
    <3>1. index'[b] = runs'[a].attempt
      BY <2>3 DEF Typed, DataTyped
    <3> QED
      BY <1>2, <1>6, <2>3, <3>1, NoneApart DEF Keeps, Same, IsPaused
  <2> QED
    BY <1>1, <2>1, <2>2, <2>3
<1>9. ASSUME NEW b \in AttemptIds
      PROVE  /\ Keeps(attempts[b], attempts'[b])
             /\ attempts'[b] # None => OkSnap(attempts'[b])
             /\ IsPaused(attempts[b]) => IsPaused(attempts'[b])
             /\ LivesStay(b)
  <2>1. CASE UNCHANGED <<attempts, retries>>
    BY <1>4, <1>5, <2>1 DEF Keeps, Same, SnapsOk, LivesStay, ClaimStays, Scheduled
  <2>2. CASE attempts # attempts' \/ retries # retries'
    <3>1. /\ attempts[a] \in Snapshots /\ attempts[a].status \in Live
          /\ attempts' = [attempts EXCEPT ![a] = attempts'[a]]
          /\ attempts'[a] \in Snapshots /\ Same(attempts'[a], attempts[a])
          /\ attempts'[a].controller = attempts[a].controller
          /\ attempts'[a].status \in Live \cup Terminal
          /\ \/ attempts'[a].status \in Live /\ retries' = retries
             \/ /\ attempts'[a].status \in Terminal
                /\ retries' = [retries EXCEPT ![t] = retries'[t]]
      BY <1>1, <2>2 DEF SchedulerMove
    <3>2. attempts[a].controller # "codex" /\ Lives(attempts[a]) /\ Scheduled(a) /\ claims[t] = a
      BY <1>5, <1>7, <3>1, NoneApart DEF SnapsOk, OkSnap, Lives, Scheduled, ClaimOk
    <3>3. CASE b = a
      <4>1. Keeps(attempts[b], attempts'[b]) /\ OkSnap(attempts'[b]) /\ ~IsPaused(attempts[b])
        BY <3>1, <3>2, <3>3, NoneApart DEF Keeps, OkSnap, IsPaused, Live, Terminal
      <4>2. Lives(attempts'[b]) => retries' = retries
        BY <3>1, <3>3 DEF Lives, Live, Terminal
      <4> QED
        BY <1>4, <3>2, <3>3, <4>1, <4>2 DEF LivesStay, ClaimStays
    <3>4. CASE b # a
      <4>1. attempts'[b] = attempts[b]
        BY <3>1, <3>4 DEF Typed, SchedulerTyped
      <4>2. Lives(attempts[b]) => attempts[b].task # t /\ attempts[b].task \in Tasks
        BY <1>5, <3>2, <3>4 DEF ClaimOk, Lives, Typed, SchedulerTyped, Snapshots
      <4>3. Lives(attempts[b]) => ClaimStays(attempts[b].task)
        BY <1>4, <3>1, <4>2 DEF ClaimStays, Typed, SchedulerTyped
      <4> QED
        BY <1>5, <4>1, <4>3 DEF Keeps, Same, SnapsOk, LivesStay, Scheduled
    <3> QED
      BY <3>3, <3>4
  <2> QED
    BY <2>1, <2>2
<1>10. \A b \in AttemptIds : SnapsFit(b) /\ PausesStay(b)
  <2>1. ASSUME NEW b \in AttemptIds
        PROVE  recorded'[b] # None => OkSnap(recorded'[b]) /\ index[b] # None /\ Same(recorded'[b], index[b])
    BY <1>4, <1>5 DEF SnapsOk, IdOk
  <2> QED
    BY <1>4, <1>8, <1>9, <2>1 DEF SnapsFit, PausesStay
<1> QED
  BY <1>3, <1>4, <1>8, <1>9, <1>10, TablesSteady DEF Steady

-----------------------------------------------------------------------------
(* The other parts of the invariant, when little changes *)

\* How a job may change under a command that is awaited.
JobCalm(t) ==
  \/ jobs'[t] = jobs[t] \/ jobs'[t] = None
  \/ /\ jobs'[t].kind = "run" \/ (jobs[t] # None /\ jobs'[t].kind = jobs[t].kind)
     /\ Where(jobs'[t]) = "resume" => jobs'[t].kind = "continue"
     /\ Waiting(jobs'[t]) \/ command.pc # "return" \/ (jobs[t] # None /\ ~Waiting(jobs[t]))

LEMMA CommandsStay ==
  ASSUME CommandsRight, command' = command, \A t \in Tasks : JobCalm(t), Typed
  PROVE  CommandsRight'
<1>1. command.pc = "return" => command.task \in Tasks
  BY DEF Typed, RestTyped, Idle, CommandRecords
<1>2. command'.pc = "return" /\ jobs'[command'.task] # None => Waiting(jobs'[command'.task])
  <2>1. HAVE command'.pc = "return" /\ jobs'[command'.task] # None
  <2>2. JobCalm(command.task)
    BY <1>1, <2>1
  <2> QED
    BY <2>1, <2>2 DEF JobCalm, CommandsRight
<1>3. ASSUME NEW t \in Tasks, jobs'[t] # None
      PROVE  /\ jobs'[t].kind = "continue" => command'.pc = "return" /\ command'.task = t
             /\ Where(jobs'[t]) = "resume" => jobs'[t].kind = "continue"
  <2>1. JobCalm(t)
    OBVIOUS
  <2> QED
    BY <1>3, <2>1 DEF JobCalm, CommandsRight
<1> QED
  BY <1>2, <1>3 DEF CommandsRight

LEMMA CommandsGoOn ==
  ASSUME CommandsRight, command.pc # "return", command'.pc \in {"idle", "queued", "handoff"},
         \A t \in Tasks : JobCalm(t)
  PROVE  CommandsRight'
<1>1. ASSUME NEW t \in Tasks, jobs'[t] # None
      PROVE  /\ jobs'[t].kind # "continue"
             /\ Where(jobs'[t]) # "resume"
  <2>1. JobCalm(t)
    OBVIOUS
  <2> QED
    BY <1>1, <2>1 DEF JobCalm, CommandsRight
<1> QED
  BY <1>1 DEF CommandsRight

\* A command in the critical section that has not begun, or none.
LEMMA CommandHolds ==
  ASSUME Typed, command.pc # "idle", NEW p \in Tasks \cup {"tick"}, Holds(p)
  PROVE  command.pc = "queued"
<1>1. command \in CommandRecords
  BY DEF Typed, RestTyped, Idle
<1>2. p # "command"
  BY TaskAssumption
<1>3. command.pc \in {"queued", "pausing", "delete", "unindex", "handoff", "return"}
  BY <1>1 DEF CommandRecords
<1> QED
  BY <1>2, <1>3 DEF Typed, RestTyped, InSection, Holds

SomeWork == schedulerUp \/ tick.pc # "idle" \/ \E t \in Tasks : known[t] # None \/ jobs[t] # None
AllKnown == \A t \in Tasks : known[t] # None

LEMMA KnownStays ==
  ASSUME TasksKnown, AllKnown => AllKnown', SomeWork' => SomeWork \/ AllKnown'
  PROVE  TasksKnown'
BY DEF TasksKnown, SomeWork, AllKnown

LEMMA KnownSame ==
  ASSUME TasksKnown, known' = known, SomeWork' => SomeWork
  PROVE  TasksKnown'
BY KnownStays DEF AllKnown

EarlyJob(j) == Where(j) \in Early /\ (j.pc = "append" => j.write = "task")

DownStays ==
  ~schedulerUp =>
    /\ UNCHANGED <<attempts, recorded, index, retries, workspaces, logged>>
    /\ tick'.pc \in {"idle", "reconcile"}
    /\ \A t \in Tasks : jobs'[t] = jobs[t] \/ jobs'[t] = None \/ EarlyJob(jobs'[t])

LEMMA DownKept ==
  ASSUME DownRight, schedulerUp' = schedulerUp, DownStays
  PROVE  DownRight'
<1>1. SUFFICES ASSUME ~schedulerUp
               PROVE  DownRight'
  BY DEF DownRight
<1>2. \A t \in Tasks : jobs'[t] # None => Where(jobs'[t]) \in Early /\ (jobs'[t].pc = "append" => jobs'[t].write = "task")
  BY <1>1 DEF DownStays, DownRight, EarlyJob
<1> QED
  BY <1>1, <1>2 DEF DownStays, DownRight

LEMMA DownUp ==
  ASSUME schedulerUp'
  PROVE  DownRight'
BY DEF DownRight

\* The tick goes on as it was; what it stopped stays over.
Over(s) == s # None /\ s.status \in Terminal
LEMMA TickStays ==
  ASSUME Typed, TickRight, tick' = tick, tick.pc # "idle" => Awake',
         \A a \in AttemptIds : Over(attempts[a]) => Over(attempts'[a]),
         \A a \in AttemptIds : Keeps(index[a], index'[a])
  PROVE  TickRight'
<1>1. SUFFICES ASSUME tick.pc # "idle"
               PROVE  TickRight'
  BY DEF TickRight
<1>2. tick \in TickRecords
  BY <1>1, ATick
<1>3. \A a \in tick.stopped : attempts'[a] # None /\ attempts'[a].status \in Terminal
  BY <1>1, <1>2 DEF TickRight, Over, TickRecords
<1>4. ASSUME tick.pc = "append", tick.write = "attempt"
      PROVE  index'[tick.attempt] # None /\ Same(tick.snapshot, index'[tick.attempt])
  <2>1. tick.attempt \in AttemptIds
    BY <1>2, <1>4 DEF Typed, RestTyped, TickShape, TickRecords
  <2> QED
    BY <1>1, <1>4, <2>1 DEF TickRight, Keeps, Same
<1> QED
  BY <1>1, <1>3, <1>4 DEF TickRight

\* The tick moves and queues no record.
LEMMA TickMoves ==
  ASSUME TickRight, tick.pc # "idle", tick'.pc # "append" \/ tick'.write # "attempt", Awake' = Awake, attempts' = attempts,
         tick'.pc # "idle" => tick'.stopped \subseteq tick.stopped
  PROVE  TickRight'
BY DEF TickRight

\* Nothing changes in the tables and the runs.
Still == UNCHANGED <<schedulerUp, drawn, index, recorded, attempts, runs, logged, workspaces>>

LEMMA StillRight ==
  ASSUME Typed, IInv, Still, Awake' => Awake, JobsStay,
         \A b \in AttemptIds : Lives(attempts[b]) => ClaimStays(attempts[b].task),
         CommandsRight', TasksKnown', TickRight',
         ~schedulerUp => /\ retries' = retries /\ tick'.pc \in {"idle", "reconcile"}
                         /\ \A t \in Tasks : jobs'[t] = jobs[t] \/ jobs'[t] = None \/ EarlyJob(jobs'[t])
  PROVE  IInv'
<1>1. TablesRight'
  BY TablesSame, LogSame, RunsKeep DEF Still, IInv
<1>2. WorkRight'
  BY WorkSame, LogSame DEF Still, IInv
<1>3. DownRight'
  BY DownKept DEF Still, IInv, DownStays
<1> QED
  BY <1>1, <1>2, <1>3 DEF IInv

-----------------------------------------------------------------------------
(* The steps that touch neither the tables nor the runs *)

LEMMA ViewsStay ==
  ASSUME UNCHANGED <<attempts, index, shutdown>>
  PROVE  /\ Awake' = Awake
         /\ \A a \in AttemptIds : Over(attempts[a]) => Over(attempts'[a])
         /\ \A a \in AttemptIds : Keeps(index[a], index'[a])
BY DEF Awake, Keeps, Same

\* A job that has no Attempt moves.
LEMMA EarlyRight ==
  ASSUME Typed, IInv, Still, UNCHANGED <<command, tick, shutdown, known, claims>>,
         NEW t \in Tasks, jobs[t] # None, jobs[t].attempt = None, NEW j, jobs' = [jobs EXCEPT ![t] = j],
         j # None => /\ j.attempt = None /\ j.kind = jobs[t].kind /\ j.pc = "append"
                     /\ Where(j) = "resume" => j.kind = "continue"
                     /\ ~schedulerUp => EarlyJob(j),
         \A u \in Tasks : retries[u] = None => retries'[u] = None,
         ~schedulerUp => retries' = retries
  PROVE  IInv'
<1>1. jobs'[t] = j /\ \A u \in Tasks : u # t => jobs'[u] = jobs[u]
  BY DEF Typed, JobsTyped
<1>2. JobsStay
  <2>1. ~HasAttempt(jobs[t]) /\ ~HasAttempt(jobs'[t])
    BY <1>1 DEF HasAttempt
  <2> QED
    BY <1>1, <2>1 DEF JobsStay
<1>3. \A u \in Tasks : JobCalm(u)
  BY <1>1 DEF JobCalm, Waiting
<1>4. CommandsRight'
  BY <1>3, CommandsStay DEF IInv
<1>5. TasksKnown'
  <2>1. SomeWork' => SomeWork
    BY DEF SomeWork, Still
  <2> QED
    BY <2>1, KnownSame DEF IInv
<1>6. TickRight'
  BY ViewsStay, TickStays DEF IInv, Still, TickRight
<1>7. \A b \in AttemptIds : Lives(attempts[b]) => ClaimStays(attempts[b].task)
  BY DEF ClaimStays, Lives, Typed, SchedulerTyped, Snapshots
<1>8. ~schedulerUp => /\ retries' = retries /\ tick'.pc \in {"idle", "reconcile"}
                      /\ \A u \in Tasks : jobs'[u] = jobs[u] \/ jobs'[u] = None \/ EarlyJob(jobs'[u])
  BY <1>1 DEF IInv, DownRight
<1> QED
  BY <1>2, <1>4, <1>5, <1>6, <1>7, <1>8, StillRight DEF Awake

LEMMA FetchRight ==
  ASSUME Typed, IInv, NEW t \in Tasks, Fetch(t)
  PROVE  IInv'
<1>1. jobs[t] # None /\ jobs[t].pc = "fetch" /\ Still /\ UNCHANGED <<retries, command, tick, shutdown, known, claims>>
  BY DEF Fetch, At, Job, projection, disk, scheduler, bounds, Still
<1>2. jobs[t] \in JobRecords /\ JobShape(jobs[t]) /\ tracker[t] \in AllViews
  BY <1>1, JobTyped DEF Typed, DataTyped
<1>3. jobs[t].attempt = None
  BY <1>1, <1>2 DEF JobShape, Where, Early
<1>4. CASE End(t)
  BY <1>1, <1>3, <1>4, EarlyRight DEF End
<1>5. ASSUME NEW p \in {"prepare", "resume"}, RecordTask(t, p), p = "resume" => jobs[t].kind # "run"
      PROVE  IInv'
  <2> DEFINE j == WritingTask(jobs[t], p, tracker[t])
  <2>1. p \in Pcs /\ p \in Early
    BY DEF Pcs, Early
  <2>2. /\ j.attempt = None /\ j.pc = "append" /\ j.next = p /\ j.write = "task" /\ j.kind = jobs[t].kind
    BY <1>2, <1>3, <2>1, TaskIs
  <2>3. jobs' = [jobs EXCEPT ![t] = j]
    BY <1>5 DEF RecordTask, WritingTask, Typed, JobsTyped
  <2> HIDE DEF j
  <2>4. EarlyJob(j) /\ (Where(j) = "resume" => j.kind = "continue")
    BY <1>2, <1>5, <2>1, <2>2 DEF EarlyJob, Where, JobRecords
  <2> QED
    BY <1>1, <1>3, <2>2, <2>3, <2>4, EarlyRight
<1> QED
  BY <1>4, <1>5 DEF Fetch

LEMMA NotStartedRight ==
  ASSUME Typed, IInv, NEW t \in Tasks, NotStarted(t) \/ NotResumed(t)
  PROVE  IInv'
<1>1. /\ jobs[t] # None /\ jobs[t].pc \in {"prepare", "resume"} /\ Still /\ End(t)
      /\ UNCHANGED <<retries, command, tick, shutdown, known, claims>>
  BY DEF NotStarted, NotResumed, At, Job, projection, disk, scheduler, bounds, Still
<1>2. jobs[t].attempt = None
  <2>1. JobShape(jobs[t])
    BY <1>1, JobTyped
  <2> QED
    BY <1>1, <2>1 DEF JobShape, Where, Early
<1> QED
  BY <1>1, <1>2, EarlyRight DEF End

LEMMA UnreservedRight ==
  ASSUME Typed, IInv, NEW t \in Tasks, Unreserved(t)
  PROVE  IInv'
<1>1. /\ jobs[t] # None /\ jobs[t].pc = "prepare" /\ schedulerUp /\ Still
      /\ UNCHANGED <<claims, known, command, tick, shutdown>>
  BY DEF Unreserved, At, Job, projection, disk, bounds, Still
<1>2. \A u \in Tasks : retries[u] = None => retries'[u] = None
  <2>1. CASE retries' = retries
    BY <2>1
  <2>2. CASE retries' = [retries EXCEPT ![t].due = FALSE] /\ retries[t] # None
    BY <2>2 DEF Typed, SchedulerTyped
  <2> QED
    BY <2>1, <2>2 DEF Unreserved, Granted
<1>3. jobs[t] \in JobRecords /\ JobShape(jobs[t])
  BY <1>1, JobTyped
<1>4. jobs[t].attempt = None
  BY <1>1, <1>3 DEF JobShape, Where, Early
<1>5. CASE End(t)
  BY <1>1, <1>2, <1>4, <1>5, EarlyRight DEF End
<1>6. CASE Record(t, "unreserved", "end")
  <2> DEFINE j == [jobs[t] EXCEPT !.pc = "append", !.write = "unreserved", !.next = "end"]
  <2>1. j.attempt = None /\ j.pc = "append" /\ j.next = "end" /\ j.kind = jobs[t].kind
    BY <1>3, <1>4 DEF JobRecords
  <2>2. jobs' = [jobs EXCEPT ![t] = j]
    BY <1>6 DEF Record, Typed, JobsTyped
  <2> HIDE DEF j
  <2> QED
    BY <1>1, <1>2, <1>4, <2>1, <2>2, EarlyRight DEF Where
<1> QED
  BY <1>5, <1>6 DEF Unreserved

\* A step of a command or of a person that begins no job.
LEMMA NoJobRight ==
  ASSUME Typed, IInv, Still, UNCHANGED <<jobs, tick, known, claims, retries>>,
         Awake' => Awake, tick.pc # "idle" => Awake', CommandsRight'
  PROVE  IInv'
<1>1. JobsStay
  BY DEF JobsStay
<1>2. TasksKnown'
  <2>1. SomeWork' => SomeWork
    BY DEF SomeWork, Still
  <2> QED
    BY <2>1, KnownSame DEF IInv
<1>3. TickRight'
  BY TickStays DEF IInv, Still, Keeps, Same
<1>4. ~schedulerUp => tick'.pc \in {"idle", "reconcile"}
  BY DEF IInv, DownRight
<1> QED
  BY <1>1, <1>2, <1>3, <1>4, ClaimsSame, StillRight

LEMMA JobsCalm ==
  ASSUME jobs' = jobs
  PROVE  \A t \in Tasks : JobCalm(t)
BY DEF JobCalm

LEMMA GiveRight ==
  ASSUME Typed, IInv, NEW kind, NEW a, NEW t, Give(kind, a, t)
  PROVE  IInv'
<1>1. Still /\ UNCHANGED <<jobs, tick, known, claims, retries, shutdown>> /\ command.pc = "idle" /\ command'.pc = "queued"
  BY DEF Give, Still, projection, disk, scheduler
<1>2. CommandsRight'
  BY <1>1, JobsCalm, CommandsGoOn DEF IInv
<1> QED
  BY <1>1, <1>2, NoJobRight DEF Awake, IInv, TickRight

LEMMA RequestRight ==
  ASSUME Typed, IInv, Request
  PROVE  IInv'
<1>1. CASE StopRequested
  <2>1. /\ Still /\ UNCHANGED <<jobs, tick, known, claims, retries, command>> /\ shutdown.pc = "idle"
        /\ shutdown'.pc = "tick"
    BY <1>1 DEF StopRequested, Stopping, Still, projection, disk, scheduler, bounds
  <2>2. CommandsRight'
    BY <2>1, JobsCalm, CommandsStay DEF IInv
  <2> QED
    BY <2>1, <2>2, NoJobRight DEF Awake
<1> QED
  BY <1>1, GiveRight DEF Request

LEMMA TrackerRight ==
  ASSUME Typed, IInv, NEW t \in Tasks, TrackerMoves(t)
  PROVE  IInv'
<1>1. Still /\ UNCHANGED <<jobs, tick, known, claims, retries, command, shutdown>>
  BY DEF TrackerMoves, Still, projection, disk, scheduler, bounds
<1>2. CommandsRight'
  BY <1>1, JobsCalm, CommandsStay DEF IInv
<1> QED
  BY <1>1, <1>2, NoJobRight DEF Awake, IInv, TickRight

LEMMA StopJobsRight ==
  ASSUME Typed, IInv, StopJobs
  PROVE  IInv'
<1>1. /\ Still /\ UNCHANGED <<jobs, tick, known, claims, retries, command>> /\ shutdown.pc = "runs"
      /\ shutdown'.pc \in {"failed", "jobs"}
  BY DEF StopJobs, Still, projection, disk, scheduler, bounds, Typed, RestTyped, Shutdowns
<1>2. CommandsRight'
  BY <1>1, JobsCalm, CommandsStay DEF IInv
<1> QED
  BY <1>1, <1>2, NoJobRight DEF Awake, IInv, TickRight

LEMMA StoppedRight ==
  ASSUME Typed, IInv, Stopped
  PROVE  IInv'
<1>1. /\ Still /\ UNCHANGED <<jobs, tick, known, claims, retries>> /\ shutdown.pc = "jobs"
      /\ shutdown'.pc = "stopped" /\ command'.pc = "idle" /\ \A t \in Tasks : jobs[t] = None
  BY DEF Stopped, Job, Still, projection, disk, scheduler, bounds, Typed, RestTyped, Shutdowns
<1>2. CommandsRight'
  BY <1>1 DEF CommandsRight
<1> QED
  BY <1>1, <1>2, NoJobRight DEF Awake, IInv, TickRight

-----------------------------------------------------------------------------
(* The steps that launch jobs, and those of the tick *)

\* A Task that has no job gets one.
Launch(t) ==
  \/ jobs'[t] = jobs[t]
  \/ /\ jobs[t] = None /\ jobs'[t] # None
     /\ jobs'[t].attempt = None /\ jobs'[t].pc = "fetch"

LEMMA LaunchesRight ==
  ASSUME Typed, IInv, Still, shutdown' = shutdown, \A t \in Tasks : Launch(t),
         \A b \in AttemptIds : Lives(attempts[b]) => ClaimStays(attempts[b].task),
         CommandsRight', TasksKnown', TickRight',
         ~schedulerUp => retries' = retries /\ tick'.pc \in {"idle", "reconcile"}
  PROVE  IInv'
<1>1. JobsStay
  BY DEF Launch, JobsStay, HasAttempt
<1>2. \A t \in Tasks : jobs'[t] = jobs[t] \/ jobs'[t] = None \/ EarlyJob(jobs'[t])
  BY DEF Launch, EarlyJob, Where, Early
<1> QED
  BY <1>1, <1>2, StillRight DEF Awake

\* A command launches at most a job.
LEMMA CommandLaunches ==
  ASSUME Typed, IInv, Still, UNCHANGED <<tick, known, claims, retries, shutdown>>, CommandsRight',
         NEW t \in Tasks, NEW j, jobs' = jobs \/ (jobs[t] = None /\ known[t] # None /\ jobs' = [jobs EXCEPT ![t] = j]),
         j # None /\ j.attempt = None /\ j.pc = "fetch"
  PROVE  IInv'
<1>1. \A u \in Tasks : Launch(u)
  BY DEF Launch, Typed, JobsTyped
<1>2. TasksKnown'
  <2>1. SomeWork' => SomeWork
    BY DEF SomeWork, Still, Typed, JobsTyped
  <2> QED
    BY <2>1, KnownSame DEF IInv
<1>3. TickRight'
  BY ViewsStay, TickStays DEF IInv, Still, TickRight
<1>4. ~schedulerUp => retries' = retries /\ tick'.pc \in {"idle", "reconcile"}
  BY DEF IInv, DownRight
<1> QED
  BY <1>1, <1>2, <1>3, <1>4, ClaimsSame, LaunchesRight

LEMMA StartRunRight ==
  ASSUME Typed, IInv, StartRun
  PROVE  IInv'
<1> DEFINE t == command.task
           j == NewJob("run", "dispatch", FALSE, None, known[t])
<1>1. command.pc = "queued" /\ Holds("command") /\ command' = [pc |-> "idle"] /\ Still
      /\ UNCHANGED <<tick, known, claims, retries, shutdown>>
  BY DEF StartRun, Now, Answer, Still, projection, disk, scheduler, bounds
<1>2. t \in Tasks
  BY <1>1, SectionHeld
<1>3. jobs' = jobs \/ (jobs[t] = None /\ known[t] = "eligible" /\ jobs' = [jobs EXCEPT ![t] = j])
  BY DEF StartRun, Job
<1>4. known[t] = "eligible" => known[t] # None /\ j \in JobRecords
  BY Words, NoneApart DEF NewJob, JobRecords
<1>5. j.attempt = None /\ j.pc = "fetch" /\ j.kind = "run" /\ Where(j) = "fetch"
  BY DEF NewJob, Where, Waiting
<1>6. known[t] = "eligible" => j # None
  BY <1>4, NoneApart
<1> HIDE DEF j, t
<1>7. \A u \in Tasks : JobCalm(u)
  BY <1>1, <1>3, <1>5 DEF JobCalm, Typed, JobsTyped
<1>8. CommandsRight'
  BY <1>1, <1>7, CommandsGoOn DEF IInv
<1>9. CASE jobs' = jobs
  BY <1>1, <1>8, <1>9, NoJobRight DEF Awake, IInv, TickRight
<1>10. CASE jobs[t] = None /\ known[t] = "eligible" /\ jobs' = [jobs EXCEPT ![t] = j]
  BY <1>1, <1>2, <1>4, <1>5, <1>6, <1>8, <1>10, CommandLaunches
<1> QED
  BY <1>3, <1>9, <1>10

LEMMA RetryAttemptRight ==
  ASSUME Typed, IInv, RetryAttempt
  PROVE  IInv'
<1> DEFINE t == command.task
           j == NewJob("run", "force", FALSE, None, known[t])
<1>1. command.pc = "queued" /\ Holds("command") /\ command' = [pc |-> "idle"] /\ Still
      /\ UNCHANGED <<tick, known, claims, retries, shutdown>>
  BY DEF RetryAttempt, Now, Answer, Still, projection, disk, scheduler, bounds
<1>2. t \in Tasks
  BY <1>1, SectionHeld
<1>3. jobs' = jobs \/ (jobs[t] = None /\ known[t] # None /\ jobs' = [jobs EXCEPT ![t] = j])
  BY DEF RetryAttempt, Job
<1>4. known[t] # None => j # None
  <2>1. HAVE known[t] # None
  <2>2. known[t] \in AllViews
    BY <1>2, <2>1 DEF Typed, DataTyped
  <2>3. j \in JobRecords
    BY <2>2, Words DEF NewJob, JobRecords
  <2> QED
    BY <2>3, NoneApart
<1>5. j.attempt = None /\ j.pc = "fetch" /\ j.kind = "run" /\ Where(j) = "fetch"
  BY DEF NewJob, Where, Waiting
<1> HIDE DEF j, t
<1>7. \A u \in Tasks : JobCalm(u)
  BY <1>1, <1>3, <1>5 DEF JobCalm, Typed, JobsTyped
<1>8. CommandsRight'
  BY <1>1, <1>7, CommandsGoOn DEF IInv
<1>9. CASE jobs' = jobs
  BY <1>1, <1>8, <1>9, NoJobRight DEF Awake, IInv, TickRight
<1>10. CASE jobs[t] = None /\ known[t] # None /\ jobs' = [jobs EXCEPT ![t] = j]
  BY <1>1, <1>2, <1>4, <1>5, <1>8, <1>10, CommandLaunches
<1> QED
  BY <1>3, <1>9, <1>10

\* In this world no Attempt is paused in the hands of Symphoneer.
LEMMA SendInputRight ==
  ASSUME Typed, IInv, SendInput
  PROVE  IInv'
<1>1. command.pc = "queued" /\ Holds("command") /\ command' = [pc |-> "idle"] /\ Still /\ command.kind = "input"
      /\ UNCHANGED <<tick, known, claims, retries, shutdown>>
  BY DEF SendInput, Now, Answer, Still, projection, disk, scheduler, bounds
<1>2. command.attempt \in AttemptIds
  BY <1>1, SectionHeld
<1>3. ~(recorded[command.attempt] # None /\ recorded[command.attempt].controller # "codex"
        /\ recorded[command.attempt].status = "paused")
  BY <1>2 DEF IInv, TablesRight, SnapsOk, OkSnap
<1>4. jobs' = jobs
  BY <1>3 DEF SendInput
<1>5. CommandsRight'
  BY <1>1, <1>4, JobsCalm, CommandsGoOn DEF IInv
<1> QED
  BY <1>1, <1>4, <1>5, NoJobRight DEF Awake, IInv, TickRight

LEMMA ReturnControlRight ==
  ASSUME Typed, IInv, ReturnControl
  PROVE  IInv'
<1> DEFINE t == command.task
           a == command.attempt
           j == NewJob("continue", "dispatch", TRUE, a, known[t])
<1>1. command.pc = "queued" /\ Holds("command") /\ Still /\ command.kind = "return"
      /\ UNCHANGED <<tick, known, claims, retries, shutdown>>
  BY DEF ReturnControl, Now, Still, projection, disk, scheduler, bounds
<1>2. t \in Tasks /\ a \in AttemptIds /\ command \in CommandRecords
  BY <1>1, SectionHeld
<1>3. CASE Answer /\ jobs' = jobs
  <2>1. CommandsRight'
    BY <1>1, <1>3, JobsCalm, CommandsGoOn DEF IInv, Answer
  <2> QED
    BY <1>1, <1>3, <2>1, NoJobRight DEF Awake, IInv, TickRight
<1>4. CASE Await("return") /\ jobs[t] = None /\ known[t] # None /\ jobs' = [jobs EXCEPT ![t] = j]
  <2>1. j.attempt = None /\ j.pc = "fetch" /\ Where(j) = "fetch" /\ Waiting(j)
    BY DEF NewJob, Where, Waiting
  <2>2. j # None
    <3>1. known[t] \in AllViews
      BY <1>2, <1>4 DEF Typed, DataTyped
    <3>2. j \in JobRecords
      BY <1>2, <3>1, Words DEF NewJob, JobRecords
    <3> QED
      BY <3>2, NoneApart
  <2>3. command'.pc = "return" /\ command'.task = t
    BY <1>2, <1>4 DEF Await, CommandRecords
  <2> HIDE DEF j, t
  <2>4. jobs'[t] = j /\ \A u \in Tasks : u # t => jobs'[u] = jobs[u]
    BY <1>2, <1>4 DEF Typed, JobsTyped
  <2>5. CommandsRight'
    BY <1>1, <2>1, <2>2, <2>3, <2>4 DEF IInv, CommandsRight
  <2> QED
    BY <1>1, <1>2, <1>4, <2>1, <2>2, <2>5, CommandLaunches
<1> QED
  BY <1>3, <1>4 DEF ReturnControl, Job

LEMMA RefreshRight ==
  ASSUME Typed, IInv, Refresh
  PROVE  IInv'
<1>1. /\ Still /\ UNCHANGED <<jobs, command, claims, retries, shutdown>> /\ known' = tracker
      /\ tick' = NewTick(tracker) /\ shutdown.pc = "idle"
  BY DEF Refresh, Stopping, Still, disk, scheduler, bounds
<1>2. CommandsRight'
  BY <1>1, JobsCalm, CommandsStay DEF IInv
<1>3. TasksKnown'
  <2>1. AllKnown'
    BY <1>1, NoneApart DEF AllKnown, Typed, DataTyped
  <2> QED
    BY <2>1, KnownStays DEF IInv
<1>4. TickRight'
  BY <1>1 DEF TickRight, NewTick, Awake
<1>5. \A t \in Tasks : Launch(t)
  BY <1>1 DEF Launch
<1>6. tick'.pc = "reconcile"
  BY <1>1 DEF NewTick
<1> QED
  BY <1>1, <1>2, <1>3, <1>4, <1>5, <1>6, ClaimsSame, LaunchesRight

LEMMA RetryTimerRight ==
  ASSUME Typed, IInv, NEW t \in Tasks, RetryTimer(t)
  PROVE  IInv'
<1>1. /\ Still /\ UNCHANGED <<jobs, command, claims, known, shutdown>> /\ retries[t] # None
      /\ retries' = [retries EXCEPT ![t].due = TRUE]
      /\ tick' = NewTick(known) /\ shutdown.pc = "idle"
  BY DEF RetryTimer, HasTimer, Stopping, Still, projection, disk, scheduler, bounds
<1>2. CommandsRight'
  BY <1>1, JobsCalm, CommandsStay DEF IInv
<1>3. schedulerUp
  BY <1>1 DEF IInv, DownRight
<1>4. TasksKnown'
  BY <1>1, <1>3, KnownSame DEF IInv, SomeWork
<1>5. TickRight'
  BY <1>1 DEF TickRight, NewTick, Awake
<1>6. \A u \in Tasks : Launch(u)
  BY <1>1 DEF Launch
<1>7. \A u \in Tasks : retries[u] = None => retries'[u] = None
  BY <1>1 DEF Typed, SchedulerTyped
<1>8. \A b \in AttemptIds : Lives(attempts[b]) => ClaimStays(attempts[b].task)
  BY <1>1, <1>7 DEF ClaimStays, Lives, Typed, SchedulerTyped, Snapshots
<1> QED
  BY <1>1, <1>2, <1>3, <1>4, <1>5, <1>6, <1>8, LaunchesRight

\* The tick is past the restoring of the scheduler.
LEMMA TickUp ==
  ASSUME IInv, tick.pc \notin {"idle", "reconcile"}
  PROVE  schedulerUp
BY DEF IInv, DownRight

LEMMA TickStepRight ==
  ASSUME Typed, IInv, Still, UNCHANGED <<command, known, shutdown>>, tick.pc \notin {"idle", "reconcile"},
         tick'.pc # "append" \/ tick'.write # "attempt", tick'.pc # "idle" => tick'.stopped \subseteq tick.stopped,
         \A t \in Tasks : Launch(t) /\ JobCalm(t),
         \A b \in AttemptIds : Lives(attempts[b]) => ClaimStays(attempts[b].task)
  PROVE  IInv'
<1>1. schedulerUp
  BY TickUp
<1>2. CommandsRight'
  BY CommandsStay DEF IInv
<1>3. TasksKnown'
  BY <1>1, KnownSame DEF IInv, SomeWork
<1>4. TickRight'
  BY TickMoves DEF IInv, Still, Awake
<1> QED
  BY <1>1, <1>2, <1>3, <1>4, LaunchesRight

LEMMA CleanupRight ==
  ASSUME Typed, IInv, Cleanup
  PROVE  IInv'
<1>1. /\ Still /\ UNCHANGED <<jobs, command, known, shutdown, claims, retries>> /\ tick.pc = "cancel"
  BY DEF Cleanup, TickAt, Still, projection, disk, scheduler, bounds
<1>2. tick \in TickRecords
  BY <1>1, ATick
<1>3. /\ tick'.pc # "append" \/ tick'.write # "attempt"
      /\ tick'.pc # "idle" => tick'.stopped \subseteq tick.stopped
  <2>1. ASSUME tick.closed = {}
        PROVE  tick'.pc = "retries" /\ tick'.stopped = tick.stopped
    BY <1>2, <2>1 DEF Cleanup, TickRecords
  <2>2. ASSUME NEW t \in tick.closed, tick' = [tick EXCEPT !.closed = @ \ {t}]
        PROVE  tick'.pc = "cancel" /\ tick'.stopped = tick.stopped
    BY <1>1, <1>2, <2>2 DEF TickRecords
  <2>3. ASSUME NEW t \in tick.closed,
               tick' = [tick EXCEPT !.closed = @ \ {t}, !.pc = "append", !.task = t, !.write = "released", !.next = "cancel"]
        PROVE  tick'.write = "released" /\ tick'.stopped = tick.stopped
    BY <1>1, <1>2, <2>3 DEF TickRecords
  <2>4. CASE tick.closed = {}
    BY <2>1, <2>4
  <2>5. CASE tick.closed # {}
    <3>1. PICK t \in tick.closed :
             IF AttemptsOf(t) = {} \/ workspaces[t] # "retained"
             THEN tick' = [tick EXCEPT !.closed = @ \ {t}] /\ UNCHANGED lock
             ELSE \/ /\ lock' = Append(lock, "tick")
                     /\ tick' = [tick EXCEPT !.closed = @ \ {t}, !.pc = "append", !.task = t,
                                             !.write = "released", !.next = "cancel"]
                  \/ "remove" \in Faults /\ TickFails /\ UNCHANGED lock
      BY <2>5 DEF Cleanup
    <3>2. CASE tick' = [tick EXCEPT !.closed = @ \ {t}]
      BY <2>2, <3>2
    <3>3. CASE tick' = [tick EXCEPT !.closed = @ \ {t}, !.pc = "append", !.task = t, !.write = "released",
                                    !.next = "cancel"]
      BY <2>3, <3>3
    <3>4. CASE TickFails
      BY <3>4 DEF TickFails
    <3> QED
      BY <3>1, <3>2, <3>3, <3>4
  <2> QED
    BY <2>4, <2>5
<1>4. \A t \in Tasks : Launch(t) /\ JobCalm(t)
  BY <1>1 DEF Launch, JobCalm
<1> QED
  BY <1>1, <1>3, <1>4, ClaimsSame, TickStepRight

LEMMA ReadRetryRight ==
  ASSUME Typed, IInv, ReadRetry
  PROVE  IInv'
<1>1. /\ Still /\ UNCHANGED <<jobs, command, known, shutdown, claims, retries>> /\ tick.pc = "retries"
  BY DEF ReadRetry, TickAt, Still, projection, disk, scheduler, bounds
<1>2. tick \in TickRecords
  BY <1>1, ATick
<1>3. /\ tick'.pc # "append" \/ tick'.write # "attempt"
      /\ tick'.pc # "idle" => tick'.stopped \subseteq tick.stopped
  <2>1. ASSUME NEW t \in tick.due, tick' = [tick EXCEPT !.due = @ \ {t}]
        PROVE  tick'.pc = "retries" /\ tick'.stopped = tick.stopped
    BY <1>1, <1>2, <2>1 DEF TickRecords
  <2>2. ASSUME NEW t \in tick.due,
               tick' = [tick EXCEPT !.pc = "append", !.write = "task", !.task = t, !.snapshot = tracker[t], !.next = "retry"]
        PROVE  tick'.write = "task" /\ tick'.stopped = tick.stopped
    BY <1>1, <1>2, <2>2 DEF TickRecords
  <2> QED
    BY <2>1, <2>2 DEF ReadRetry
<1>4. \A t \in Tasks : Launch(t) /\ JobCalm(t)
  BY <1>1 DEF Launch, JobCalm
<1> QED
  BY <1>1, <1>3, <1>4, ClaimsSame, TickStepRight

LEMMA TryRetryRight ==
  ASSUME Typed, IInv, TryRetry
  PROVE  IInv'
<1> DEFINE t == tick.task
           n == [tick EXCEPT !.pc = "retries", !.due = @ \ {t}]
           j == NewJob("run", "retry", FALSE, None, "eligible")
<1>1. tick.pc = "retry" /\ tick \in TickRecords /\ t \in Tasks /\ n \in TickRecords /\ n.pc = "retries"
  BY TryRetryStep
<1>2. UNCHANGED <<tracker, projection, disk, schedulerUp, attempts, runs, command, shutdown, bounds>>
  BY TryRetryStep
<1>3. Still /\ UNCHANGED <<command, known, shutdown>>
  BY <1>2 DEF Still, projection, disk, bounds
<1>4. n.stopped = tick.stopped
  BY <1>1 DEF TickRecords
<1>5. j.attempt = None /\ j.pc = "fetch" /\ j.kind = "run" /\ Where(j) = "fetch" /\ Waiting(j)
  BY DEF NewJob, Where, Waiting
<1>6. j # None
  <2>1. j \in JobRecords
    BY Words DEF NewJob, JobRecords
  <2> QED
    BY <2>1, NoneApart
<1>7. \/ /\ jobs' = IF Job(t) THEN jobs ELSE [jobs EXCEPT ![t] = j]
         /\ tick' = n /\ UNCHANGED <<claims, retries, lock>>
      \/ TickFails /\ UNCHANGED <<claims, retries, lock, jobs>>
      \/ /\ retries[t] # None
         /\ retries' = [retries EXCEPT ![t] = None] /\ claims' = [claims EXCEPT ![t] = None]
         /\ UNCHANGED jobs
         /\ \/ tick' = n /\ UNCHANGED lock
            \/ /\ lock' = Append(lock, "tick")
               /\ tick' = [n EXCEPT !.pc = "append", !.write = "released", !.next = "retries"]
            \/ TickFails /\ UNCHANGED lock
  BY TryRetryStep
<1>8. /\ tick'.pc # "append" \/ tick'.write # "attempt"
      /\ tick'.pc # "idle" => tick'.stopped \subseteq tick.stopped
  <2>1. CASE tick' = n
    BY <1>1, <1>4, <2>1
  <2>2. CASE TickFails
    BY <2>2 DEF TickFails
  <2>3. CASE tick' = [n EXCEPT !.pc = "append", !.write = "released", !.next = "retries"]
    <3> HIDE DEF n
    <3>1. tick'.write = "released" /\ tick'.stopped = n.stopped
      BY <1>1, <2>3 DEF TickRecords
    <3> QED
      BY <1>4, <3>1
  <2> HIDE DEF n, j
  <2> QED
    BY <1>7, <2>1, <2>2, <2>3
<1> HIDE DEF n, j, t
<1>9. \A u \in Tasks : Launch(u) /\ JobCalm(u)
  <2>1. jobs' = jobs \/ (jobs[t] = None /\ jobs' = [jobs EXCEPT ![t] = j])
    BY <1>7 DEF Job
  <2> QED
    BY <1>1, <1>5, <1>6, <2>1 DEF Launch, JobCalm, Typed, JobsTyped
<1>10. \A b \in AttemptIds : Lives(attempts[b]) => ClaimStays(attempts[b].task)
  <2>1. CASE UNCHANGED <<claims, retries>>
    BY <2>1, ClaimsSame
  <2>2. CASE retries[t] # None /\ retries' = [retries EXCEPT ![t] = None] /\ claims' = [claims EXCEPT ![t] = None]
    <3>1. ASSUME NEW b \in AttemptIds, Lives(attempts[b])
          PROVE  ClaimStays(attempts[b].task)
      <4>1. attempts[b].task \in Tasks /\ attempts[b].task # t
        BY <2>2, <3>1 DEF IInv, TablesRight, ClaimOk, Lives, Typed, SchedulerTyped, Snapshots
      <4> QED
        BY <2>2, <4>1 DEF ClaimStays, Typed, SchedulerTyped
    <3> QED
      BY <3>1
  <2> QED
    BY <1>7, <2>1, <2>2
<1> QED
  BY <1>1, <1>3, <1>8, <1>9, <1>10, TickStepRight

LEMMA DispatchRight ==
  ASSUME Typed, IInv, DispatchTick
  PROVE  IInv'
<1> DEFINE j == NewJob("run", "dispatch", FALSE, None, "eligible")
<1>1. /\ Still /\ UNCHANGED <<command, known, shutdown, claims, retries>> /\ tick.pc = "retries" /\ tick'.pc = "idle"
  BY DEF DispatchTick, TickAt, Still, projection, disk, scheduler, bounds
<1>2. \A t \in Tasks : jobs'[t] = jobs[t] \/ (jobs[t] = None /\ jobs'[t] = j)
  <2> DEFINE ready == {t \in Tasks : tick.seen[t] = "eligible" /\ claims[t] = None /\ ~Job(t)}
  <2>1. \A t \in ready : jobs[t] = None
    BY DEF Job
  <2> HIDE DEF j, ready
  <2>2. \E launched \in SUBSET ready : jobs' = [t \in Tasks |-> IF t \in launched THEN j ELSE jobs[t]]
    BY DEF DispatchTick, j, ready
  <2> QED
    BY <2>1, <2>2
<1>3. j.attempt = None /\ j.pc = "fetch" /\ j.kind = "run" /\ Where(j) = "fetch" /\ Waiting(j)
  BY DEF NewJob, Where, Waiting
<1>4. j # None
  <2>1. j \in JobRecords
    BY Words DEF NewJob, JobRecords
  <2> QED
    BY <2>1, NoneApart
<1> HIDE DEF j
<1>5. \A t \in Tasks : Launch(t) /\ JobCalm(t)
  BY <1>2, <1>3, <1>4 DEF Launch, JobCalm
<1> QED
  BY <1>1, <1>5, ClaimsSame, TickStepRight

-----------------------------------------------------------------------------
(* What is queued is recorded *)

\* The projection hears of an Attempt.
LEMMA RecordedRight ==
  ASSUME Typed, TablesRight, UNCHANGED <<schedulerUp, drawn, index, attempts, runs, claims, retries>>,
         LogStays, LogRight', NEW a \in AttemptIds, NEW s \in Snapshots, index[a] # None, Same(s, index[a]), OkSnap(s),
         s.status # "paused", recorded' = [recorded EXCEPT ![a] = s]
  PROVE  TablesRight'
<1>1. \A b \in AttemptIds : IdOk(b) /\ SnapsOk(b)
  BY DEF TablesRight
<1>2. ASSUME NEW b \in AttemptIds
      PROVE  SnapsFit(b) /\ PausesStay(b)
  <2>1. CASE b = a
    <3>1. recorded'[b] = s
      BY <2>1 DEF Typed, DataTyped
    <3> QED
      BY <1>1, <2>1, <3>1 DEF SnapsFit, PausesStay, SnapsOk, IsPaused
  <2>2. CASE b # a
    <3>1. recorded'[b] = recorded[b]
      BY <2>2 DEF Typed, DataTyped
    <3> QED
      BY <1>1, <3>1 DEF SnapsFit, PausesStay, SnapsOk, IdOk
  <2> QED
    BY <2>1, <2>2
<1>3. \A b \in AttemptIds : Keeps(index[b], index'[b]) /\ Keeps(attempts[b], attempts'[b]) /\ RunKeeps(b)
  BY DEF Keeps, Same, RunKeeps
<1>4. \A b \in AttemptIds : LivesStay(b)
  BY DEF LivesStay, Scheduled, ClaimStays
<1> QED
  BY <1>2, <1>3, <1>4, TablesSteady DEF Steady

\* An Attempt that a run serves is in the scheduler and in the index.
LEMMA RunStands ==
  ASSUME Typed, IInv, NEW a \in AttemptIds, runs[a] # None
  PROVE  /\ schedulerUp /\ index[a] # None /\ Same(runs[a].attempt, index[a]) /\ attempts[a] # None
         /\ attempts[a] \in Snapshots /\ Same(attempts[a], runs[a].attempt) /\ OkSnap(attempts[a])
         /\ RunOk(a, runs[a], jobs[runs[a].attempt.task], attempts[a], logged[runs[a].attempt.task].last, Awake)
<1>1. IdOk(a) /\ SnapsOk(a) /\ RunRight(a)
  BY DEF IInv, TablesRight, WorkRight
<1> QED
  BY <1>1 DEF IdOk, SnapsOk, RunRight, Same, Typed, SchedulerTyped

LEMMA JobStands ==
  ASSUME Typed, IInv, NEW t \in Tasks, jobs[t] # None, NEW a \in AttemptIds, jobs[t].attempt = a
  PROVE  /\ runs[a] # None /\ runs[a].attempt.task = t /\ JobOk(jobs[t], runs[a], attempts[a], Awake)
         /\ jobs[t].kind = "run"
<1>1. runs[a] # None /\ jobs[t] \in JobRecords
  BY JobTyped, NoneApart DEF Typed, JobsTyped
<1>2. JobRight(t) /\ a # None
  BY NoneApart DEF IInv, WorkRight
<1>3. jobs[t].kind # "continue"
  BY <1>2 DEF IInv, CommandsRight, Waiting
<1> QED
  BY <1>1, <1>2, <1>3 DEF JobRight, JobRecords

LEMMA CommitRight ==
  ASSUME Typed, IInv, NEW t \in Tasks, Commit(t)
  PROVE  IInv'
<1> DEFINE j == jobs[t]
<1>1. /\ j # None /\ j.pc = "append" /\ Holds(t)
      /\ UNCHANGED <<index, scheduler, runs, command, tick, shutdown, bounds>>
  BY DEF Commit, At, Job
<1>2. j \in JobRecords /\ JobShape(j)
  BY <1>1, JobTyped
<1>3. UNCHANGED <<schedulerUp, drawn, attempts, claims, retries>>
  BY <1>1 DEF scheduler, bounds
<1>4. /\ \A u \in Tasks : u # t => jobs'[u] = jobs[u]
      /\ jobs'[t] = IF j.next = "end" THEN None ELSE Committed(j)
  BY <1>1 DEF Commit, Committed, Typed, JobsTyped
<1>5. command.pc # "return"
  BY <1>1, CommandHolds
<1>6. /\ j.next # "end" => /\ Committed(j).attempt = j.attempt /\ Committed(j).kind = j.kind /\ Where(Committed(j)) = Where(j)
                           /\ Committed(j).write = j.write /\ Committed(j) # None
      /\ Where(j) = "resume" => j.kind = "continue"
      /\ j.next = "end" => j.attempt = None
  BY <1>1, <1>2, CommittedIs DEF IInv, CommandsRight, JobShape, Where
<1> HIDE DEF j
<1>7. JobsStay
  <2>1. \/ jobs'[t] = jobs[t] \/ (~HasAttempt(jobs[t]) /\ ~HasAttempt(jobs'[t]))
        \/ HasAttempt(jobs[t]) /\ jobs[t].pc = "append" /\ jobs[t].next # "end" /\ jobs'[t] = Committed(jobs[t])
    BY <1>1, <1>4, <1>6 DEF HasAttempt, j
  <2> QED
    BY <1>4, <2>1 DEF JobsStay
<1>8. \A u \in Tasks : JobCalm(u)
  BY <1>1, <1>4, <1>5, <1>6 DEF JobCalm, j
<1>9. CommandsRight'
  BY <1>1, <1>8, CommandsStay DEF IInv
<1>10. TickRight'
  BY <1>1, <1>3, TickStays, ViewsStay DEF IInv, TickRight
<1>11. TasksKnown'
  <2>1. \A u \in Tasks : known'[u] # None \/ known'[u] = known[u]
    <3>1. j.view # None
      BY <1>2, NoneApart DEF JobRecords
    <3>2. known' = known \/ known' = [known EXCEPT ![t] = j.view]
      BY <1>2 DEF Commit, JobRecords, j
    <3> QED
      BY <3>1, <3>2 DEF Typed, DataTyped
  <2>2. AllKnown => AllKnown'
    BY <2>1 DEF AllKnown
  <2>3. SomeWork
    BY <1>1 DEF SomeWork, j
  <2> QED
    BY <2>2, <2>3, KnownStays DEF IInv
<1>12. LogStays /\ LogRight'
  <2>1. CASE logged' = logged
    BY <2>1, LogSame DEF IInv
  <2>2. CASE LogRetained(t)
    BY <2>2, LogWritten DEF IInv, LogRetained
  <2>3. CASE logged' = [logged EXCEPT ![t].last = "retained"]
    <3>1. /\ logged'[t].last = "retained" /\ \A u \in Tasks : u # t => logged'[u] = logged[u]
      BY <2>3 DEF Typed, DataTyped, Logged
    <3> QED
      BY <3>1 DEF LogStays, LogRight, IInv, TablesRight
  <2> QED
    BY <1>2, <2>1, <2>2, <2>3 DEF Commit, JobRecords, j
<1>13. TablesRight'
  <2>1. CASE recorded' = recorded
    BY <1>1, <1>3, <1>12, <2>1, TablesSame, RunsKeep, ClaimsSame DEF IInv
  <2>2. CASE j.write = "attempt" /\ recorded' = [recorded EXCEPT ![j.attempt] = j.snapshot]
    <3> DEFINE a == j.attempt
               s == j.snapshot
    <3>1. a \in AttemptIds /\ s \in Snapshots
      BY <1>1, <1>2, <2>2 DEF JobShape, JobRecords
    <3>2. runs[a] # None /\ JobOk(jobs[t], runs[a], attempts[a], Awake)
      BY <1>1, <3>1, JobStands DEF j
    <3>3. Same(s, runs[a].attempt) /\ OkSnap(s) /\ s.status # "paused"
      BY <1>1, <2>2, <3>2 DEF JobOk, j
    <3>4. index[a] # None /\ Same(runs[a].attempt, index[a])
      BY <3>1, <3>2, RunStands
    <3>5. Same(s, index[a])
      BY <3>3, <3>4 DEF Same
    <3>6. recorded' = [recorded EXCEPT ![a] = s] /\ TablesRight
      BY <2>2 DEF IInv
    <3> HIDE DEF a, s
    <3> QED
      BY <1>1, <1>3, <1>12, <3>1, <3>3, <3>4, <3>5, <3>6, RecordedRight
  <2> QED
    BY <1>2, <2>1, <2>2 DEF Commit, JobRecords, j
<1>14. WorkRight'
  BY <1>1, <1>3, <1>7, <1>12, WorkSame DEF IInv, Awake
<1>15. DownRight'
  <2>1. ASSUME ~schedulerUp
        PROVE  DownStays
    <3>1. DownRight
      BY DEF IInv
    <3>2. j.write = "task" /\ Where(j) \in Early
      BY <1>1, <2>1, <3>1 DEF DownRight, j
    <3>3. UNCHANGED <<recorded, workspaces, logged>>
      BY <3>2 DEF Commit, j
    <3>4. tick'.pc \in {"idle", "reconcile"}
      BY <1>1, <2>1, <3>1 DEF DownRight
    <3>5. \A u \in Tasks : jobs'[u] = jobs[u] \/ jobs'[u] = None \/ EarlyJob(jobs'[u])
      BY <1>4, <1>6, <3>2 DEF EarlyJob
    <3> QED
      BY <1>1, <1>3, <3>3, <3>4, <3>5 DEF DownStays
  <2>2. DownStays
    BY <2>1 DEF DownStays
  <2> QED
    BY <1>3, <2>2, DownKept DEF IInv
<1> QED
  BY <1>9, <1>10, <1>11, <1>13, <1>14, <1>15 DEF IInv

LEMMA TickCommitRight ==
  ASSUME Typed, IInv, TickCommit
  PROVE  IInv'
<1>1. /\ tick.pc = "append" /\ Holds("tick") /\ tick' = [tick EXCEPT !.pc = tick.next]
      /\ UNCHANGED <<index, scheduler, runs, jobs, command, shutdown, bounds>>
  BY DEF TickCommit, TickAt, TickTo
<1>2. tick \in TickRecords
  BY <1>1, ATick
<1>3. UNCHANGED <<schedulerUp, drawn, attempts, claims, retries>> /\ schedulerUp
  BY <1>1, TickUp DEF scheduler, bounds
<1>4. tick'.pc = tick.next /\ tick'.stopped = tick.stopped /\ tick.next \in TickNexts
  BY <1>1, <1>2 DEF TickRecords
<1>5. tick.task \in Tasks
  BY <1>1 DEF Typed, RestTyped, TickShape
<1>6. CommandsRight'
  BY <1>1, JobsCalm, CommandsStay DEF IInv
<1>7. TickRight'
  BY <1>1, <1>3, <1>4, TickMoves DEF IInv, TickNexts, Awake
<1>8. TasksKnown'
  <2>1. known' = known \/ (tick.write = "task" /\ known' = [known EXCEPT ![tick.task] = tick.snapshot])
    BY <1>2 DEF TickCommit, TickRecords, TickWrites
  <2>2. tick.write = "task" => tick.snapshot # None
    BY <1>1, NoneApart DEF Typed, RestTyped, TickShape, Where
  <2>3. AllKnown => AllKnown'
    BY <1>5, <2>1, <2>2 DEF AllKnown, Typed, DataTyped
  <2> QED
    BY <1>3, <2>3, KnownStays DEF IInv, SomeWork
<1>9. LogStays /\ LogRight'
  <2>1. CASE logged' = logged
    BY <2>1, LogSame DEF IInv
  <2>2. CASE LogRetained(tick.task)
    BY <1>5, <2>2, LogWritten DEF IInv, LogRetained
  <2>3. CASE LogReleased(tick.task)
    BY <1>5, <2>3, LogWritten DEF IInv, LogReleased
  <2> QED
    BY <1>2, <2>1, <2>2, <2>3 DEF TickCommit, TickRecords, TickWrites
<1>10. TablesRight'
  <2>1. CASE recorded' = recorded
    BY <1>1, <1>3, <1>9, <2>1, TablesSame, RunsKeep, ClaimsSame DEF IInv
  <2>2. CASE tick.write = "attempt" /\ recorded' = [recorded EXCEPT ![tick.attempt] = tick.snapshot]
    <3> DEFINE a == tick.attempt
               s == tick.snapshot
    <3>1. a \in AttemptIds /\ s \in Snapshots
      BY <1>1, <1>2, <2>2 DEF Typed, RestTyped, TickShape, TickRecords
    <3>2. index[a] # None /\ Same(s, index[a]) /\ OkSnap(s) /\ s.status # "paused"
      BY <1>1, <2>2 DEF IInv, TickRight
    <3>3. recorded' = [recorded EXCEPT ![a] = s] /\ TablesRight
      BY <2>2 DEF IInv
    <3> HIDE DEF a, s
    <3> QED
      BY <1>1, <1>3, <1>9, <3>1, <3>2, <3>3, RecordedRight
  <2> QED
    BY <1>2, <2>1, <2>2 DEF TickCommit, TickRecords, TickWrites
<1>11. WorkRight'
  <2>1. JobsStay
    BY <1>1 DEF JobsStay
  <2> QED
    BY <1>1, <1>3, <1>9, <2>1, WorkSame DEF IInv, Awake
<1> QED
  BY <1>3, <1>6, <1>7, <1>8, <1>10, <1>11, DownUp DEF IInv

-----------------------------------------------------------------------------
(* A job moves; somebody ends a run *)

LEMMA MovingRight ==
  ASSUME Typed, IInv, NEW t \in Tasks, Moving(t)
  PROVE  IInv'
<1>1. PICK a \in AttemptIds : JobMove(t, a)
  BY MovingMoves
<1>2. /\ jobs[t] # None /\ jobs[t].attempt = a /\ jobs' = [jobs EXCEPT ![t] = jobs'[t]]
      /\ Elsewhere /\ SchedulerMove(t, a) /\ TypedMove(jobs'[t], a, runs'[a]) /\ (Before(t, a) => After(t, a))
      /\ index' = index \/ index' = [index EXCEPT ![a] = runs'[a].attempt]
  BY <1>1 DEF JobMove
<1>3. runs[a] # None /\ runs[a].attempt.task = t /\ JobOk(jobs[t], runs[a], attempts[a], Awake) /\ jobs[t].kind = "run"
  BY <1>2, JobStands
<1>4. /\ schedulerUp /\ index[a] # None /\ Same(runs[a].attempt, index[a]) /\ attempts[a] # None
      /\ attempts[a] \in Snapshots /\ Same(attempts[a], runs[a].attempt) /\ OkSnap(attempts[a])
      /\ RunOk(a, runs[a], jobs[t], attempts[a], logged[t].last, Awake)
  BY <1>3, RunStands
<1>5. After(t, a)
  BY <1>2, <1>3, <1>4 DEF Before, Right
<1>6. TablesRight'
  BY <1>1, <1>3, <1>5, TablesMove DEF IInv
<1>7. WorkRight'
  BY <1>1, <1>3, <1>5, WorkMove DEF IInv
<1>8. UNCHANGED <<schedulerUp, known, command, tick, shutdown>>
  BY <1>2 DEF Elsewhere, projection
<1>9. CommandsRight'
  <2>1. \A u \in Tasks : u # t => jobs'[u] = jobs[u]
    BY <1>2 DEF Typed, JobsTyped
  <2>2. jobs'[t] # None => jobs'[t].kind = jobs[t].kind /\ Where(jobs'[t]) # "resume"
    BY <1>2, <1>5, NoneApart DEF After, RightMove, TypedMove, JobShape, Early
  <2>3. ~Waiting(jobs[t])
    BY <1>2, NoneApart DEF Waiting
  <2>4. \A u \in Tasks : JobCalm(u)
    BY <1>2, <2>1, <2>2, <2>3 DEF JobCalm
  <2> QED
    BY <1>8, <2>4, CommandsStay DEF IInv
<1>10. TasksKnown'
  BY <1>4, <1>8, KnownSame DEF IInv, SomeWork
<1>11. TickRight'
  <2>1. \A b \in AttemptIds : Over(attempts[b]) => Over(attempts'[b])
    BY <1>2, <1>4 DEF SchedulerMove, Over, Live, Terminal, Typed, SchedulerTyped
  <2>2. Same(runs'[a].attempt, index[a]) /\ runs'[a].attempt \in Snapshots
    BY <1>2, <1>4, <1>5 DEF After, RightMove, Same, TypedMove, RunRecords
  <2>3. \A b \in AttemptIds : Keeps(index[b], index'[b])
    BY <1>2, <1>4, <2>2, NoneApart DEF Keeps, Same, Typed, DataTyped
  <2> QED
    BY <1>8, <2>1, <2>3, TickStays DEF IInv, Awake, TickRight
<1> QED
  BY <1>4, <1>6, <1>7, <1>8, <1>9, <1>10, <1>11, DownUp DEF IInv

\* One run changes and the tables stay.
LEMMA RunRightStep ==
  ASSUME Typed, IInv, NEW a \in AttemptIds, runs[a] # None, NEW r \in RunRecords, runs' = [runs EXCEPT ![a] = r],
         r.attempt = runs[a].attempt, LogStays, LogRight',
         UNCHANGED <<schedulerUp, drawn, index, recorded, attempts, claims, retries, jobs, known, shutdown>>,
         NEW t, t = runs[a].attempt.task,
         RunOk(a, r, jobs[t], attempts[a], logged'[t].last, Awake),
         Owns(jobs[t], a) => JobOk(jobs[t], r, attempts[a], Awake),
         CommandsRight', TickRight'
  PROVE  IInv'
<1>1. Same(r.attempt, runs[a].attempt)
  BY DEF Same
<1>2. TablesRight'
  BY <1>1, ARunKeeps, ClaimsSame, TablesSame DEF IInv
<1>3. Awake' = Awake
  BY DEF Awake
<1>4. WorkRight'
  BY <1>1, <1>3, WorkRun DEF IInv
<1>5. schedulerUp
  BY RunStands
<1>6. TasksKnown'
  BY <1>5, KnownSame DEF IInv, SomeWork
<1> QED
  BY <1>2, <1>4, <1>5, <1>6, DownUp DEF IInv

\* What stays when a run moves by itself.
LEMMA OthersStay ==
  ASSUME Typed, IInv, UNCHANGED <<attempts, index, jobs, command, tick, shutdown>>
  PROVE  CommandsRight' /\ TickRight'
<1>1. CommandsRight'
  BY JobsCalm, CommandsStay DEF IInv
<1>2. TickRight'
  BY TickStays, ViewsStay DEF IInv, TickRight
<1> QED
  BY <1>1, <1>2

LEMMA TurnEndsRight ==
  ASSUME Typed, IInv, NEW a \in AttemptIds, TurnEnds(a)
  PROVE  IInv'
<1>1. /\ runs[a] # None
      /\ UNCHANGED <<schedulerUp, drawn, index, recorded, attempts, claims, retries, jobs, known, shutdown, command, tick,
                     logged>>
  BY DEF TurnEnds, projection, disk, scheduler, bounds
<1>2. PICK o \in {"completed", "interrupted"} : runs' = [runs EXCEPT ![a].turn = o]
  BY DEF TurnEnds
<1> DEFINE r == [runs[a] EXCEPT !.turn = o]
           q == runs[a]
           t == runs[a].attempt.task
<1>3. /\ r \in RunRecords /\ r.attempt = q.attempt /\ r.view = q.view /\ r.stopping = q.stopping /\ r.handoff = q.handoff
      /\ r.workspace = q.workspace /\ r.turn # "open" /\ r.listed = q.listed /\ r.settled = q.settled /\ r.ends = q.ends
      /\ r.worker = q.worker
  <2>1. q \in RunRecords /\ o # "open"
    BY <1>1, ARun
  <2>2. r \in RunRecords
    BY <2>1, RunTurnOver
  <2> QED
    BY <2>1, <2>2 DEF RunRecords
<1>4. runs' = [runs EXCEPT ![a] = r]
  BY <1>2 DEF Typed, RunsTyped
<1>5. RunOk(a, q, jobs[t], attempts[a], logged[t].last, Awake)
  BY <1>1, RunStands
<1>6. Owns(jobs[t], a) => JobOk(jobs[t], q, attempts[a], Awake)
  BY <1>1, ARun, JobStands DEF Owns
<1> HIDE DEF r
<1>7. RunOk(a, r, jobs[t], attempts[a], logged'[t].last, Awake)
  BY <1>1, <1>3, <1>5 DEF RunOk, WorkerOk
<1>8. Owns(jobs[t], a) => JobOk(jobs[t], r, attempts[a], Awake)
  BY <1>3, <1>6 DEF JobOk, Free
<1>9. LogStays /\ LogRight' /\ CommandsRight' /\ TickRight'
  BY <1>1, LogSame, OthersStay DEF IInv
<1> QED
  BY <1>1, <1>3, <1>4, <1>7, <1>8, <1>9, RunRightStep

\* How a run q looks beside r, where one who ends it has come to x.
Further(who, x, q, r) ==
  /\ q.attempt = r.attempt /\ q.view = r.view /\ q.stopping = r.stopping /\ q.handoff = r.handoff /\ q.turn = r.turn
  /\ q.listed = r.listed /\ q.settled = r.settled
  /\ r.ends \in [Enders -> Stages] /\ q.ends = [r.ends EXCEPT ![who] = x]
  /\ q.worker = "open" => r.worker = "open" /\ r.ends[who] # "halt"

LEMMA FurtherOk ==
  ASSUME NEW who \in Enders, NEW x \in Stages, NEW q, NEW r, Further(who, x, q, r), x # "none",
         r.ends[who] \notin {"none", "done"},
         NEW a, NEW j, NEW s, NEW last, NEW last2, NEW open, RunOk(a, r, j, s, last, open),
         last # "none" => last2 # "none", q.workspace = r.workspace \/ (q.workspace = "retained" /\ last2 # "none"),
         x = "status" => q.workspace = "retained",
         x \in {"halt", "retained", "status"} => r.ends[who] \in {"halt", "retained", "status"}
  PROVE  RunOk(a, q, j, s, last2, open)
<1>1. \A w \in Enders : q.ends[w] = IF w = who THEN x ELSE r.ends[w]
  BY DEF Further
<1>2. /\ "command" \in Enders /\ "stop" \in Enders /\ "tick" \in Enders /\ "job" \in Enders
  BY DEF Enders
<1>3. OkSnap(q.attempt) /\ (q.listed /\ ~q.stopping => Owns(j, a)) /\ (q.turn = "open" => Owns(j, a) /\ Where(j) = "consume")
  BY DEF Further, RunOk
<1>4. q.workspace = "retained" /\ s.status \in Live => last2 # "none" \/ (Owns(j, a) /\ Where(j) \in {"finish", "failed"})
  BY DEF RunOk
<1>5. q.stopping <=> \E w \in Enders : q.ends[w] # "none"
  BY <1>1 DEF Further, RunOk
<1>6. /\ q.ends["command"] = "none"
      /\ q.ends["stop"] # "none" => ~open
      /\ q.ends["tick"] # "none" => s.status \in Terminal
      /\ q.ends["job"] \in {"halt", "retained", "status"} => Owns(j, a) /\ j.pc \in {"handoff", "interrupt"}
  BY <1>1, <1>2 DEF RunOk
<1>7. q.ends["job"] = "status" => q.workspace = "retained"
  BY <1>1, <1>2 DEF RunOk
<1>8. (s.status = "paused" => ~q.listed) /\ (s.controller = "codex" => s.status = "paused")
  BY DEF Further, RunOk
<1>9. q.attempt.controller = "codex" => s.status = "paused" /\ q.ends["job"] = "done"
  BY <1>1, <1>2 DEF Further, RunOk
<1>10. WorkerOk(a, q, j, open)
  BY DEF Further, RunOk, WorkerOk
<1> QED
  BY <1>3, <1>4, <1>5, <1>6, <1>7, <1>8, <1>9, <1>10 DEF RunOk

LEMMA FurtherJob ==
  ASSUME NEW who, NEW x, NEW q, NEW r, Further(who, x, q, r), NEW j, NEW s, NEW open, JobOk(j, r, s, open)
  PROVE  JobOk(j, q, s, open)
BY DEF Further, JobOk, Free

\* One who ends a run goes on, and the tables stay.
FurtherStep(a, who, x, q, t) ==
  /\ runs[a] # None /\ x # "none" /\ runs' = [runs EXCEPT ![a] = q] /\ Further(who, x, q, runs[a])
  /\ runs[a].ends[who] \notin {"none", "done"}
  /\ UNCHANGED <<schedulerUp, drawn, index, recorded, attempts, claims, retries, jobs, known, shutdown>>
  /\ t = runs[a].attempt.task
  /\ q.workspace = runs[a].workspace \/ (q.workspace = "retained" /\ logged'[t].last # "none")
  /\ x = "status" => q.workspace = "retained"
  /\ x \in {"halt", "retained", "status"} => runs[a].ends[who] \in {"halt", "retained", "status"}

LEMMA FurtherRight ==
  ASSUME Typed, IInv, NEW a \in AttemptIds, NEW who \in Enders, NEW x \in Stages,
         NEW q \in RunRecords, NEW t, FurtherStep(a, who, x, q, t), LogStays, LogRight', CommandsRight', TickRight'
  PROVE  IInv'
<1> USE DEF FurtherStep
<1>1. RunOk(a, runs[a], jobs[t], attempts[a], logged[t].last, Awake)
  BY RunStands
<1>2. Owns(jobs[t], a) => JobOk(jobs[t], runs[a], attempts[a], Awake)
  BY ARun, JobStands DEF Owns
<1>3. t \in Tasks
  BY ARun
<1>4. logged[t].last # "none" => logged'[t].last # "none"
  BY <1>3 DEF LogStays
<1>5. RunOk(a, q, jobs[t], attempts[a], logged'[t].last, Awake)
  BY <1>1, <1>4, FurtherOk
<1>6. Owns(jobs[t], a) => JobOk(jobs[t], q, attempts[a], Awake)
  BY <1>2, FurtherJob
<1>7. q.attempt = runs[a].attempt
  BY DEF Further
<1> QED
  BY <1>5, <1>6, <1>7, RunRightStep

LEMMA EndHaltRight ==
  ASSUME Typed, IInv, NEW who \in Enders, NEW a \in AttemptIds, EndHalt(who, a)
  PROVE  IInv'
<1>1. PICK x \in {"status", "retained", "failed"} :
        runs' = [runs EXCEPT ![a] = HaltedBy(who, runs[a], x)] /\ (x = "status" => runs[a].workspace = "retained")
  BY HaltStep
<1>2. /\ UNCHANGED <<schedulerUp, drawn, index, recorded, attempts, claims, retries, jobs, known, shutdown, command, tick,
                     logged>>
      /\ runs[a] \in RunRecords /\ runs[a].ends[who] = "halt" /\ runs[a] # None
  BY HaltStep, NoneApart DEF projection, disk, scheduler, bounds
<1>3. x \in Stages /\ x # "none"
  BY DEF Stages
<1> DEFINE q == HaltedBy(who, runs[a], x)
           t == runs[a].attempt.task
<1>4. q \in RunRecords /\ q.workspace = runs[a].workspace /\ Further(who, x, q, runs[a])
  BY <1>2, <1>3, RunHalted, ARun DEF Further
<1>5. runs' = [runs EXCEPT ![a] = q]
  BY <1>1
<1>6. x = "status" => q.workspace = "retained"
  BY <1>1, <1>4
<1>7. t = runs[a].attempt.task
  OBVIOUS
<1> HIDE DEF q, t
<1>8. LogStays /\ LogRight' /\ CommandsRight' /\ TickRight'
  BY <1>2, LogSame, OthersStay DEF IInv
<1>9. /\ runs[a].ends[who] \notin {"none", "done"}
      /\ x \in {"halt", "retained", "status"} => runs[a].ends[who] \in {"halt", "retained", "status"}
      /\ q.workspace = runs[a].workspace \/ (q.workspace = "retained" /\ logged'[t].last # "none")
  BY <1>2, <1>4
<1>10. FurtherStep(a, who, x, q, t)
  BY <1>2, <1>3, <1>4, <1>5, <1>6, <1>7, <1>9 DEF FurtherStep
<1> QED
  BY <1>3, <1>4, <1>8, <1>10, FurtherRight

LEMMA EndRetainedRight ==
  ASSUME Typed, IInv, NEW who \in Enders, NEW a \in AttemptIds, EndRetained(who, a)
  PROVE  IInv'
<1> DEFINE q == KeptBy(who, runs[a])
           t == runs[a].attempt.task
           x == "status"
<1>1. /\ UNCHANGED <<schedulerUp, drawn, index, recorded, attempts, claims, retries, jobs, known, shutdown, command, tick>>
      /\ runs[a] \in RunRecords /\ runs[a].ends[who] = "retained" /\ runs[a] # None
      /\ runs' = [runs EXCEPT ![a] = q] /\ LogRetained(t) /\ t \in Tasks
  BY KeptStep, NoneApart DEF scheduler, bounds
<1>2. x \in Stages /\ x # "none"
  BY DEF Stages
<1>3. q \in RunRecords /\ q.workspace = "retained" /\ Further(who, x, q, runs[a])
  BY <1>1, <1>2, RunKept, ARun DEF Further
<1>6. t = runs[a].attempt.task
  OBVIOUS
<1> HIDE DEF q, t, x
<1>4. LogStays /\ LogRight' /\ logged'[t].last # "none"
  BY <1>1, LogWritten DEF IInv, LogRetained
<1>5. CommandsRight' /\ TickRight'
  BY <1>1, OthersStay
<1>7. /\ runs[a].ends[who] \notin {"none", "done"}
      /\ runs[a].ends[who] \in {"halt", "retained", "status"}
      /\ q.workspace = "retained" /\ logged'[t].last # "none"
  BY <1>1, <1>3, <1>4
<1>8. FurtherStep(a, who, x, q, t)
  BY <1>1, <1>2, <1>3, <1>6, <1>7 DEF FurtherStep
<1> QED
  BY <1>2, <1>3, <1>4, <1>5, <1>8, FurtherRight

-----------------------------------------------------------------------------
(* The commands that hold the critical section, and the steps nobody takes *)

\* Nobody pauses or deletes an Attempt, and no job resumes one: those in the hands of Codex are resumed
\* by a return, which keeps its job from ever being recorded.
LEMMA NeverTaken ==
  ASSUME Typed, Unpaused, IInv
  PROVE  /\ ~PauseAttempt /\ ~AttemptPaused /\ ~DeleteAttempt /\ ~Unindex
         /\ \A t \in Tasks : ~Resume(t) /\ ~Reopen(t)
<1>1. ~AttemptPaused /\ ~DeleteAttempt /\ ~Unindex
  BY DEF IInv, CommandsRight, AttemptPaused, DeleteAttempt, Unindex
<1>2. ~PauseAttempt
  BY DEF PauseAttempt, Now, Typed, RestTyped, CommandShape, Unpaused
<1>3. ASSUME NEW t \in Tasks, jobs[t] # None, jobs[t].kind = "continue" \/ Where(jobs[t]) = "resume"
      PROVE  Waiting(jobs[t])
  BY <1>3 DEF IInv, CommandsRight
<1>4. ASSUME NEW t \in Tasks, Resume(t) \/ Reopen(t)
      PROVE  FALSE
  <2>1. jobs[t] # None /\ jobs[t].pc \in {"resume", "open"} /\ (jobs[t].pc = "open" => jobs[t].kind = "continue")
    BY <1>4 DEF Resume, Reopen, At, Job
  <2> QED
    BY <1>3, <2>1 DEF Where, Waiting
<1> QED
  BY <1>1, <1>2, <1>4

LEMMA HandoffRight ==
  ASSUME Typed, IInv, Handoff
  PROVE  IInv'
<1> DEFINE a == command.attempt
           r == [runs[a] EXCEPT !.handoff = TRUE]
           t == runs[a].attempt.task
<1>1. /\ command.pc = "queued" /\ Holds("command") /\ command.kind = "handoff"
      /\ UNCHANGED <<schedulerUp, drawn, index, recorded, attempts, claims, retries, jobs, known, shutdown, tick, logged,
                     workspaces>>
  BY DEF Handoff, Now, projection, disk, scheduler, bounds
<1>2. a \in AttemptIds /\ command \in CommandRecords
  BY <1>1, SectionHeld
<1>3. command'.pc \in {"idle", "handoff"}
  BY <1>2 DEF Handoff, Answer, Await, CommandRecords
<1>4. CommandsRight'
  BY <1>1, <1>3, JobsCalm, CommandsGoOn DEF IInv
<1>5. CASE runs' = runs
  BY <1>1, <1>4, <1>5, NoJobRight DEF Still, Awake, IInv, TickRight
<1>6. CASE Listed(a) /\ runs' = [runs EXCEPT ![a].handoff = TRUE]
  <2>1. runs[a] # None /\ runs[a] \in RunRecords
    BY <1>2, <1>6, ARun DEF Listed
  <2>2. /\ r \in RunRecords /\ r.attempt = runs[a].attempt /\ r.view = runs[a].view /\ r.stopping = runs[a].stopping
        /\ r.handoff = TRUE /\ r.workspace = runs[a].workspace /\ r.turn = runs[a].turn /\ r.listed = runs[a].listed
        /\ r.settled = runs[a].settled /\ r.ends = runs[a].ends /\ r.worker = runs[a].worker
    BY <2>1, RunHandoff
  <2>3. runs' = [runs EXCEPT ![a] = r]
    BY <1>6 DEF Typed, RunsTyped
  <2>4. RunOk(a, runs[a], jobs[t], attempts[a], logged[t].last, Awake)
    BY <1>2, <2>1, RunStands
  <2>5. Owns(jobs[t], a) => JobOk(jobs[t], runs[a], attempts[a], Awake)
    BY <1>2, <2>1, ARun, JobStands DEF Owns
  <2>6. t = runs[a].attempt.task
    OBVIOUS
  <2> HIDE DEF r, a, t
  <2>7. RunOk(a, r, jobs[t], attempts[a], logged'[t].last, Awake)
    BY <1>1, <2>2, <2>4 DEF RunOk, WorkerOk
  <2>8. Owns(jobs[t], a) => JobOk(jobs[t], r, attempts[a], Awake)
    BY <2>2, <2>5 DEF JobOk, Free
  <2>9. LogStays /\ LogRight'
    BY <1>1, LogSame DEF IInv
  <2>10. TickRight'
    BY <1>1, TickStays, ViewsStay DEF IInv, TickRight
  <2> QED
    BY <1>1, <1>2, <1>4, <2>1, <2>2, <2>3, <2>6, <2>7, <2>8, <2>9, <2>10, RunRightStep
<1> QED
  BY <1>5, <1>6 DEF Handoff

\* The Attempt was paused in the hands of Codex already: the index takes what the projection has.
LEMMA HandedOffRight ==
  ASSUME Typed, IInv, HandedOff
  PROVE  IInv'
<1> DEFINE a == command.attempt
<1>1. /\ command.pc = "handoff" /\ command'.pc = "idle"
      /\ UNCHANGED <<schedulerUp, drawn, attempts, claims, retries, jobs, runs, known, shutdown, tick, logged, workspaces>>
  BY DEF HandedOff, Answer, scheduler, bounds
<1>2. a \in AttemptIds /\ runs[a] # None
  <2>1. a # None /\ runs[a] # None
    BY <1>1 DEF Typed, RestTyped, CommandShape
  <2> QED
    BY <1>1, <2>1, SectionHeld
<1>3. CommandsRight'
  BY <1>1, JobsCalm, CommandsGoOn DEF IInv
<1>4. CASE UNCHANGED <<index, recorded>>
  BY <1>1, <1>3, <1>4, NoJobRight DEF Still, Awake, IInv, TickRight
<1>5. CASE recorded[a] # None /\ recorded[a].status = "paused" /\ SetController(a, "codex")
  <2>1. recorded[a] \in Snapshots /\ OkSnap(recorded[a]) /\ index[a] # None /\ Same(recorded[a], index[a])
    BY <1>2, <1>5 DEF Typed, DataTyped, IInv, TablesRight, SnapsOk, IdOk
  <2>2. [recorded[a] EXCEPT !.controller = "codex"] = recorded[a]
    BY <1>5, <2>1 DEF OkSnap, Snapshots
  <2>3. index' = [index EXCEPT ![a] = recorded[a]] /\ recorded' = recorded
    BY <1>2, <1>5, <2>1, <2>2 DEF SetController, Typed, DataTyped, OkSnap, Snapshots
  <2>4. index'[a] = recorded[a] /\ \A b \in AttemptIds : b # a => index'[b] = index[b]
    BY <1>2, <2>3 DEF Typed, DataTyped
  <2> HIDE DEF a
  <2>5. \A b \in AttemptIds : IdOk(b) /\ SnapsOk(b)
    BY DEF IInv, TablesRight
  <2>6. \A b \in AttemptIds : Keeps(index[b], index'[b]) /\ Keeps(attempts[b], attempts'[b])
    BY <1>1, <1>5, <2>1, <2>4 DEF Keeps, Same
  <2>7. ASSUME NEW b \in AttemptIds
        PROVE  SnapsFit(b) /\ PausesStay(b) /\ LivesStay(b)
    <3>1. SnapsFit(b)
      BY <1>1, <2>1, <2>3, <2>4, <2>5 DEF SnapsFit, SnapsOk, IdOk
    <3>2. PausesStay(b)
      BY <1>1, <2>3, <2>4 DEF PausesStay
    <3>3. LivesStay(b)
      BY <1>1 DEF LivesStay, ClaimStays, Scheduled
    <3> QED
      BY <3>1, <3>2, <3>3
  <2>8. LogStays /\ LogRight'
    BY <1>1, LogSame DEF IInv
  <2>9. TablesRight'
    BY <1>1, <2>6, <2>7, <2>8, RunsKeep, TablesSteady DEF Steady, IInv
  <2>10. WorkRight'
    BY <1>1, <2>8, WorkSame DEF IInv, Awake, JobsStay
  <2>11. schedulerUp
    BY <1>2, RunStands
  <2>12. TasksKnown'
    BY <1>1, <2>11, KnownSame DEF IInv, SomeWork
  <2>13. TickRight'
    BY <1>1, <2>6, TickStays DEF IInv, TickRight, Awake
  <2> QED
    BY <1>1, <1>3, <2>9, <2>10, <2>11, <2>12, <2>13, DownUp DEF IInv
<1> QED
  BY <1>4, <1>5 DEF HandedOff

LEMMA ReturnedRight ==
  ASSUME Typed, IInv, Returned
  PROVE  IInv'
<1>1. command.pc = "return" /\ command'.pc = "idle" /\ command.task \in Tasks
      /\ UNCHANGED <<schedulerUp, drawn, attempts, claims, retries, jobs, runs, known, shutdown, tick, logged, workspaces>>
  BY SectionHeld DEF Returned, Answer, scheduler, bounds
<1>2. jobs[command.task] = None
  <2>1. ASSUME jobs[command.task] # None
        PROVE  FALSE
    <3>1. Waiting(jobs[command.task])
      BY <1>1, <2>1 DEF IInv, CommandsRight
    <3> QED
      BY <2>1, <3>1 DEF Returned, Job, At, Waiting
  <2> QED
    BY <2>1
<1>3. UNCHANGED <<index, recorded>>
  BY <1>2 DEF Returned, Job
<1>4. CommandsRight'
  BY <1>1, <1>2 DEF IInv, CommandsRight
<1> QED
  BY <1>1, <1>3, <1>4, NoJobRight DEF Still, Awake, IInv, TickRight

-----------------------------------------------------------------------------
(* A run ends *)

\* The run of an Attempt that is interrupted, or paused for a handoff.
LEMMA ClosedOk ==
  ASSUME NEW r \in RunRecords, NEW s \in Snapshots, NEW who \in {"job", "stop"}, NEW a, NEW j, NEW x, NEW y, NEW last, NEW open,
         RunOk(a, r, j, x, last, open), r.ends[who] = "status", OkSnap(s),
         Owns(j, a) => JobOk(j, r, x, open), Same(s, r.attempt), s.status # "paused" => s.controller = r.attempt.controller,
         \/ y = x /\ s.status # "paused"
         \/ y = s /\ s.status = "paused" /\ x.status \in Live /\ who = "job" /\ j.pc = "handoff"
  PROVE  /\ RunOk(a, ClosedBy(who, r, s), j, y, last, open)
         /\ Owns(j, a) => JobOk(j, ClosedBy(who, r, s), y, open)
<1> DEFINE q == ClosedBy(who, r, s)
<1>1. /\ q.attempt = s /\ q.view = r.view /\ q.stopping = r.stopping /\ q.handoff = r.handoff
      /\ q.workspace = r.workspace /\ q.turn = r.turn /\ q.listed = FALSE /\ q.settled = TRUE
      /\ q.worker = r.worker /\ q.ends = [r.ends EXCEPT ![who] = "done"] /\ r.ends \in [Enders -> Stages] /\ r.stopping \in BOOLEAN
  <2>1. who \in Enders
    BY DEF Enders
  <2>2. r.ends \in [Enders -> Stages] /\ r.stopping \in BOOLEAN
    BY DEF RunRecords
  <2> HIDE DEF q
  <2>3. /\ q.attempt = s /\ q.view = r.view /\ q.stopping = r.stopping /\ q.handoff = r.handoff
        /\ q.workspace = r.workspace /\ q.turn = r.turn /\ q.listed = FALSE /\ q.settled = TRUE
        /\ q.ends = [r.ends EXCEPT ![who] = "done"] /\ q.worker = r.worker
    BY <2>1 DEF q, ClosedBy, Settled, RunRecords
  <2> QED
    BY <2>2, <2>3
<1> HIDE DEF q
<1>2. /\ "command" \in Enders /\ "stop" \in Enders /\ "tick" \in Enders /\ "job" \in Enders
  BY DEF Enders
<1>3. \A w \in Enders : q.ends[w] = IF w = who THEN "done" ELSE r.ends[w]
  BY <1>1
<1>4. r.stopping
  BY <1>2 DEF RunOk
<1>5. q.stopping <=> \E w \in Enders : q.ends[w] # "none"
  BY <1>1, <1>2, <1>3, <1>4
<1>6. /\ q.ends["command"] = "none"
      /\ q.ends["stop"] # "none" => ~open
      /\ q.ends["job"] \in {"halt", "retained", "status"} => Owns(j, a) /\ j.pc \in {"handoff", "interrupt"}
      /\ q.ends["job"] = "status" => q.workspace = "retained"
  BY <1>1, <1>2, <1>3 DEF RunOk
<1>7. q.ends["tick"] # "none" => y.status \in Terminal
  <2>1. x.status \in Live => x.status \notin Terminal
    BY DEF Live, Terminal
  <2> QED
    BY <1>2, <1>3, <2>1 DEF RunOk
<1>8. (y.controller = "codex" => y.status = "paused") /\ (y.status = "paused" => ~q.listed)
  BY <1>1 DEF RunOk, OkSnap
<1>9. q.attempt.controller = "codex" => y.status = "paused" /\ q.ends["job"] = "done"
  BY <1>1, <1>2, <1>3 DEF RunOk
<1>10. q.workspace = "retained" /\ y.status \in Live =>
         last # "none" \/ (Owns(j, a) /\ Where(j) \in {"finish", "failed"})
  <2>1. "paused" \notin Live
    BY DEF Live
  <2> QED
    BY <1>1, <2>1 DEF RunOk
<1>11. q.turn = "open" => Owns(j, a) /\ Where(j) = "consume"
  BY <1>1 DEF RunOk
<1>14. WorkerOk(a, q, j, open)
  BY <1>1, <1>2 DEF RunOk, WorkerOk
<1>12. RunOk(a, q, j, y, last, open)
  BY <1>1, <1>5, <1>6, <1>7, <1>8, <1>9, <1>10, <1>11, <1>14 DEF RunOk
<1>13. Owns(j, a) => JobOk(j, q, y, open)
  <2>1. SUFFICES ASSUME Owns(j, a)
                 PROVE  JobOk(j, q, y, open)
    OBVIOUS
  <2>2. JobOk(j, r, x, open)
    BY <2>1
  <2>3. j.pc = "handoff" => ~Drives(j) /\ Where(j) = "handoff"
    BY DEF Drives, Where, Driving
  <2>4. Drives(j) => y.status \in Live /\ q.view = "eligible" /\ ~open
    BY <1>1, <1>4, <2>2, <2>3 DEF JobOk, Free
  <2>5. q.attempt.controller = "codex" => j.pc = "handoff"
    BY <1>1, <2>2 DEF JobOk
  <2>6. j.pc = "append" /\ j.write = "attempt" =>
          Same(j.snapshot, q.attempt) /\ OkSnap(j.snapshot) /\ j.snapshot.status # "paused"
    BY <1>1, <2>2 DEF JobOk, Same
  <2> QED
    BY <1>1, <2>2, <2>4, <2>5, <2>6 DEF JobOk
<1> QED
  BY <1>12, <1>13 DEF q

\* The index and the projection hear how an Attempt ended, or that it paused.
LEMMA EndedTables ==
  ASSUME Typed, TablesRight, DownRight, NEW a \in AttemptIds, NEW s \in Snapshots, index[a] # None, Same(s, index[a]), OkSnap(s),
         index' = [index EXCEPT ![a] = s], recorded' = [recorded EXCEPT ![a] = s],
         attempts' = attempts \/ (attempts' = [attempts EXCEPT ![a] = s] /\ s.status = "paused" /\ Scheduled(a)),
         s.status = "paused" => Kept(a)',
         UNCHANGED <<schedulerUp, drawn, claims, retries, logged>>, \A b \in AttemptIds : RunKeeps(b)
  PROVE  TablesRight'
<1>1. \A b \in AttemptIds : IdOk(b) /\ SnapsOk(b)
  BY DEF TablesRight
<1>2. /\ index'[a] = s /\ recorded'[a] = s /\ (attempts'[a] = attempts[a] \/ (attempts'[a] = s /\ s.status = "paused" /\ Scheduled(a)))
      /\ \A b \in AttemptIds : b # a => index'[b] = index[b] /\ recorded'[b] = recorded[b] /\ attempts'[b] = attempts[b]
  BY DEF Typed, DataTyped, SchedulerTyped
<1>3. s # None
  BY NoneApart
<1>4. attempts'[a] = attempts[a] \/ (schedulerUp /\ attempts[a] # None /\ Same(s, attempts[a]) /\ attempts[a].status \in Live)
  BY <1>1, <1>2 DEF Scheduled, IdOk, DownRight, Same
<1>5. ASSUME NEW b \in AttemptIds
      PROVE  /\ Keeps(index[b], index'[b]) /\ Keeps(attempts[b], attempts'[b])
             /\ SnapsFit(b) /\ PausesStay(b) /\ LivesStay(b)
  <2>1. CASE b # a
    <3>1. index'[b] = index[b] /\ recorded'[b] = recorded[b] /\ attempts'[b] = attempts[b] /\ IdOk(b) /\ SnapsOk(b)
      BY <1>1, <1>2, <2>1
    <3> QED
      BY <3>1 DEF Keeps, Same, SnapsFit, PausesStay, LivesStay, SnapsOk, IdOk, Scheduled, ClaimStays
  <2>2. CASE b = a
    <3>1. Keeps(index[b], index'[b])
      BY <1>2, <1>3, <2>2 DEF Keeps
    <3>2. Keeps(attempts[b], attempts'[b])
      BY <1>2, <1>3, <1>4, <2>2 DEF Keeps, Same
    <3>3. SnapsFit(b)
      BY <1>1, <1>2, <1>3, <2>2 DEF SnapsFit, SnapsOk
    <3>4. PausesStay(b)
      <4>1. "paused" \notin Live
        BY DEF Live
      <4> QED
        BY <1>2, <1>3, <1>4, <2>2, <4>1 DEF PausesStay, IsPaused
    <3>5. LivesStay(b)
      <4>1. "paused" \notin Live
        BY DEF Live
      <4> QED
        BY <1>2, <1>3, <1>4, <2>2, <4>1 DEF LivesStay, Lives, Scheduled, ClaimStays
    <3> QED
      BY <3>1, <3>2, <3>3, <3>4, <3>5
  <2> QED
    BY <2>1, <2>2
<1>6. LogStays /\ LogRight'
  BY LogSame
<1> QED
  BY <1>5, <1>6, TablesSteady DEF Steady

\* A run that fails to end goes on being listed.
LEMMA EndFailsRight ==
  ASSUME Typed, IInv, NEW who \in Enders, NEW a \in AttemptIds, runs[a] # None, runs[a].ends[who] = "status",
         runs' = [runs EXCEPT ![a] = EndedAt(who, runs[a], "failed")],
         UNCHANGED <<schedulerUp, drawn, index, recorded, attempts, claims, retries, jobs, known, shutdown, command, tick,
                     logged>>
  PROVE  IInv'
<1> DEFINE x == "failed"
           q == EndedAt(who, runs[a], x)
           t == runs[a].attempt.task
<1>1. x \in Stages /\ x \notin {"none", "halt", "retained", "status"} /\ t = runs[a].attempt.task
  BY DEF Stages
<1>2. q \in RunRecords /\ q.workspace = runs[a].workspace /\ Further(who, x, q, runs[a])
  <2>1. runs[a] \in RunRecords
    BY ARun
  <2>2. q \in RunRecords
    BY <1>1, <2>1, RunEnded
  <2> QED
    BY <2>1, <2>2 DEF Further, EndedAt, RunRecords
<1>3. runs' = [runs EXCEPT ![a] = q]
  OBVIOUS
<1> HIDE DEF q, t, x
<1>4. LogStays /\ LogRight' /\ CommandsRight' /\ TickRight'
  BY LogSame, OthersStay DEF IInv
<1>5. runs[a].ends[who] \notin {"none", "done"}
  OBVIOUS
<1>6. FurtherStep(a, who, x, q, t)
  BY <1>1, <1>2, <1>3, <1>5 DEF FurtherStep
<1> QED
  BY <1>1, <1>2, <1>4, <1>6, FurtherRight

\* A run ends: the Attempt is interrupted, or paused in the hands of Codex.
LEMMA ClosedRight ==
  ASSUME Typed, IInv, NEW who \in {"job", "stop"}, NEW a \in AttemptIds, runs[a] # None, runs[a].ends[who] = "status",
         NEW s \in Snapshots,
         runs' = [runs EXCEPT ![a] = ClosedBy(who, runs[a], s)],
         index' = [index EXCEPT ![a] = s], recorded' = [recorded EXCEPT ![a] = s],
         Same(s, runs[a].attempt), OkSnap(s), s.status # "paused" => s.controller = runs[a].attempt.controller,
         \/ attempts' = attempts /\ s.status # "paused"
         \/ /\ attempts' = [attempts EXCEPT ![a] = s] /\ s.status = "paused" /\ Scheduled(a)
            /\ who = "job" /\ jobs[runs[a].attempt.task].pc = "handoff",
         UNCHANGED <<schedulerUp, drawn, claims, retries, jobs, known, shutdown, command, tick, logged>>
  PROVE  IInv'
<1> DEFINE r == runs[a]
           t == runs[a].attempt.task
           q == ClosedBy(who, runs[a], s)
<1>1. /\ schedulerUp /\ index[a] # None /\ Same(r.attempt, index[a]) /\ attempts[a] # None
      /\ attempts[a] \in Snapshots /\ Same(attempts[a], r.attempt)
      /\ RunOk(a, r, jobs[t], attempts[a], logged[t].last, Awake)
  BY RunStands
<1>2. r \in RunRecords /\ t \in Tasks /\ who \in Enders
  BY ARun DEF Enders
<1>3. q \in RunRecords /\ q.attempt = s
  <2>1. q \in RunRecords
    BY <1>2, RunClosed
  <2> QED
    BY <1>2, <2>1 DEF ClosedBy, Settled, RunRecords
<1>4. Owns(jobs[t], a) => JobOk(jobs[t], r, attempts[a], Awake)
  BY <1>2, JobStands DEF Owns
<1>5. runs' = [runs EXCEPT ![a] = q] /\ t = runs[a].attempt.task
  OBVIOUS
<1>6. \/ attempts'[a] = attempts[a] /\ s.status # "paused"
      \/ /\ attempts'[a] = s /\ s.status = "paused" /\ attempts[a].status \in Live /\ who = "job"
         /\ jobs[t].pc = "handoff"
  BY DEF Scheduled, Typed, SchedulerTyped
<1>7. RunOk(a, q, jobs[t], attempts'[a], logged[t].last, Awake)
  BY <1>1, <1>2, <1>4, <1>6, ClosedOk
<1>8. Owns(jobs[t], a) => JobOk(jobs[t], q, attempts'[a], Awake)
  BY <1>1, <1>2, <1>4, <1>6, ClosedOk
<1> HIDE DEF q
<1>9. Same(s, index[a])
  BY <1>1 DEF Same
<1>10. \A b \in AttemptIds : b # a => attempts'[b] = attempts[b]
  BY DEF Typed, SchedulerTyped
<1>11. \A b \in AttemptIds : Keeps(index[b], index'[b])
  <2>1. index'[a] = s /\ s # None /\ \A b \in AttemptIds : b # a => index'[b] = index[b]
    BY NoneApart DEF Typed, DataTyped
  <2> QED
    BY <1>1, <1>9, <2>1 DEF Keeps, Same
<1>12. ASSUME s.status = "paused"
       PROVE  Kept(a)'
  <2>1. attempts'[a] = s /\ attempts[a].status \in Live /\ who = "job" /\ jobs[t].pc = "handoff"
    BY <1>6, <1>12
  <2>2. index'[a] = s /\ s.task = t
    BY DEF Same, Typed, DataTyped
  <2>3. logged[t].last # "none"
    <3>1. r.workspace = "retained" /\ Where(jobs[t]) = "handoff"
      BY <1>1, <2>1 DEF RunOk, Where
    <3> QED
      BY <1>1, <2>1, <3>1 DEF RunOk
  <2>4. Greatest(attempts, a)
    BY <1>1, <2>1 DEF IInv, TablesRight, ClaimOk, Lives
  <2>5. \A b \in AttemptIds : Keeps(attempts[b], index'[b])
    <3>1. ASSUME NEW b \in AttemptIds
          PROVE  Keeps(attempts[b], index'[b])
      <4>1. IdOk(b) /\ Keeps(index[b], index'[b])
        BY <1>11 DEF IInv, TablesRight
      <4> QED
        BY <1>1, <4>1 DEF IdOk, Keeps, Same
    <3> QED
      BY <3>1
  <2>6. Greatest(index', a)
    BY <1>1, <2>4, <2>5, GreatestKept
  <2> QED
    BY <2>1, <2>2, <2>3, <2>6, <1>12 DEF Kept
<1>13. \A b \in AttemptIds : RunKeeps(b)
  BY <1>3, <1>5, ARunKeeps
<1>14. TablesRight'
  <2>1. TablesRight /\ DownRight
    BY DEF IInv
  <2>2. attempts' = attempts \/ (attempts' = [attempts EXCEPT ![a] = s] /\ s.status = "paused" /\ Scheduled(a))
    OBVIOUS
  <2> QED
    BY <1>1, <1>9, <1>12, <1>13, <2>1, <2>2, EndedTables
<1>15. LogStays /\ Awake' = Awake
  BY LogSame DEF IInv, Awake
<1>16. WorkRight'
  <2>1. Same(q.attempt, runs[a].attempt)
    BY <1>3
  <2> HIDE DEF t
  <2> QED
    BY <1>2, <1>3, <1>5, <1>7, <1>8, <1>10, <1>15, <2>1, WorkRun DEF IInv
<1>17. CommandsRight'
  BY JobsCalm, CommandsStay DEF IInv
<1>18. TasksKnown'
  BY <1>1, KnownSame DEF IInv, SomeWork
<1>19. TickRight'
  <2>1. \A b \in AttemptIds : Over(attempts[b]) => Over(attempts'[b])
    <3>1. ASSUME NEW b \in AttemptIds, Over(attempts[b])
          PROVE  Over(attempts'[b])
      <4>1. attempts[b].status \notin Live
        BY <3>1 DEF Over, Live, Terminal
      <4> QED
        BY <1>6, <1>10, <3>1, <4>1
    <3> QED
      BY <3>1
  <2> QED
    BY <1>11, <1>15, <2>1, TickStays DEF IInv, TickRight
<1> QED
  BY <1>1, <1>14, <1>16, <1>17, <1>18, <1>19, DownUp DEF IInv

LEMMA EndStatusRight ==
  ASSUME Typed, IInv, NEW who \in Enders, NEW a \in AttemptIds, EndStatus(who, a)
  PROVE  IInv'
<1>1. /\ runs[a] # None /\ runs[a].ends[who] = "status" /\ who # "tick"
      /\ UNCHANGED <<schedulerUp, drawn, claims, retries, jobs, known, shutdown, command, tick, logged>>
  BY StatusStep, NoneApart DEF bounds
<1>2. /\ RunOk(a, runs[a], jobs[runs[a].attempt.task], attempts[a], logged[runs[a].attempt.task].last, Awake)
      /\ Same(attempts[a], runs[a].attempt) /\ attempts[a] \in Snapshots /\ runs[a].attempt \in Snapshots
      /\ runs[a].attempt.task \in Tasks
  BY <1>1, RunStands, ARun
<1>3. who \in {"job", "stop"}
  BY <1>1, <1>2 DEF RunOk, Enders
<1>4. CASE /\ runs' = [runs EXCEPT ![a] = EndedAt(who, runs[a], "failed")]
           /\ UNCHANGED <<index, recorded, workspaces, attempts>>
  BY <1>1, <1>4, EndFailsRight
<1>5. ASSUME NEW s \in Snapshots,
             runs' = [runs EXCEPT ![a] = ClosedBy(who, runs[a], s)],
             index' = [index EXCEPT ![a] = s], recorded' = [recorded EXCEPT ![a] = s],
             attempts' = attempts, s = [runs[a].attempt EXCEPT !.status = "interrupted"]
      PROVE  IInv'
  <2>1. s.status = "interrupted" /\ Same(s, runs[a].attempt) /\ s.controller = runs[a].attempt.controller
    BY <1>2, <1>5 DEF Same, Snapshots
  <2>2. OkSnap(s)
    BY <2>1 DEF OkSnap, Live
  <2> QED
    BY <1>1, <1>3, <1>5, <2>1, <2>2, ClosedRight
<1>6. ASSUME NEW s \in Snapshots,
             runs' = [runs EXCEPT ![a] = ClosedBy(who, runs[a], s)],
             index' = [index EXCEPT ![a] = s], recorded' = [recorded EXCEPT ![a] = s],
             attempts' = [attempts EXCEPT ![a] = s], Pauses(who, a), Scheduled(a), s = Paused(a)
      PROVE  IInv'
  <2>1. who = "job" /\ jobs[runs[a].attempt.task].pc = "handoff"
    BY <1>3, <1>6 DEF Pauses
  <2>2. runs[a].handoff
    <3>1. Owns(jobs[runs[a].attempt.task], a)
      BY <1>1, <1>2, <2>1 DEF RunOk
    <3>2. JobOk(jobs[runs[a].attempt.task], runs[a], attempts[a], Awake)
      BY <1>2, <3>1, JobStands DEF Owns
    <3> QED
      BY <2>1, <3>2 DEF JobOk, Where
  <2>3. s = [attempts[a] EXCEPT !.status = "paused", !.controller = "codex"]
    BY <1>6, <2>2 DEF Paused
  <2>4. s.status = "paused" /\ s.controller = "codex" /\ Same(s, runs[a].attempt)
    BY <1>2, <2>3 DEF Same, Snapshots
  <2>5. OkSnap(s)
    BY <2>4 DEF OkSnap, Live
  <2> QED
    BY <1>1, <1>3, <1>6, <2>1, <2>4, <2>5, ClosedRight
<1> QED
  BY <1>4, <1>5, <1>6, StatusStep

-----------------------------------------------------------------------------
(* The tick ends a run *)

\* A run of an Attempt that is over, where the tick has come to x.
TickFurther(x, q, r) ==
  /\ Same(q.attempt, r.attempt) /\ q.attempt.controller = r.attempt.controller /\ OkSnap(q.attempt)
  /\ q.view = r.view /\ q.handoff = r.handoff /\ q.turn = r.turn /\ q.listed \in {r.listed, FALSE}
  /\ q.workspace \in {r.workspace, "retained"} /\ q.stopping /\ x # "none"
  /\ r.ends \in [Enders -> Stages] /\ q.ends = [r.ends EXCEPT !["tick"] = x]
  /\ q.worker = "open" =>
       r.worker = "open" /\ ((x = "halt" /\ q.settled = r.settled) \/ r.ends["tick"] \notin {"none", "halt"})

LEMMA TickFurtherOk ==
  ASSUME NEW x, NEW q, NEW r, TickFurther(x, q, r), NEW a, NEW j, NEW s, NEW last, NEW open,
         RunOk(a, r, j, s, last, open), Over(s), Owns(j, a) => JobOk(j, r, s, open)
  PROVE  /\ RunOk(a, q, j, s, last, open)
         /\ Owns(j, a) => JobOk(j, q, s, open)
<1>1. /\ "command" \in Enders /\ "stop" \in Enders /\ "tick" \in Enders /\ "job" \in Enders
  BY DEF Enders
<1>2. \A w \in Enders : q.ends[w] = IF w = "tick" THEN x ELSE r.ends[w]
  BY DEF TickFurther
<1>3. s.status \in Terminal /\ s.status \notin Live /\ s.status # "paused"
  BY DEF Over, Live, Terminal
<1>4. q.stopping <=> \E w \in Enders : q.ends[w] # "none"
  BY <1>1, <1>2 DEF TickFurther
<1>5. /\ q.ends["command"] = "none" /\ (q.ends["stop"] # "none" => ~open)
      /\ q.ends["job"] \in {"halt", "retained", "status"} => Owns(j, a) /\ j.pc \in {"handoff", "interrupt"}
      /\ q.ends["job"] = "status" => q.workspace = "retained"
  BY <1>1, <1>2 DEF RunOk, TickFurther
<1>6. s.controller # "codex" /\ q.attempt.controller # "codex" /\ (q.turn = "open" => Owns(j, a) /\ Where(j) = "consume")
  BY <1>3 DEF RunOk, TickFurther
<1>9. WorkerOk(a, q, j, open)
  BY <1>1, <1>2 DEF RunOk, WorkerOk, TickFurther
<1>7. RunOk(a, q, j, s, last, open)
  BY <1>3, <1>4, <1>5, <1>6, <1>9 DEF RunOk, TickFurther
<1>8. Owns(j, a) => JobOk(j, q, s, open)
  <2>1. SUFFICES ASSUME JobOk(j, r, s, open)
                 PROVE  JobOk(j, q, s, open)
    OBVIOUS
  <2>2. ~Drives(j)
    BY <1>3, <2>1 DEF JobOk
  <2>3. j.pc = "append" /\ j.write = "attempt" =>
          Same(j.snapshot, q.attempt) /\ OkSnap(j.snapshot) /\ j.snapshot.status # "paused"
    BY <2>1 DEF JobOk, TickFurther, Same
  <2>4. (Where(j) = "decide" => j.view = q.view) /\ (Where(j) = "handoff" => q.handoff)
    BY <2>1 DEF JobOk, TickFurther
  <2> QED
    BY <1>6, <2>2, <2>3, <2>4 DEF JobOk
<1> QED
  BY <1>7, <1>8

\* The index hears of an Attempt.
LEMMA IndexTables ==
  ASSUME Typed, TablesRight, NEW a \in AttemptIds, NEW s \in Snapshots, index[a] # None, Same(s, index[a]), OkSnap(s),
         s.status # "paused", index' = [index EXCEPT ![a] = s],
         UNCHANGED <<schedulerUp, drawn, recorded, attempts, claims, retries, logged>>,
         \A b \in AttemptIds : RunKeeps(b)
  PROVE  TablesRight' /\ \A b \in AttemptIds : Keeps(index[b], index'[b])
<1>1. \A b \in AttemptIds : IdOk(b) /\ SnapsOk(b)
  BY DEF TablesRight
<1>2. index'[a] = s /\ s # None /\ \A b \in AttemptIds : b # a => index'[b] = index[b]
  BY NoneApart DEF Typed, DataTyped
<1>3. ASSUME NEW b \in AttemptIds
      PROVE  /\ Keeps(index[b], index'[b]) /\ Keeps(attempts[b], attempts'[b])
             /\ SnapsFit(b) /\ PausesStay(b) /\ LivesStay(b)
  <2>1. IdOk(b) /\ SnapsOk(b)
    BY <1>1
  <2>2. index'[b] = index[b] \/ (b = a /\ index'[b] = s)
    BY <1>2
  <2>3. Keeps(index[b], index'[b]) /\ Keeps(attempts[b], attempts'[b])
    BY <1>2, <2>2 DEF Keeps, Same
  <2>4. SnapsFit(b)
    BY <2>1, <2>2 DEF SnapsFit, SnapsOk, IdOk
  <2>5. PausesStay(b) /\ LivesStay(b)
    BY <2>2 DEF PausesStay, LivesStay, IsPaused, Scheduled, ClaimStays
  <2> QED
    BY <2>3, <2>4, <2>5
<1>4. LogStays /\ LogRight'
  BY LogSame
<1> QED
  BY <1>3, <1>4, TablesSteady DEF Steady

TickOverStep(a, x, q) ==
  /\ runs[a] # None /\ Over(attempts[a]) /\ TickFurther(x, q, runs[a]) /\ runs' = [runs EXCEPT ![a] = q]
  /\ index' = index \/ (index' = [index EXCEPT ![a] = q.attempt] /\ q.attempt.status # "paused")
  /\ UNCHANGED <<schedulerUp, drawn, recorded, attempts, claims, retries, jobs, known, shutdown, command, logged>>

LEMMA TickOverRight ==
  ASSUME Typed, IInv, NEW a \in AttemptIds, NEW x, NEW q \in RunRecords, TickOverStep(a, x, q),
         (\A b \in AttemptIds : Keeps(index[b], index'[b])) => TickRight'
  PROVE  IInv'
<1> USE DEF TickOverStep
<1> DEFINE t == runs[a].attempt.task
<1>1. /\ schedulerUp /\ index[a] # None /\ Same(runs[a].attempt, index[a])
      /\ RunOk(a, runs[a], jobs[t], attempts[a], logged[t].last, Awake)
  BY RunStands
<1>2. Owns(jobs[t], a) => JobOk(jobs[t], runs[a], attempts[a], Awake)
  BY ARun, JobStands DEF Owns
<1>3. Same(q.attempt, runs[a].attempt) /\ OkSnap(q.attempt) /\ q.attempt \in Snapshots
  BY DEF TickFurther, RunRecords
<1>4. /\ RunOk(a, q, jobs[t], attempts[a], logged[t].last, Awake)
      /\ Owns(jobs[t], a) => JobOk(jobs[t], q, attempts[a], Awake)
  BY <1>1, <1>2, TickFurtherOk
<1>5. \A b \in AttemptIds : RunKeeps(b)
  BY <1>3, ARunKeeps
<1>6. TablesRight' /\ \A b \in AttemptIds : Keeps(index[b], index'[b])
  <2>1. TablesRight
    BY DEF IInv
  <2>2. CASE index' = index
    BY <1>5, <2>1, <2>2, ClaimsSame, LogSame, TablesSame DEF Keeps, Same
  <2>3. CASE index' = [index EXCEPT ![a] = q.attempt] /\ q.attempt.status # "paused"
    <3>1. Same(q.attempt, index[a])
      BY <1>1, <1>3 DEF Same
    <3> QED
      BY <1>1, <1>3, <1>5, <2>1, <2>3, <3>1, IndexTables
  <2> QED
    BY <2>2, <2>3
<1>7. Awake' = Awake /\ LogStays
  BY LogSame DEF Awake, IInv
<1>8. WorkRight'
  <2>1. t = runs[a].attempt.task
    OBVIOUS
  <2>2. \A b \in AttemptIds : b # a => attempts'[b] = attempts[b]
    OBVIOUS
  <2> HIDE DEF t
  <2> QED
    BY <1>3, <1>4, <1>7, <2>1, <2>2, WorkRun DEF IInv
<1>9. CommandsRight'
  BY JobsCalm, CommandsStay DEF IInv
<1>10. TasksKnown'
  BY <1>1, KnownSame DEF IInv, SomeWork
<1> QED
  BY <1>1, <1>6, <1>8, <1>9, <1>10, DownUp DEF IInv

LEMMA CancelRight ==
  ASSUME Typed, IInv, Cancel
  PROVE  IInv'
<1>1. /\ tick \in TickRecords /\ tick.pc = "cancel"
      /\ UNCHANGED <<known, recorded, workspaces, logged, drawn, schedulerUp, attempts, claims, retries, jobs, command,
                     shutdown>>
  BY CancelStep, ATick DEF projection, scheduler, bounds
<1>2. PICK a \in tick.stopped :
        CancelRun(a) \/ CancelRecord(a) \/ (tick' = Rest(a) /\ UNCHANGED <<index, lock, runs>>)
  BY CancelStep
<1>3. a \in AttemptIds /\ Over(attempts[a])
  BY <1>1 DEF TickRecords, IInv, TickRight, Over
<1>4. /\ Rest(a) \in TickRecords /\ Rest(a).pc = "cancel" /\ Rest(a).stopped \subseteq tick.stopped
  BY <1>1, RestIs
<1>5. Awake' = Awake /\ schedulerUp
  BY <1>1, TickUp DEF Awake
<1>6. CASE CancelRun(a)
  <2> DEFINE q == Stop("tick", runs[a])
             x == "halt"
  <2>1. runs[a] # None /\ runs[a] \in RunRecords /\ runs[a].ends \in [Enders -> Stages]
    BY <1>3, <1>6, ARun DEF CancelRun, Listed
  <2>2. "tick" \in Enders
    BY DEF Enders
  <2>3. /\ q \in RunRecords /\ q.attempt = runs[a].attempt /\ q.view = runs[a].view /\ q.handoff = runs[a].handoff
        /\ q.turn = runs[a].turn /\ q.listed = runs[a].listed /\ q.workspace = runs[a].workspace /\ q.stopping = TRUE
        /\ q.ends = [runs[a].ends EXCEPT !["tick"] = x]
        /\ q.worker = runs[a].worker /\ q.settled = runs[a].settled
    BY <2>1, <2>2, RunStop
  <2>4. runs' = [runs EXCEPT ![a] = q] /\ index' = index
    BY <1>6 DEF CancelRun
  <2>5. OkSnap(runs[a].attempt)
    BY <1>3, <2>1, RunStands DEF RunOk
  <2>6. x = "halt" /\ x # "none"
    OBVIOUS
  <2> HIDE DEF q, x
  <2>7. TickFurther(x, q, runs[a])
    BY <2>1, <2>3, <2>5, <2>6 DEF TickFurther, Same
  <2>8. TickOverStep(a, x, q)
    BY <1>1, <1>3, <2>1, <2>4, <2>7 DEF TickOverStep
  <2>9. tick'.pc = "ending" /\ tick'.stopped \subseteq tick.stopped
    BY <1>4, <1>6 DEF CancelRun, TickRecords
  <2>10. TickRight'
    BY <1>1, <1>5, <2>9, TickMoves DEF IInv
  <2> QED
    BY <1>3, <2>3, <2>8, <2>10, TickOverRight
<1>7. CASE CancelRecord(a)
  <2> DEFINE s == [recorded[a] EXCEPT !.status = "canceled_by_reconciliation"]
             q == TickWriting(Rest(a), "attempt", s.task, a, s, "cancel")
  <2>1. recorded[a] \in Snapshots /\ OkSnap(recorded[a]) /\ index[a] # None /\ Same(recorded[a], index[a])
        /\ recorded[a].controller # "codex"
    BY <1>3, <1>7 DEF CancelRecord, Typed, DataTyped, IInv, TablesRight, SnapsOk, IdOk
  <2>2. s \in Snapshots
    <3>1. "canceled_by_reconciliation" \in Live \cup Terminal \cup {"paused"}
      BY DEF Terminal
    <3> QED
      BY <2>1, <3>1, SnapStatus
  <2>3. Same(s, index[a]) /\ OkSnap(s) /\ s.status # "paused"
    BY <2>1 DEF Same, OkSnap, Snapshots
  <2>4. index' = [index EXCEPT ![a] = s] /\ runs' = runs
    BY <1>7 DEF CancelRecord
  <2>5. tick' = q
    BY <1>7 DEF CancelRecord, TickWriting
  <2> HIDE DEF s
  <2>6. s.task \in Tasks
    BY <2>2 DEF Snapshots
  <2>7. /\ q \in TickRecords /\ q.pc = "append" /\ q.write = "attempt" /\ q.attempt = a
        /\ q.snapshot = s /\ q.stopped = Rest(a).stopped
    BY <1>3, <1>4, <2>2, <2>6, TickWritingIs, TickWords
  <2> HIDE DEF q
  <2>8. TablesRight' /\ \A b \in AttemptIds : Keeps(index[b], index'[b])
    BY <1>1, <1>3, <2>1, <2>2, <2>3, <2>4, RunsKeep, IndexTables DEF IInv
  <2>9. WorkRight'
    BY <1>1, <1>5, <2>4, LogSame, WorkSame DEF IInv, JobsStay
  <2>10. index'[a] = s /\ s # None
    BY <1>3, <2>2, <2>4, NoneApart DEF Typed, DataTyped
  <2>11. TickRight'
    BY <1>1, <1>4, <1>5, <2>3, <2>5, <2>7, <2>10 DEF IInv, TickRight, Same
  <2>12. CommandsRight'
    BY <1>1, JobsCalm, CommandsStay DEF IInv
  <2>13. TasksKnown'
    BY <1>1, <1>5, KnownSame DEF IInv, SomeWork
  <2> QED
    BY <1>1, <1>5, <2>8, <2>9, <2>11, <2>12, <2>13, DownUp DEF IInv
<1>8. CASE tick' = Rest(a) /\ UNCHANGED <<index, lock, runs>>
  <2>1. Still
    BY <1>1, <1>8 DEF Still
  <2>2. \A t \in Tasks : Launch(t) /\ JobCalm(t)
    BY <1>1 DEF Launch, JobCalm
  <2>3. tick'.pc = "cancel" /\ tick'.stopped \subseteq tick.stopped
    BY <1>4, <1>8
  <2> QED
    BY <1>1, <2>1, <2>2, <2>3, ClaimsSame, TickStepRight
<1> QED
  BY <1>2, <1>6, <1>7, <1>8

\* What the tick ends is over in the scheduler.
LEMMA TickOver ==
  ASSUME Typed, IInv, NEW a \in AttemptIds, runs[a] # None, runs[a].ends["tick"] # "none"
  PROVE  Over(attempts[a]) /\ OkSnap(runs[a].attempt) /\ runs[a].stopping /\ runs[a].ends \in [Enders -> Stages]
<1>1. /\ attempts[a] # None
      /\ RunOk(a, runs[a], jobs[runs[a].attempt.task], attempts[a], logged[runs[a].attempt.task].last, Awake)
  BY RunStands
<1>2. "tick" \in Enders
  BY DEF Enders
<1> QED
  BY <1>1, <1>2, ARun DEF RunOk, Over

LEMMA TickEndsRight ==
  ASSUME Typed, IInv, TickEnds
  PROVE  IInv'
<1> DEFINE a == tick.attempt
           r == runs[a]
<1>1. /\ tick.pc = "ending" /\ tick \in TickRecords /\ a \in AttemptIds
      /\ r # None /\ r \in RunRecords /\ r.attempt \in Snapshots /\ r.attempt.task \in Tasks
      /\ UNCHANGED <<known, recorded, workspaces, logged, drawn, schedulerUp, attempts, claims, retries, jobs, command,
                     shutdown>>
  BY TickEndsStep, ARun DEF projection, scheduler, bounds
<1>2. \/ EndsRetained(a) \/ EndsSettle(a) \/ EndsFailed(a)
      \/ \E s \in Snapshots : EndsStatus(a, s) /\ s.task = r.attempt.task
  BY TickEndsStep
<1>3. Awake' = Awake /\ schedulerUp
  BY <1>1, TickUp DEF Awake
<1>4. r.ends["tick"] # "none" =>
        Over(attempts[a]) /\ OkSnap(r.attempt) /\ r.stopping /\ r.ends \in [Enders -> Stages]
  BY <1>1, TickOver
<1>5. "tick" \in Enders
  BY DEF Enders
<1>6. CASE EndsRetained(a)
  <2> DEFINE q == KeptBy("tick", r)
             x == "status"
             k == TickWriting(tick, "retained", r.attempt.task, a, None, "ending")
  <2>1. r.ends["tick"] = "retained" /\ runs' = [runs EXCEPT ![a] = q] /\ tick' = k /\ index' = index
    BY <1>6 DEF EndsRetained
  <2>2. q \in RunRecords
    BY <1>1, <1>5, RunKept
  <2>3. TickFurther(x, q, r)
    BY <1>1, <1>4, <2>1, <2>2 DEF TickFurther, Same, KeptBy, RunRecords
  <2>4. k.write = "retained" /\ k.stopped = tick.stopped
    BY <1>1, TickWritingIs, TickWords
  <2> HIDE DEF q, x, k, a
  <2>5. TickRight'
    BY <1>1, <1>3, <2>1, <2>4, TickMoves DEF IInv
  <2>6. TickOverStep(a, x, q)
    BY <1>1, <1>4, <2>1, <2>3 DEF TickOverStep
  <2> QED
    BY <1>1, <2>2, <2>5, <2>6, TickOverRight
<1>7. CASE EndsSettle(a)
  <2> DEFINE q == OverBy("tick", r)
             x == "done"
  <2>1. r.ends["tick"] = "settle" /\ runs' = [runs EXCEPT ![a] = q] /\ tick' = [tick EXCEPT !.pc = "cancel"] /\ index' = index
    BY <1>7 DEF EndsSettle
  <2>2. q \in RunRecords
    BY <1>1, <1>5, RunOver
  <2>3. TickFurther(x, q, r)
    BY <1>1, <1>4, <2>1, <2>2 DEF TickFurther, Same, OverBy, Settled, RunRecords
  <2>4. tick'.pc = "cancel" /\ tick'.stopped = tick.stopped
    BY <1>1, <2>1 DEF TickRecords
  <2> HIDE DEF q, x, a
  <2>5. TickRight'
    BY <1>1, <1>3, <2>4, TickMoves DEF IInv
  <2>6. TickOverStep(a, x, q)
    BY <1>1, <1>4, <2>1, <2>3 DEF TickOverStep
  <2> QED
    BY <1>1, <2>2, <2>5, <2>6, TickOverRight
<1>8. CASE EndsFailed(a)
  <2>1. Still /\ tick'.pc = "idle"
    BY <1>1, <1>8 DEF Still, EndsFailed
  <2>2. \A t \in Tasks : Launch(t) /\ JobCalm(t)
    BY <1>1 DEF Launch, JobCalm
  <2> QED
    BY <1>1, <2>1, <2>2, ClaimsSame, TickStepRight
<1>9. ASSUME NEW s \in Snapshots, EndsStatus(a, s)
      PROVE  IInv'
  <2> DEFINE q == NotedBy("tick", r, s)
             x == "settle"
             k == TickWriting(tick, "attempt", r.attempt.task, a, s, "ending")
  <2>1. r.ends["tick"] = "status" /\ runs' = [runs EXCEPT ![a] = q] /\ tick' = k /\ index' = [index EXCEPT ![a] = s]
        /\ s = [r.attempt EXCEPT !.status = "canceled_by_reconciliation"]
    BY <1>9 DEF EndsStatus
  <2>2. q \in RunRecords
    BY <1>1, <1>5, RunNoted
  <2>3. s.status = "canceled_by_reconciliation" /\ Same(s, r.attempt) /\ s.controller = r.attempt.controller
    BY <1>1, <2>1 DEF Same, Snapshots
  <2>4. OkSnap(s)
    BY <2>3 DEF OkSnap, Live
  <2>5. q.attempt = s
    BY <1>1 DEF NotedBy, RunRecords
  <2>6. TickFurther(x, q, r)
    <3>1. /\ q.view = r.view /\ q.handoff = r.handoff /\ q.turn = r.turn /\ q.listed = r.listed
          /\ q.workspace = r.workspace /\ q.stopping = r.stopping /\ q.ends = [r.ends EXCEPT !["tick"] = x]
          /\ q.worker = r.worker
      BY <1>1 DEF NotedBy, RunRecords
    <3>2. x # "none"
      OBVIOUS
    <3> HIDE DEF q, x, a, r
    <3> QED
      BY <1>4, <2>1, <2>3, <2>4, <2>5, <3>1, <3>2 DEF TickFurther
  <2>7. k.write = "attempt" /\ k.stopped = tick.stopped /\ k.pc = "append" /\ k.attempt = a /\ k.snapshot = s
    BY <1>1, TickWritingIs, TickWords
  <2>8. index'[a] = s /\ s # None
    BY <1>1, <2>1, NoneApart DEF Typed, DataTyped
  <2> HIDE DEF q, x, k, a
  <2>9. TickRight'
    BY <1>1, <1>3, <2>1, <2>3, <2>4, <2>7, <2>8 DEF IInv, TickRight, Same
  <2>10. TickOverStep(a, x, q)
    BY <1>1, <1>4, <2>1, <2>3, <2>5, <2>6 DEF TickOverStep
  <2> QED
    BY <1>1, <2>2, <2>9, <2>10, TickOverRight
<1> QED
  BY <1>2, <1>6, <1>7, <1>8, <1>9

-----------------------------------------------------------------------------
(* The tick reconciles *)

\* A Task has one run that nobody ends: its job's.
LEMMA OneFree ==
  ASSUME Typed, IInv, NEW a \in AttemptIds, NEW b \in AttemptIds, Listed(a), ~runs[a].stopping, Listed(b), ~runs[b].stopping,
         runs[a].attempt.task = runs[b].attempt.task
  PROVE  a = b
<1>1. Owns(jobs[runs[a].attempt.task], a) /\ Owns(jobs[runs[b].attempt.task], b)
  BY RunStands DEF Listed, RunOk
<1> QED
  BY <1>1 DEF Owns

\* The tick takes the view that the run of a Task works with.
LEMMA FreeView ==
  ASSUME Typed, IInv, NEW a \in AttemptIds, runs[a] # None, Free(runs[a])
  PROVE  ViewOf(runs[a].attempt.task) = runs[a].view
<1> DEFINE t == runs[a].attempt.task
           busy == {b \in AttemptIds : Listed(b) /\ ~runs[b].stopping /\ runs[b].attempt.task = t}
<1>1. Listed(a) /\ ~runs[a].stopping
  BY DEF Free, Listed
<1>2. busy = {a}
  BY <1>1, OneFree
<1> QED
  BY <1>2 DEF ViewOf

\* No job that is on its way to another Turn has its Attempt canceled.
LEMMA CanceledIs ==
  ASSUME Typed, IInv, Awake, NEW a \in Cancelable
  PROVE  /\ a \in AttemptIds /\ attempts[a] \in Snapshots /\ attempts[a].status \in Live
         /\ \A t \in Tasks : jobs[t] # None /\ jobs[t].attempt = a => ~Drives(jobs[t])
<1>1. /\ a \in AttemptIds /\ attempts[a] \in Snapshots /\ attempts[a].status \in Live \cup {"paused"}
      /\ attempts[a].controller # "codex" /\ ViewOf(attempts[a].task) # "eligible"
  BY DEF Cancelable, Typed, SchedulerTyped
<1>2. attempts[a].status \in Live
  BY <1>1, NoneApart DEF IInv, TablesRight, SnapsOk, OkSnap
<1>3. ASSUME NEW t \in Tasks, jobs[t] # None, jobs[t].attempt = a, Drives(jobs[t])
      PROVE  FALSE
  <2>1. runs[a] # None /\ runs[a].attempt.task = t /\ JobOk(jobs[t], runs[a], attempts[a], Awake)
    BY <1>1, <1>3, JobStands
  <2>2. runs[a].view = "eligible" /\ Free(runs[a])
    BY <1>3, <2>1 DEF JobOk
  <2>3. ViewOf(t) = "eligible"
    BY <1>1, <2>1, <2>2, FreeView
  <2>4. attempts[a].task = t
    BY <1>1, <2>1, RunStands DEF Same
  <2> QED
    BY <1>1, <2>3, <2>4
<1> QED
  BY <1>1, <1>2, <1>3

Canceled(s) == [s EXCEPT !.status = "canceled_by_reconciliation"]

LEMMA CanceledSnap ==
  ASSUME NEW s \in Snapshots
  PROVE  Canceled(s) # None /\ Same(Canceled(s), s) /\ Canceled(s).controller = s.controller /\ OkSnap(Canceled(s))
         /\ Over(Canceled(s))
<1>1. Canceled(s).status = "canceled_by_reconciliation" /\ Same(Canceled(s), s) /\ Canceled(s).controller = s.controller
  BY DEF Canceled, Same, Snapshots
<1>2. Canceled(s) \in Snapshots
  <2>1. "canceled_by_reconciliation" \in Live \cup Terminal \cup {"paused"}
    BY DEF Terminal
  <2> QED
    BY <2>1, SnapStatus DEF Canceled
<1>3. Canceled(s) # None
  BY <1>2, NoneApart
<1> QED
  BY <1>1, <1>3 DEF OkSnap, Over, Live, Terminal

\* A job and a run stay right when the tick cancels the Attempt.
LEMMA CanceledOk ==
  ASSUME NEW s, NEW s2, s.status \in Live, Over(s2), s2.controller = s.controller, NEW a, NEW r, NEW j, NEW last, NEW open
  PROVE  /\ JobOk(j, r, s, open) /\ ~Drives(j) => JobOk(j, r, s2, open)
         /\ RunOk(a, r, j, s, last, open) => RunOk(a, r, j, s2, last, open)
<1>1. s.status # "paused" /\ s2.status \in Terminal /\ s2.status \notin Live /\ s2.status # "paused"
  BY DEF Over, Live, Terminal
<1>2. JobOk(j, r, s, open) /\ ~Drives(j) => JobOk(j, r, s2, open)
  BY DEF JobOk
<1>3. RunOk(a, r, j, s, last, open) => RunOk(a, r, j, s2, last, open)
  BY <1>1 DEF RunOk
<1> QED
  BY <1>2, <1>3

LEMMA ReconcileRight ==
  ASSUME Typed, IInv, Reconcile
  PROVE  IInv'
<1>1. /\ tick.pc = "reconcile" /\ schedulerUp /\ tick \in TickRecords
      /\ UNCHANGED <<known, recorded, workspaces, index, logged, schedulerUp, runs, jobs, command, shutdown, drawn>>
  BY ReconcileStep, ATick DEF projection, disk, bounds
<1>2. Awake /\ Awake'
  BY <1>1 DEF IInv, TickRight, Awake
<1>3. ASSUME NEW a \in AttemptIds
      PROVE  \/ a \notin Cancelable /\ attempts'[a] = attempts[a]
             \/ /\ a \in Cancelable /\ attempts'[a] = Canceled(attempts[a]) /\ attempts[a] \in Snapshots
                /\ attempts[a].status \in Live
                /\ \A t \in Tasks : jobs[t] # None /\ jobs[t].attempt = a => ~Drives(jobs[t])
  BY <1>2, ReconcileStep, CanceledIs DEF Canceled
<1>4. \A t \in Tasks : t \notin Given => claims'[t] = claims[t] /\ retries'[t] = retries[t]
  BY ReconcileStep
<1>5. ASSUME NEW a \in AttemptIds
      PROVE  /\ Keeps(attempts[a], attempts'[a]) /\ (attempts'[a] # None => OkSnap(attempts'[a]))
             /\ IsPaused(attempts[a]) => IsPaused(attempts'[a])
             /\ Over(attempts[a]) => Over(attempts'[a])
             /\ LivesStay(a)
  <2>1. IdOk(a) /\ SnapsOk(a)
    BY DEF IInv, TablesRight
  <2>2. CASE a \in Cancelable
    <3>1. attempts'[a] = Canceled(attempts[a]) /\ attempts[a] \in Snapshots /\ attempts[a].status \in Live
      BY <1>3, <2>2
    <3>2. attempts'[a] # None /\ Same(attempts'[a], attempts[a]) /\ OkSnap(attempts'[a]) /\ Over(attempts'[a])
      BY <3>1, CanceledSnap
    <3>3. attempts[a] # None /\ ~Over(attempts[a]) /\ ~IsPaused(attempts[a]) /\ ~Lives(attempts'[a]) /\ ~Scheduled(a)'
      BY <3>1, <3>2, NoneApart DEF Over, Lives, IsPaused, Scheduled, Live, Terminal
    <3> QED
      BY <3>2, <3>3 DEF Keeps, LivesStay
  <2>3. CASE a \notin Cancelable
    <3>1. attempts'[a] = attempts[a]
      BY <1>3, <2>3
    <3>2. ASSUME Lives(attempts[a])
          PROVE  ClaimStays(attempts[a].task)
      <4> DEFINE t == attempts[a].task
      <4>1. t \in Tasks /\ claims[t] = a /\ retries[t] = None
        BY <3>2 DEF IInv, TablesRight, ClaimOk, Lives, Typed, SchedulerTyped, Snapshots
      <4>2. t \notin Given
        <5>1. SUFFICES ASSUME NEW b \in Cancelable, attempts[b].task = t
                       PROVE  FALSE
          BY <4>1 DEF Given
        <5>2. b \in AttemptIds /\ attempts[b] \in Snapshots /\ attempts[b].status \in Live
          BY <1>3, <5>1 DEF Cancelable
        <5>3. claims[t] = b
          BY <5>1, <5>2, NoneApart DEF IInv, TablesRight, ClaimOk, Lives
        <5> QED
          BY <2>3, <4>1, <5>1, <5>3
      <4> QED
        BY <1>4, <4>1, <4>2 DEF ClaimStays
    <3> QED
      BY <2>1, <3>1, <3>2 DEF Keeps, Same, SnapsOk, LivesStay, Scheduled
  <2> QED
    BY <2>2, <2>3
<1>6. TablesRight'
  <2>1. ASSUME NEW b \in AttemptIds
        PROVE  SnapsFit(b) /\ PausesStay(b) /\ Keeps(index[b], index'[b])
    <3>1. IdOk(b) /\ SnapsOk(b)
      BY DEF IInv, TablesRight
    <3>2. SnapsFit(b)
      BY <1>1, <1>5, <3>1 DEF SnapsFit, SnapsOk, IdOk
    <3> QED
      BY <1>1, <1>5, <3>2 DEF PausesStay, Keeps, Same
  <2>2. LogStays /\ LogRight'
    BY <1>1, LogSame DEF IInv
  <2> QED
    BY <1>1, <1>5, <2>1, <2>2, RunsKeep, TablesSteady DEF Steady, IInv
<1>7. WorkRight'
  <2>1. ASSUME NEW t \in Tasks
        PROVE  JobRight(t)'
    <3>1. SUFFICES ASSUME jobs[t] # None, NEW a, a = jobs[t].attempt, a # None
                   PROVE  runs[a].attempt.task = t /\ JobOk(jobs[t], runs[a], attempts'[a], Awake')
      BY <1>1 DEF JobRight
    <3>2. a \in AttemptIds /\ runs[a].attempt.task = t /\ JobOk(jobs[t], runs[a], attempts[a], Awake)
      BY <3>1, JobTyped, JobStands
    <3>3. CASE attempts'[a] = attempts[a]
      BY <1>2, <3>2, <3>3
    <3>4. CASE attempts'[a] = Canceled(attempts[a]) /\ attempts[a] \in Snapshots /\ attempts[a].status \in Live /\ ~Drives(jobs[t])
      <4>1. Over(attempts'[a]) /\ attempts'[a].controller = attempts[a].controller
        BY <3>4, CanceledSnap
      <4> QED
        BY <1>2, <3>2, <3>4, <4>1, CanceledOk
    <3> QED
      BY <1>3, <3>1, <3>2, <3>3, <3>4
  <2>2. ASSUME NEW a \in AttemptIds
        PROVE  RunRight(a)'
    <3>1. SUFFICES ASSUME runs[a] # None, NEW t, t = runs[a].attempt.task
                   PROVE  RunOk(a, runs[a], jobs[t], attempts'[a], logged[t].last, Awake')
      BY <1>1 DEF RunRight
    <3>2. RunOk(a, runs[a], jobs[t], attempts[a], logged[t].last, Awake)
      BY <3>1, RunStands
    <3>3. CASE attempts'[a] = attempts[a]
      BY <1>2, <3>2, <3>3
    <3>4. CASE attempts'[a] = Canceled(attempts[a]) /\ attempts[a] \in Snapshots /\ attempts[a].status \in Live
      <4>1. Over(attempts'[a]) /\ attempts'[a].controller = attempts[a].controller
        BY <3>4, CanceledSnap
      <4>2. /\ attempts[a].status # "paused" /\ attempts'[a].status # "paused"
            /\ attempts'[a].status \in Terminal /\ attempts'[a].status \notin Live
        BY <3>4, <4>1 DEF Over, Live, Terminal
      <4> QED
        BY <1>2, <3>2, <3>4, <4>1, <4>2 DEF RunOk
    <3> QED
      BY <1>3, <3>3, <3>4
  <2> QED
    BY <2>1, <2>2 DEF WorkRight
<1>8. TickRight'
  <2>1. tick'.pc = "cancel" /\ tick'.stopped = Cancelable
    <3>1. tick.pc \in TickPcs /\ DOMAIN tick = DOMAIN [tick EXCEPT !.pc = "cancel"]
      BY <1>1 DEF TickRecords
    <3> QED
      BY <1>1, ReconcileStep DEF TickRecords
  <2>2. \A a \in Cancelable : attempts'[a] # None /\ attempts'[a].status \in Terminal
    <3>1. ASSUME NEW a \in Cancelable
          PROVE  Over(attempts'[a])
      <4>1. a \in AttemptIds
        BY DEF Cancelable
      <4>2. attempts'[a] = Canceled(attempts[a]) /\ attempts[a] \in Snapshots
        BY <1>3, <4>1
      <4> QED
        BY <4>2, CanceledSnap
    <3> QED
      BY <3>1 DEF Over
  <2> QED
    BY <1>2, <2>1, <2>2 DEF TickRight
<1>9. CommandsRight'
  BY <1>1, JobsCalm, CommandsStay DEF IInv
<1>10. TasksKnown'
  BY <1>1, KnownSame DEF IInv, SomeWork
<1> QED
  BY <1>1, <1>6, <1>7, <1>8, <1>9, <1>10, DownUp DEF IInv

\* The shutdown ends the runs that nobody ends.
LEMMA StoppedRun ==
  ASSUME NEW r \in RunRecords
  PROVE  LET q == Stop("stop", r) IN
         /\ q \in RunRecords /\ q.stopping = TRUE /\ q.ends = [r.ends EXCEPT !["stop"] = "halt"]
         /\ q.attempt = r.attempt /\ q.view = r.view /\ q.handoff = r.handoff /\ q.workspace = r.workspace
         /\ q.turn = r.turn /\ q.listed = r.listed /\ q.settled = r.settled
<1>1. "stop" \in Enders
  BY DEF Enders
<1>2. Stop("stop", r) \in RunRecords
  BY <1>1, RunStop
<1> QED
  BY <1>2 DEF Stop, RunRecords

LEMMA StoppedRunOk ==
  ASSUME NEW r \in RunRecords, NEW a, NEW j, NEW s, NEW last, NEW open, RunOk(a, r, j, s, last, open)
  PROVE  RunOk(a, Stop("stop", r), j, s, last, FALSE)
<1> DEFINE q == Stop("stop", r)
<1>1. /\ q.stopping = TRUE /\ q.ends = [r.ends EXCEPT !["stop"] = "halt"] /\ q.attempt = r.attempt
      /\ q.workspace = r.workspace /\ q.turn = r.turn /\ q.listed = r.listed
  BY StoppedRun
<1>2. /\ q.ends["stop"] = "halt" /\ q.ends["command"] = r.ends["command"] /\ q.ends["tick"] = r.ends["tick"]
      /\ q.ends["job"] = r.ends["job"]
  BY <1>1 DEF RunRecords, Enders
<1>3. \E who \in Enders : q.ends[who] # "none"
  BY <1>2 DEF Enders
<1> HIDE DEF q
<1>4. RunOk(a, q, j, s, last, FALSE)
  BY <1>1, <1>2, <1>3 DEF RunOk, WorkerOk
<1> QED
  BY <1>4 DEF q

LEMMA StopRunsRight ==
  ASSUME Typed, IInv, StopRuns
  PROVE  IInv'
<1>1. /\ UNCHANGED <<known, recorded, workspaces, index, logged, schedulerUp, attempts, claims, retries, jobs, command,
                     tick, drawn>>
      /\ tick.pc = "idle"
  BY DEF StopRuns, TickAt, projection, disk, scheduler, bounds
<1> DEFINE listed == {a \in AttemptIds : Listed(a)}
           awaited == {a \in listed : runs[a].stopping \/ runs[a].attempt.status \in Terminal}
<1>2. /\ shutdown' = [pc |-> "runs", awaited |-> awaited, ended |-> listed \ awaited]
      /\ runs' = [a \in AttemptIds |-> IF a \in listed \ awaited THEN Stop("stop", runs[a]) ELSE runs[a]]
  BY DEF StopRuns
<1>3. Awake' = FALSE
  BY <1>2 DEF Awake
<1>4. ASSUME NEW a \in AttemptIds
      PROVE  \/ runs'[a] = runs[a]
             \/ runs[a] \in RunRecords /\ runs[a] # None /\ runs'[a] = Stop("stop", runs[a])
  BY <1>2, ARun DEF Listed
<1> HIDE DEF listed, awaited
<1>5. ASSUME NEW a \in AttemptIds
      PROVE  /\ RunKeeps(a) /\ (runs'[a] = None <=> runs[a] = None)
             /\ runs[a] # None => /\ runs'[a].attempt = runs[a].attempt /\ runs'[a].view = runs[a].view
                                  /\ runs'[a].handoff = runs[a].handoff
  <2>1. CASE runs'[a] = runs[a]
    BY <2>1 DEF RunKeeps, Same
  <2>2. CASE runs[a] \in RunRecords /\ runs[a] # None /\ runs'[a] = Stop("stop", runs[a])
    <3>1. runs'[a] # None
      BY <2>2, StoppedRun, NoneApart
    <3> QED
      BY <2>2, <3>1, StoppedRun DEF RunKeeps, Same
  <2> QED
    BY <1>4, <2>1, <2>2
<1>6. TablesRight'
  BY <1>1, <1>5, ClaimsSame, LogSame, TablesSame DEF IInv
<1>7. ASSUME NEW t \in Tasks
      PROVE  JobRight(t)'
  <2>1. SUFFICES ASSUME jobs[t] # None, NEW a, a = jobs[t].attempt, a # None
                 PROVE  runs'[a].attempt.task = t /\ JobOk(jobs[t], runs'[a], attempts[a], FALSE)
    BY <1>1, <1>3 DEF JobRight
  <2>2. a \in AttemptIds /\ runs[a] # None /\ runs[a].attempt.task = t /\ JobOk(jobs[t], runs[a], attempts[a], Awake)
    BY <2>1, JobTyped, JobStands
  <2> QED
    BY <1>5, <2>2 DEF JobOk
<1>8. ASSUME NEW a \in AttemptIds
      PROVE  RunRight(a)'
  <2>1. SUFFICES ASSUME runs'[a] # None, NEW t, t = runs'[a].attempt.task
                 PROVE  RunOk(a, runs'[a], jobs[t], attempts[a], logged[t].last, FALSE)
    BY <1>1, <1>3 DEF RunRight
  <2>2. runs[a] # None /\ t = runs[a].attempt.task
    BY <1>5, <2>1
  <2>3. RunOk(a, runs[a], jobs[t], attempts[a], logged[t].last, Awake)
    BY <2>2, RunStands
  <2>4. CASE runs'[a] = runs[a]
    BY <2>3, <2>4 DEF RunOk, WorkerOk
  <2>5. CASE runs[a] \in RunRecords /\ runs'[a] = Stop("stop", runs[a])
    BY <2>3, <2>5, StoppedRunOk
  <2> QED
    BY <1>4, <2>4, <2>5
<1>9. CommandsRight'
  BY <1>1, JobsCalm, CommandsStay DEF IInv
<1>10. TasksKnown'
  BY <1>1, KnownSame DEF IInv, SomeWork
<1>11. DownRight'
  BY <1>1, DownKept DEF IInv, DownStays
<1>12. TickRight'
  BY <1>1 DEF TickRight
<1> QED
  BY <1>6, <1>7, <1>8, <1>9, <1>10, <1>11, <1>12 DEF IInv, WorkRight

-----------------------------------------------------------------------------
(* The scheduler is restored *)

LEMMA RestoreGuard ==
  ASSUME Typed, EnsureScheduler
  PROVE  ~schedulerUp /\ SomeWork
<1>1. ~schedulerUp /\ (tick.pc = "reconcile" \/ \E t \in Tasks : At(t, "prepare") \/ At(t, "resume"))
  <2>1. ~schedulerUp
    BY DEF EnsureScheduler
  <2>2. tick.pc = "reconcile" \/ \E t \in Tasks : At(t, "prepare") \/ At(t, "resume")
    BY DEF EnsureScheduler
  <2> QED
    BY <2>1, <2>2
<1>2. CASE tick.pc = "reconcile"
  BY <1>1, <1>2 DEF SomeWork
<1>3. CASE \E t \in Tasks : At(t, "prepare") \/ At(t, "resume")
  <2>1. \E t \in Tasks : jobs[t] # None
    BY <1>3 DEF At, Job
  <2> QED
    BY <1>1, <2>1 DEF SomeWork
<1> QED
  BY <1>1, <1>2, <1>3

\* It knows what the index knows.
LEMMA RestoredIs ==
  ASSUME Typed, IInv, EnsureScheduler
  PROVE  \A a \in AttemptIds : /\ Restored[a] = index[a] /\ recorded[a] = index[a] /\ runs[a] = None
                               /\ attempts[a] = None
                               /\ index[a] # None => index[a].status \notin Live
<1>1. ~schedulerUp /\ SomeWork
  BY RestoreGuard
<1>2. AllKnown
  BY <1>1 DEF IInv, TasksKnown, SomeWork, AllKnown
<1>3. ASSUME NEW a \in AttemptIds
      PROVE  /\ Restored[a] = index[a] /\ recorded[a] = index[a] /\ runs[a] = None
             /\ attempts[a] = None
             /\ index[a] # None => index[a].status \notin Live
  <2>1. /\ attempts[a] = None /\ recorded[a] = index[a]
        /\ recorded[a] # None => recorded[a].status \notin Live
    BY <1>1 DEF IInv, DownRight
  <2>2. runs[a] = None
    BY <1>1 DEF IInv, TablesRight, IdOk
  <2>3. recorded[a] # None => recorded[a].task \in Tasks
    BY DEF Typed, DataTyped, Snapshots
  <2>5. recorded[a] # None => known[recorded[a].task] # None
    BY <1>2, <2>3 DEF AllKnown
  <2>4. Restored[a] = recorded[a]
    BY <2>5 DEF Restored
  <2> QED
    BY <2>1, <2>2, <2>4
<1> QED
  BY <1>3

\* An Attempt that is paused claims its Task again.
LEMMA RestoredClaim ==
  ASSUME Typed, IInv, EnsureScheduler, NEW a \in AttemptIds, IsPaused(index[a]), NEW t \in Tasks, t = index[a].task
  PROVE  claims'[t] = a /\ retries'[t] = None
<1>1. \A b \in AttemptIds : Restored[b] = index[b]
  BY RestoredIs
<1>2. /\ index[a] \in Snapshots /\ index[a] # None /\ index[a].status = "paused" /\ index[a].controller = "codex"
      /\ Greatest(index, a) /\ logged[t].last # "none"
  BY DEF IsPaused, IInv, TablesRight, SnapsOk, OkSnap, Kept, Typed, DataTyped
<1>3. workspaces[t] # "none"
  BY <1>2, RestoreStep DEF IInv, DownRight
<1>4. ASSUME NEW b \in AttemptIds, index[b] # None, index[b].task = t
      PROVE  index[b].sequence <= index[a].sequence /\ (b # a => ~(index[a].sequence <= index[b].sequence))
  <2>1. index[b].sequence \in Nat /\ index[a].sequence \in Nat
    BY <1>2, <1>4 DEF Typed, DataTyped, Snapshots
  <2>2. b # a => index[b].sequence < index[a].sequence
    BY <1>2, <1>4 DEF Greatest
  <2> QED
    BY <2>1, <2>2
<1>5. a \in Claimants(Restored, t)
  <2>1. a \in Latest(Restored, t)
    BY <1>1, <1>2, <1>4 DEF Latest
  <2> QED
    BY <1>1, <1>2, <1>3, <2>1 DEF Claimants
<1>6. ASSUME NEW b \in Claimants(Restored, t)
      PROVE  b = a
  <2>1. b \in Latest(Restored, t)
    BY DEF Claimants
  <2>2. /\ b \in AttemptIds /\ index[b] # None /\ index[b].task = t
        /\ index[a].sequence <= index[b].sequence
    BY <1>1, <1>2, <2>1 DEF Latest
  <2> QED
    BY <1>4, <2>2
<1>7. Claimant(t) = a
  BY <1>5, <1>6, RestoredTyped
<1>8. ~Waits(Restored[Claimant(t)], t)
  BY <1>1, <1>2, <1>7 DEF Waits
<1> QED
  BY <1>5, <1>7, <1>8, RestoreStep

LEMMA EnsureSchedulerRight ==
  ASSUME Typed, IInv, EnsureScheduler
  PROVE  IInv'
<1>1. /\ ~schedulerUp /\ schedulerUp' = TRUE
      /\ UNCHANGED <<known, recorded, workspaces, index, logged, runs, jobs, command, tick, shutdown, drawn>>
  BY RestoreStep DEF projection, disk, bounds
<1>2. \A a \in AttemptIds : /\ attempts'[a] = index[a] /\ recorded[a] = index[a] /\ runs[a] = None
                            /\ attempts[a] = None
                            /\ index[a] # None => index[a].status \notin Live
  BY RestoreStep, RestoredIs
<1>3. ASSUME NEW a \in AttemptIds
      PROVE  IdOk(a)' /\ SnapsOk(a)' /\ ClaimOk(a)' /\ ~Scheduled(a)'
  <2>1. IdOk(a) /\ SnapsOk(a)
    BY DEF IInv, TablesRight
  <2>2. IdOk(a)'
    BY <1>1, <1>2, <2>1 DEF IdOk, Same
  <2>3. SnapsOk(a)'
    <3>1. ASSUME IsPaused(index[a])
          PROVE  Kept(a)'
      BY <1>1, <1>2, <2>1, <3>1 DEF SnapsOk, Kept, IsPaused
    <3> QED
      BY <1>1, <1>2, <2>1, <3>1 DEF SnapsOk
  <2>4. ClaimOk(a)'
    <3>1. SUFFICES ASSUME Lives(index[a])
                   PROVE  claims'[index[a].task] = a /\ retries'[index[a].task] = None /\ Greatest(attempts', a)
      BY <1>2 DEF ClaimOk
    <3>2. IsPaused(index[a]) /\ index[a].task \in Tasks
      BY <1>2, <3>1 DEF Lives, IsPaused, Typed, DataTyped, Snapshots
    <3>3. Greatest(index, a)
      BY <2>1, <3>2 DEF SnapsOk, Kept
    <3>4. Greatest(attempts', a)
      BY <1>2, <3>3 DEF Greatest
    <3> QED
      BY <3>2, <3>4, RestoredClaim
  <2>5. ~Scheduled(a)'
    BY <1>2 DEF Scheduled
  <2> QED
    BY <2>2, <2>3, <2>4, <2>5
<1>4. TablesRight'
  <2>1. ScheduledIds' = {}
    BY <1>3 DEF ScheduledIds
  <2>2. LimitRight'
    BY <2>1, FS_EmptySet, PolicyAssumption DEF LimitRight
  <2>3. Dense' /\ LogRight'
    BY <1>1 DEF IInv, TablesRight, Dense, LogRight
  <2> QED
    BY <1>3, <2>2, <2>3 DEF TablesRight
<1>5. WorkRight'
  <2>1. ASSUME NEW t \in Tasks
        PROVE  jobs[t] # None => jobs[t].attempt = None
    <3>1. SUFFICES ASSUME jobs[t] # None
                   PROVE  jobs[t].attempt = None
      OBVIOUS
    <3>2. Where(jobs[t]) \in Early
      BY <1>1, <3>1 DEF IInv, DownRight
    <3> QED
      BY <3>1, <3>2, JobTyped DEF JobShape
  <2> QED
    BY <1>1, <1>2, <2>1 DEF WorkRight, JobRight, RunRight
<1>6. TickRight'
  <2>1. \A a \in AttemptIds : ~Over(attempts[a])
    BY <1>2 DEF Over
  <2> QED
    BY <1>1, <2>1, TickStays DEF IInv, TickRight, Awake, Keeps, Same
<1>7. CommandsRight'
  BY <1>1, JobsCalm, CommandsStay DEF IInv
<1>8. TasksKnown'
  <2>1. SomeWork
    BY RestoreGuard
  <2> QED
    BY <1>1, <2>1, KnownSame DEF IInv
<1> QED
  BY <1>1, <1>4, <1>5, <1>6, <1>7, <1>8, DownUp DEF IInv

-----------------------------------------------------------------------------
(* The process starts, again or for the first time; nothing happens *)

LEMMA OrphanIs ==
  ASSUME NEW s \in Snapshots, OkSnap(s)
  PROVE  LET r == Orphan(s) IN
         /\ r # None /\ Same(r, s) /\ OkSnap(r) /\ r.status \notin Live
         /\ r.status = "paused" => s.status = "paused"
<1>1. s # None /\ s.status \in Live \cup Terminal \cup {"paused"} /\ s.controller \in {"symphoneer", "codex"}
  BY NoneApart DEF Snapshots
<1>2. CASE s.controller = "symphoneer" /\ s.status \notin Terminal
  <2>1. Orphan(s) = [s EXCEPT !.status = "interrupted"]
    BY <1>1, <1>2 DEF Orphan
  <2>2. Orphan(s) \in Snapshots
    BY <1>1, OrphanTyped, NoneApart, <2>1, SnapStatus DEF Terminal
  <2>3. Orphan(s).status = "interrupted" /\ Same(Orphan(s), s) /\ Orphan(s).controller = s.controller
    BY <2>1 DEF Same, Snapshots
  <2> QED
    BY <1>2, <2>2, <2>3, NoneApart DEF OkSnap, Live
<1>3. CASE s.controller # "symphoneer" \/ s.status \in Terminal
  <2>1. Orphan(s) = s
    BY <1>1, <1>3 DEF Orphan
  <2>2. s.status \notin Live
    BY <1>1, <1>3 DEF OkSnap, Live, Terminal
  <2> QED
    BY <1>1, <2>1, <2>2 DEF Same
<1> QED
  BY <1>2, <1>3

\* Nothing works in a process that has just started.
Fresh ==
  /\ schedulerUp = FALSE /\ command.pc = "idle" /\ tick.pc = "idle"
  /\ \A t \in Tasks : known[t] = None /\ jobs[t] = None /\ retries[t] = None
  /\ \A a \in AttemptIds : attempts[a] = None /\ runs[a] = None

Started ==
  /\ Fresh /\ Dense /\ LogRight
  /\ \A t \in Tasks : workspaces[t] = logged[t].last
  /\ \A a \in AttemptIds : /\ recorded[a] = index[a]
                           /\ index[a] # None => a <= drawn /\ OkSnap(index[a]) /\ index[a].status \notin Live
                           /\ IsPaused(index[a]) => logged[index[a].task].last # "none" /\ Greatest(index, a)

LEMMA StartedRight == Started => IInv
<1> SUFFICES ASSUME Started
             PROVE  IInv
  OBVIOUS
<1>1. ASSUME NEW a \in AttemptIds
      PROVE  IdOk(a) /\ SnapsOk(a) /\ ClaimOk(a) /\ ~Scheduled(a)
  <2>1. schedulerUp = FALSE /\ attempts[a] = None /\ runs[a] = None /\ recorded[a] = index[a]
    BY DEF Started, Fresh
  <2>2. /\ index[a] # None => a <= drawn /\ OkSnap(index[a])
        /\ IsPaused(index[a]) => logged[index[a].task].last # "none" /\ Greatest(index, a)
    BY DEF Started
  <2>3. IdOk(a)
    BY <2>1, <2>2 DEF IdOk, Same
  <2>4. SnapsOk(a)
    BY <2>1, <2>2 DEF SnapsOk, Kept
  <2> QED
    BY <2>1, <2>3, <2>4 DEF ClaimOk, Lives, Scheduled
<1>2. LimitRight
  <2>1. ScheduledIds = {}
    BY <1>1 DEF ScheduledIds
  <2> QED
    BY <2>1, FS_EmptySet, PolicyAssumption DEF LimitRight
<1>3. TablesRight
  BY <1>1, <1>2 DEF TablesRight, Started
<1>4. WorkRight /\ TickRight /\ CommandsRight
  BY DEF Started, Fresh, WorkRight, JobRight, RunRight, TickRight, CommandsRight
<1>5. TasksKnown
  BY DEF Started, Fresh, TasksKnown
<1>6. DownRight
  <2>1. \A a \in AttemptIds : attempts[a] = None /\ recorded[a] = index[a]
    BY DEF Started, Fresh
  <2>2. \A a \in AttemptIds : index[a] # None => index[a].status \notin Live
    BY DEF Started
  <2>3. /\ \A t \in Tasks : retries[t] = None /\ workspaces[t] = logged[t].last /\ jobs[t] = None
        /\ tick.pc = "idle"
    BY DEF Started, Fresh
  <2> QED
    BY <2>1, <2>2, <2>3 DEF DownRight
<1> QED
  BY <1>3, <1>4, <1>5, <1>6 DEF IInv

LEMMA InitRight ==
  ASSUME Init
  PROVE  IInv
<1>1. Fresh
  BY DEF Init, Fresh
<1>2. /\ \A a \in AttemptIds : index[a] = None /\ recorded[a] = None
      /\ \A t \in Tasks : workspaces[t] = "none" /\ logged[t] = [last |-> "none", keys |-> {}]
  BY DEF Init
<1>3. Dense
  <2>1. \A t \in Tasks : Of(index, t) = {}
    BY <1>2 DEF Of
  <2> QED
    BY <2>1 DEF Dense
<1>4. LogRight
  BY <1>2 DEF LogRight
<1> QED
  BY <1>1, <1>2, <1>3, <1>4, StartedRight DEF IsPaused, Started

LEMMA RestartRight ==
  ASSUME Typed, IInv, Restart
  PROVE  IInv'
<1>1. /\ Fresh' /\ UNCHANGED <<logged, drawn>>
      /\ \A t \in Tasks : workspaces'[t] = logged[t].last
      /\ \A a \in AttemptIds : recorded'[a] = Orphan(index[a]) /\ index'[a] = Orphan(index[a])
  BY DEF Restart, Fresh
<1>2. ASSUME NEW a \in AttemptIds
      PROVE  /\ Keeps(index[a], index'[a])
             /\ index'[a] # None => a <= drawn /\ OkSnap(index'[a]) /\ index'[a].status \notin Live
             /\ IsPaused(index'[a]) => IsPaused(index[a])
  <2>1. IdOk(a) /\ SnapsOk(a) /\ index[a] \in Snapshots \cup {None}
    BY DEF IInv, TablesRight, Typed, DataTyped
  <2>2. CASE index[a] = None
    <3>1. index'[a] = None
      BY <1>1, <2>2 DEF Orphan
    <3> QED
      BY <2>2, <3>1 DEF Keeps, IsPaused
  <2>3. CASE index[a] # None
    <3>1. index[a] \in Snapshots /\ OkSnap(index[a]) /\ a <= drawn
      BY <2>1, <2>3 DEF IdOk, SnapsOk
    <3>2. /\ index'[a] # None /\ Same(index'[a], index[a]) /\ OkSnap(index'[a]) /\ index'[a].status \notin Live
          /\ index'[a].status = "paused" => index[a].status = "paused"
      BY <1>1, <3>1, OrphanIs
    <3> QED
      BY <2>3, <3>1, <3>2 DEF Keeps, IsPaused
  <2> QED
    BY <2>2, <2>3
<1>3. Dense'
  BY <1>2, DenseKept DEF IInv, TablesRight
<1>4. LogRight'
  BY <1>1 DEF IInv, TablesRight, LogRight
<1>5. ASSUME NEW a \in AttemptIds, IsPaused(index'[a])
      PROVE  logged'[index'[a].task].last # "none" /\ Greatest(index', a)
  <2>1. IsPaused(index[a]) /\ SnapsOk(a)
    BY <1>2, <1>5 DEF IInv, TablesRight
  <2>2. index[a] # None /\ Kept(a)
    BY <2>1 DEF SnapsOk, IsPaused
  <2>3. index'[a].task = index[a].task
    BY <1>2, <2>2 DEF Keeps, Same
  <2>4. Greatest(index', a)
    BY <1>2, <2>2, GreatestKept DEF Kept
  <2> QED
    BY <1>1, <2>2, <2>3, <2>4 DEF Kept
<1>6. \A a \in AttemptIds : /\ recorded'[a] = index'[a]
                            /\ index'[a] # None => a <= drawn' /\ OkSnap(index'[a]) /\ index'[a].status \notin Live
                            /\ IsPaused(index'[a]) => logged'[index'[a].task].last # "none" /\ Greatest(index', a)
  BY <1>1, <1>2, <1>5
<1>7. Dense' /\ LogRight' /\ Fresh' /\ \A t \in Tasks : workspaces'[t] = logged'[t].last
  BY <1>1, <1>3, <1>4
<1>8. Started'
  BY <1>6, <1>7 DEF Started
<1> QED
  BY <1>8, StartedRight, PTL

LEMMA NothingRight ==
  ASSUME Typed, IInv, UNCHANGED vars
  PROVE  IInv'
<1>1. Still /\ UNCHANGED <<jobs, tick, known, claims, retries, command, shutdown>>
  BY DEF vars, Still, projection, disk, scheduler, bounds
<1>2. CommandsRight'
  BY <1>1, JobsCalm, CommandsStay DEF IInv
<1> QED
  BY <1>1, <1>2, NoJobRight DEF Awake, IInv, TickRight

-----------------------------------------------------------------------------
(* An Attempt is reserved and recorded *)

\* The job of t starts the Attempt a: its snapshot is s, its run r, and the job becomes j.
Begun(t, a, s, r, j) ==
  /\ schedulerUp /\ schedulerUp' /\ jobs[t] # None /\ jobs[t].attempt = None /\ jobs[t].pc = "prepare"
  /\ jobs[t].kind = "run"
  /\ a = drawn + 1 /\ drawn' = a /\ a \in AttemptIds
  /\ s \in Snapshots /\ s.task = t /\ s.sequence = NextSequence(t) /\ s.status = "preparing_workspace"
  /\ s.controller = "symphoneer"
  /\ r # None /\ r.attempt = s /\ r.view = "eligible" /\ r.listed = TRUE /\ r.stopping = FALSE /\ r.settled = FALSE
  /\ r.turn = "none" /\ r.worker = "none" /\ r.workspace = "ready" /\ r.ends = [w \in Enders |-> "none"]
  /\ j # None /\ j.attempt = a /\ j.pc = "append" /\ j.next = "install" /\ j.write = "attempt" /\ j.snapshot = s
  /\ j.kind = "run"
  /\ attempts'[a] = s /\ index'[a] = s /\ runs'[a] = r /\ jobs'[t] = j /\ claims'[t] = a /\ retries'[t] = None
  /\ \A b \in AttemptIds : b # a => attempts'[b] = attempts[b] /\ index'[b] = index[b] /\ runs'[b] = runs[b]
  /\ \A u \in Tasks : u # t => jobs'[u] = jobs[u] /\ claims'[u] = claims[u] /\ retries'[u] = retries[u]
  /\ Granted(t) /\ HasRoom /\ Follows(t, NextSequence(t))
  /\ UNCHANGED <<known, recorded, workspaces, logged, command, tick, shutdown>>

LEMMA StartBegins ==
  ASSUME Typed, IInv, NEW t \in Tasks, Start(t)
  PROVE  \E a, s, r, j : Begun(t, a, s, r, j)
<1> DEFINE a == drawn + 1
           s == [task |-> t, sequence |-> NextSequence(t), status |-> "preparing_workspace",
                 controller |-> "symphoneer", session |-> FALSE]
           r == NewRun(s, jobs[t].view)
           j == Recording(jobs[t], a, r, "install")
<1>1. /\ RecordAttempt(t, a, r, "install") /\ drawn' = a /\ attempts' = [attempts EXCEPT ![a] = s]
      /\ claims' = [claims EXCEPT ![t] = a] /\ retries' = [retries EXCEPT ![t] = None]
      /\ jobs[t] # None /\ jobs[t].pc = "prepare" /\ jobs[t].view = "eligible" /\ drawn < scenario.drawn /\ schedulerUp
      /\ Granted(t) /\ HasRoom /\ Follows(t, NextSequence(t))
      /\ UNCHANGED <<known, recorded, workspaces, logged, schedulerUp, command, tick, shutdown>>
  BY DEF Start, At, Job, projection
<1>2. a \in AttemptIds
  BY <1>1, ScenarioAssumption DEF Typed, DataTyped, ScenarioRecords, AttemptIds
<1>3. NextSequence(t) \in Nat \ {0}
  <2>1. AttemptsOf(t) \subseteq AttemptIds
    BY DEF AttemptsOf
  <2>2. Cardinality(AttemptsOf(t)) \in Nat
    BY <2>1, FiniteIds
  <2> QED
    BY <2>2 DEF NextSequence
<1>4. s \in Snapshots /\ s.task = t /\ s.sequence = NextSequence(t) /\ s.status = "preparing_workspace"
      /\ s.controller = "symphoneer"
  BY <1>3 DEF Snapshots, Live
<1>5. jobs[t] \in JobRecords /\ JobShape(jobs[t]) /\ jobs[t].view \in AllViews
  BY <1>1, JobTyped DEF JobRecords
<1>6. jobs[t].attempt = None
  BY <1>1, <1>5 DEF JobShape, Where, Early
<1>7. jobs[t].kind = "run"
  <2>1. jobs[t].kind = "continue" => Waiting(jobs[t])
    BY <1>1 DEF IInv, CommandsRight
  <2> QED
    BY <1>1, <1>5, <2>1 DEF Waiting, JobRecords
<1> HIDE DEF s
<1>8. /\ r \in RunRecords /\ r.attempt = s /\ r.view = "eligible" /\ r.stopping = FALSE /\ r.workspace = "ready"
      /\ r.turn = "none" /\ r.worker = "none" /\ r.listed = TRUE /\ r.settled = FALSE /\ r.ends = [w \in Enders |-> "none"]
  BY <1>1, <1>4, <1>5, FreshRun
<1>9. r # None
  BY <1>8, NoneApart
<1> HIDE DEF r, a
<1>10. "install" \in Pcs /\ "install" \notin Early
  BY DEF Pcs, Early
<1>11. /\ j \in JobRecords /\ j.attempt = a /\ j.pc = "append" /\ j.next = "install" /\ j.write = "attempt"
       /\ j.snapshot = s /\ j.kind = "run"
  BY <1>2, <1>5, <1>7, <1>8, <1>10, RecordingIs
<1>12. jobs' = [jobs EXCEPT ![t] = j] /\ index' = [index EXCEPT ![a] = s] /\ runs' = [runs EXCEPT ![a] = r]
  BY <1>1, <1>8 DEF RecordAttempt, Recording, Typed, JobsTyped
<1>13. j # None
  BY <1>11, NoneApart
<1> HIDE DEF j
<1>14. /\ attempts'[a] = s /\ index'[a] = s /\ runs'[a] = r /\ jobs'[t] = j /\ claims'[t] = a /\ retries'[t] = None
       /\ \A b \in AttemptIds : b # a => attempts'[b] = attempts[b] /\ index'[b] = index[b] /\ runs'[b] = runs[b]
       /\ \A u \in Tasks : u # t => jobs'[u] = jobs[u] /\ claims'[u] = claims[u] /\ retries'[u] = retries[u]
  BY <1>1, <1>2, <1>12 DEF Typed, DataTyped, SchedulerTyped, RunsTyped, JobsTyped
<1>15. a = drawn + 1
  BY DEF a
<1>16. Begun(t, a, s, r, j)
  BY <1>1, <1>2, <1>4, <1>6, <1>7, <1>8, <1>9, <1>11, <1>13, <1>14, <1>15 DEF Begun
<1> QED
  BY <1>16

\* The Attempt is new: no table knows its number, and no Attempt of the Task lives.
LEMMA BegunNew ==
  ASSUME Typed, IInv, NEW t \in Tasks, NEW a, NEW s, NEW r, NEW j, Begun(t, a, s, r, j)
  PROVE  /\ index[a] = None /\ recorded[a] = None /\ runs[a] = None /\ attempts[a] = None
         /\ \A b \in AttemptIds : attempts[b] # None /\ attempts[b].task = t => ~Lives(attempts[b])
<1>1. a \in AttemptIds /\ a = drawn + 1 /\ schedulerUp /\ drawn \in Nat
  BY DEF Begun, Typed, DataTyped
<1>2. IdOk(a)
  BY <1>1 DEF IInv, TablesRight
<1>3. index[a] = None
  <2>1. index[a] # None => a <= drawn
    BY <1>2 DEF IdOk
  <2> QED
    BY <1>1, <2>1
<1>4. recorded[a] = None /\ runs[a] = None /\ attempts[a] = None
  BY <1>1, <1>2, <1>3 DEF IdOk
<1>5. ASSUME NEW b \in AttemptIds, attempts[b] # None, attempts[b].task = t, Lives(attempts[b])
      PROVE  FALSE
  <2>1. claims[t] = b /\ retries[t] = None /\ b # None
    BY <1>5, NoneApart DEF IInv, TablesRight, ClaimOk
  <2>2. Granted(t)
    BY DEF Begun
  <2> QED
    BY <2>1, <2>2 DEF Granted
<1> QED
  BY <1>3, <1>4, <1>5

\* Its sequence number is the next one of the Task.
LEMMA BegunSequence ==
  ASSUME Typed, IInv, NEW t \in Tasks, NEW a, NEW s, NEW r, NEW j, Begun(t, a, s, r, j)
  PROVE  /\ s.sequence = Cardinality(Of(index, t)) + 1
         /\ \A b \in AttemptIds : index[b] # None /\ index[b].task = t => index[b].sequence < s.sequence
<1> DEFINE n == NextSequence(t)
           S == Of(index, t)
           m == Cardinality(S)
<1>1. s.sequence = n /\ Follows(t, n) /\ schedulerUp /\ n \in Nat \ {0}
  BY DEF Begun, Snapshots
<1> HIDE DEF n
<1>2. ASSUME NEW b \in AttemptIds
      PROVE  /\ attempts[b] = None <=> index[b] = None
             /\ index[b] # None => Same(attempts[b], index[b]) /\ index[b].sequence \in Nat \ {0}
  <2>1. IdOk(b)
    BY DEF IInv, TablesRight
  <2> QED
    BY <1>1, <2>1 DEF IdOk, Typed, DataTyped, Snapshots
<1>3. \A b \in AttemptIds : index[b] # None /\ index[b].task = t => index[b].sequence < n
  BY <1>1, <1>2 DEF Follows, Same
<1>4. n = 1 \/ \E b \in AttemptIds : index[b] # None /\ index[b].task = t /\ index[b].sequence = n - 1
  BY <1>1, <1>2 DEF Follows, Same
<1>5. S \subseteq AttemptIds /\ m \in Nat
  BY FiniteIds DEF Of
<1>6. /\ \A b \in S : index[b].sequence <= m
      /\ S = {} \/ \E b \in S : index[b].sequence = m
  BY DEF IInv, TablesRight, Dense
<1>7. \A b \in AttemptIds : b \in S <=> index[b] # None /\ index[b].task = t
  BY DEF Of
<1>8. CASE S = {}
  <2>1. m = 0
    BY <1>8, FS_EmptySet
  <2>2. n = 1
    BY <1>4, <1>7, <1>8
  <2> QED
    BY <1>1, <1>3, <2>1, <2>2
<1>9. CASE S # {}
  <2>1. PICK b \in S : index[b].sequence = m
    BY <1>6, <1>9
  <2>2. m < n /\ m \in Nat \ {0}
    BY <1>2, <1>3, <1>5, <1>7, <2>1
  <2>3. n # 1
    BY <1>1, <2>2
  <2>4. PICK c \in S : index[c].sequence = n - 1
    BY <1>4, <1>7, <2>3
  <2>5. n - 1 <= m
    BY <1>6, <2>4
  <2>6. n = m + 1
    BY <1>1, <2>2, <2>5
  <2> QED
    BY <1>1, <1>3, <2>6
<1> QED
  BY <1>8, <1>9

LEMMA BegunDense ==
  ASSUME Typed, IInv, NEW t \in Tasks, NEW a, NEW s, NEW r, NEW j, Begun(t, a, s, r, j)
  PROVE  Dense'
<1>1. /\ a \in AttemptIds /\ index[a] = None /\ index'[a] = s /\ s # None /\ s.task = t
      /\ \A b \in AttemptIds : b # a => index'[b] = index[b]
  <2>1. /\ a \in AttemptIds /\ index'[a] = s /\ s \in Snapshots /\ s.task = t
        /\ \A b \in AttemptIds : b # a => index'[b] = index[b]
    BY DEF Begun
  <2>2. index[a] = None
    BY BegunNew
  <2> QED
    BY <2>1, <2>2, NoneApart
<1>2. ASSUME NEW u \in Tasks
      PROVE  /\ \A b \in Of(index', u) : index'[b].sequence <= Cardinality(Of(index', u))
             /\ Of(index', u) = {} \/ \E b \in Of(index', u) : index'[b].sequence = Cardinality(Of(index', u))
  <2>1. CASE u # t
    <3>1. Of(index', u) = Of(index, u) /\ \A b \in Of(index, u) : index'[b] = index[b]
      BY <1>1, <2>1 DEF Of
    <3> QED
      BY <3>1 DEF IInv, TablesRight, Dense
  <2>2. CASE u = t
    <3> DEFINE S == Of(index, t)
               m == Cardinality(S)
    <3>1. Of(index', t) = S \cup {a} /\ a \notin S
      BY <1>1 DEF Of
    <3>2. IsFiniteSet(S) /\ m \in Nat
      BY FiniteIds DEF Of
    <3>3. Cardinality(Of(index', t)) = m + 1
      BY <3>1, <3>2, FS_AddElement
    <3>4. s.sequence = m + 1
      BY BegunSequence
    <3>5. \A b \in S : index'[b].sequence <= m /\ index'[b].sequence \in Nat
      BY <1>1, <3>1 DEF Of, IInv, TablesRight, Dense, Typed, DataTyped, Snapshots
    <3> HIDE DEF S, m
    <3>6. \A b \in Of(index', t) : index'[b].sequence <= m + 1
      BY <1>1, <3>1, <3>2, <3>4, <3>5
    <3>7. \E b \in Of(index', t) : index'[b].sequence = m + 1
      BY <1>1, <3>1, <3>4
    <3> QED
      BY <2>2, <3>3, <3>6, <3>7
  <2> QED
    BY <2>1, <2>2
<1> QED
  BY <1>2 DEF Dense

LEMMA BegunLimit ==
  ASSUME Typed, IInv, NEW t \in Tasks, NEW a, NEW s, NEW r, NEW j, Begun(t, a, s, r, j)
  PROVE  LimitRight'
<1>1. \A b \in AttemptIds : b # a => attempts'[b] = attempts[b]
  BY DEF Begun
<1>2. a \in AttemptIds
  BY DEF Begun
<1>3. ScheduledIds' \subseteq ScheduledIds \cup {a}
  BY <1>1 DEF ScheduledIds, Scheduled
<1>4. /\ IsFiniteSet(ScheduledIds) /\ Cardinality(ScheduledIds) \in Nat
      /\ IsFiniteSet(ScheduledIds \cup {a}) /\ Cardinality(ScheduledIds') \in Nat
      /\ Cardinality(ScheduledIds \cup {a}) \in Nat
  <2>1. ScheduledIds \subseteq AttemptIds /\ ScheduledIds \cup {a} \subseteq AttemptIds /\ ScheduledIds' \subseteq AttemptIds
    BY <1>2 DEF ScheduledIds
  <2> QED
    BY <2>1, FiniteIds
<1>5. Cardinality(ScheduledIds') <= Cardinality(ScheduledIds \cup {a})
  BY <1>3, <1>4, FS_Subset
<1>6. Cardinality(ScheduledIds \cup {a}) <= Cardinality(ScheduledIds) + 1
  BY <1>4, FS_AddElement
<1>7. Cardinality(ScheduledIds) < MaxAgents
  BY DEF Begun, HasRoom, ScheduledIds
<1> QED
  BY <1>4, <1>5, <1>6, <1>7, PolicyAssumption DEF LimitRight

LEMMA BegunTables ==
  ASSUME Typed, IInv, NEW t \in Tasks, NEW a, NEW s, NEW r, NEW j, Begun(t, a, s, r, j)
  PROVE  TablesRight'
<1>1. /\ schedulerUp /\ schedulerUp' /\ a \in AttemptIds /\ drawn' = a /\ a = drawn + 1 /\ drawn \in Nat
      /\ s # None /\ s.task = t /\ s.status = "preparing_workspace" /\ s.controller = "symphoneer"
      /\ attempts'[a] = s /\ index'[a] = s /\ runs'[a] = r /\ r # None /\ r.attempt = s
      /\ claims'[t] = a /\ retries'[t] = None
      /\ UNCHANGED <<recorded, logged>>
  BY NoneApart DEF Begun, Typed, DataTyped
<1>2. /\ \A b \in AttemptIds : b # a => attempts'[b] = attempts[b] /\ index'[b] = index[b] /\ runs'[b] = runs[b]
      /\ \A u \in Tasks : u # t => claims'[u] = claims[u] /\ retries'[u] = retries[u]
  BY DEF Begun
<1>3. /\ index[a] = None /\ recorded[a] = None /\ runs[a] = None /\ attempts[a] = None
      /\ \A b \in AttemptIds : attempts[b] # None /\ attempts[b].task = t => ~Lives(attempts[b])
  BY BegunNew
<1>4. OkSnap(s) /\ s.status # "paused"
  BY <1>1 DEF OkSnap
<1>5. \A b \in AttemptIds : IdOk(b) /\ SnapsOk(b) /\ ClaimOk(b)
  BY DEF IInv, TablesRight
<1>6. Greatest(index', a)
  BY <1>1, <1>2, BegunSequence DEF Greatest
<1>7. ASSUME NEW b \in AttemptIds
      PROVE  IdOk(b)'
  <2>1. CASE b = a
    BY <1>1, <1>3, <2>1 DEF IdOk, Same
  <2>2. CASE b # a
    <3>1. index[b] # None => b <= drawn'
      BY <1>1, <1>5 DEF IdOk, AttemptIds
    <3>2. /\ IdOk(b) /\ index'[b] = index[b] /\ attempts'[b] = attempts[b] /\ recorded'[b] = recorded[b]
          /\ runs'[b] = runs[b]
      BY <1>1, <1>2, <1>5, <2>2
    <3> QED
      BY <1>1, <3>1, <3>2 DEF IdOk
  <2> QED
    BY <2>1, <2>2
<1>8. ASSUME NEW b \in AttemptIds
      PROVE  SnapsOk(b)'
  <2>1. CASE b = a
    BY <1>1, <1>3, <1>4, <2>1 DEF SnapsOk, IsPaused
  <2>2. CASE b # a
    <3>1. ASSUME IsPaused(index[b]) \/ IsPaused(recorded[b])
          PROVE  Kept(b)'
      <4>1. Kept(b) /\ index[b] # None
        BY <1>5, <3>1 DEF SnapsOk, IdOk, IsPaused
      <4>2. attempts[b] # None /\ Same(attempts[b], index[b]) /\ Lives(attempts[b])
        BY <1>1, <1>5, <4>1 DEF IdOk, Kept, Lives
      <4>3. index[b].task # t
        BY <1>3, <4>2 DEF Same
      <4>4. Greatest(index', b)
        BY <1>1, <1>2, <2>2, <4>1, <4>3 DEF Greatest, Kept
      <4> QED
        BY <1>1, <1>2, <2>2, <4>1, <4>4 DEF Kept
    <3>2. SnapsOk(b) /\ index'[b] = index[b] /\ attempts'[b] = attempts[b] /\ recorded'[b] = recorded[b]
      BY <1>1, <1>2, <1>5, <2>2
    <3>3. /\ index'[b] # None => OkSnap(index'[b])
          /\ recorded'[b] # None => OkSnap(recorded'[b])
          /\ attempts'[b] # None => OkSnap(attempts'[b])
      BY <3>2 DEF SnapsOk
    <3>4. IsPaused(index'[b]) \/ IsPaused(recorded'[b]) => Kept(b)'
      BY <3>1, <3>2
    <3> QED
      BY <3>3, <3>4 DEF SnapsOk
  <2> QED
    BY <2>1, <2>2
<1>9. ASSUME NEW b \in AttemptIds
      PROVE  ClaimOk(b)'
  <2>1. CASE b = a
    <3>1. Greatest(attempts', a)
      <4>1. ASSUME NEW c \in AttemptIds, attempts'[c] # None, attempts'[c].task = t, c # a
            PROVE  attempts'[c].sequence < s.sequence
        <5>1. index[c] # None /\ Same(attempts'[c], index[c])
          BY <1>1, <1>2, <1>5, <4>1 DEF IdOk
        <5> QED
          BY <4>1, <5>1, BegunSequence DEF Same
      <4> QED
        BY <1>1, <4>1 DEF Greatest
    <3> QED
      BY <1>1, <2>1, <3>1 DEF ClaimOk
  <2>2. CASE b # a
    <3>1. SUFFICES ASSUME Lives(attempts[b])
                   PROVE  /\ claims'[attempts[b].task] = b /\ retries'[attempts[b].task] = None
                          /\ Greatest(attempts', b)
      BY <1>2, <2>2 DEF ClaimOk
    <3>2. attempts[b].task \in Tasks /\ attempts[b].task # t
      BY <1>3, <3>1 DEF Lives, Typed, SchedulerTyped, Snapshots
    <3>3. claims[attempts[b].task] = b /\ retries[attempts[b].task] = None /\ Greatest(attempts, b)
      BY <1>5, <3>1 DEF ClaimOk
    <3>4. Greatest(attempts', b)
      BY <1>1, <1>2, <2>2, <3>2, <3>3 DEF Greatest
    <3> QED
      BY <1>2, <3>2, <3>3, <3>4
  <2> QED
    BY <2>1, <2>2
<1>10. LogRight'
  BY <1>1 DEF IInv, TablesRight, LogRight
<1> QED
  BY <1>7, <1>8, <1>9, <1>10, BegunDense, BegunLimit DEF TablesRight

LEMMA BegunWork ==
  ASSUME Typed, IInv, NEW t \in Tasks, NEW a, NEW s, NEW r, NEW j, Begun(t, a, s, r, j)
  PROVE  WorkRight'
<1>1. /\ a \in AttemptIds /\ s.task = t /\ s.status = "preparing_workspace" /\ s.controller = "symphoneer"
      /\ attempts'[a] = s /\ runs'[a] = r /\ r # None /\ r.attempt = s /\ jobs'[t] = j /\ j # None /\ j.attempt = a
      /\ jobs[t].attempt = None /\ UNCHANGED logged
  BY DEF Begun
<1>2. /\ \A b \in AttemptIds : b # a => attempts'[b] = attempts[b] /\ runs'[b] = runs[b]
      /\ \A u \in Tasks : u # t => jobs'[u] = jobs[u]
  BY DEF Begun
<1>3. runs[a] = None
  BY BegunNew
<1>4. Awake' = Awake
  BY DEF Begun, Awake
<1>5. JobOk(j, r, s, Awake)
  BY DEF Begun, JobOk, Drives, Driving, Where, Free, Same, OkSnap, Live
<1>6. RunOk(a, r, j, s, logged[t].last, Awake)
  <2>1. /\ r.attempt = s /\ r.listed = TRUE /\ r.stopping = FALSE /\ r.turn = "none" /\ r.worker = "none"
        /\ r.workspace = "ready" /\ \A who \in Enders : r.ends[who] = "none"
    BY DEF Begun
  <2> QED
    BY <1>1, <2>1 DEF RunOk, WorkerOk, OkSnap, Owns, Enders
<1>7. ASSUME NEW u \in Tasks
      PROVE  JobRight(u)'
  <2>1. CASE u = t
    BY <1>1, <1>4, <1>5, <2>1 DEF JobRight
  <2>2. CASE u # t
    <3>1. SUFFICES ASSUME jobs[u] # None, NEW b, b = jobs[u].attempt, b # None
                   PROVE  runs'[b].attempt.task = u /\ JobOk(jobs[u], runs'[b], attempts'[b], Awake)
      BY <1>2, <1>4, <2>2 DEF JobRight
    <3>2. b \in AttemptIds /\ runs[b] # None /\ runs[b].attempt.task = u /\ JobOk(jobs[u], runs[b], attempts[b], Awake)
      BY <3>1, JobTyped, JobStands
    <3> QED
      BY <1>2, <1>3, <3>2
  <2> QED
    BY <2>1, <2>2
<1>8. ASSUME NEW b \in AttemptIds
      PROVE  RunRight(b)'
  <2>1. CASE b = a
    BY <1>1, <1>4, <1>6, <2>1 DEF RunRight
  <2>2. CASE b # a
    <3>1. SUFFICES ASSUME runs[b] # None, NEW u, u = runs[b].attempt.task
                   PROVE  RunOk(b, runs[b], jobs'[u], attempts[b], logged[u].last, Awake)
      BY <1>1, <1>2, <1>4, <2>2 DEF RunRight
    <3>2. u \in Tasks /\ RunOk(b, runs[b], jobs[u], attempts[b], logged[u].last, Awake)
      BY <3>1, ARun, RunStands
    <3>3. CASE u # t
      BY <1>2, <3>2, <3>3
    <3>4. CASE u = t
      <4>1. ~Owns(jobs[u], b) /\ ~Owns(jobs'[u], b)
        BY <1>1, <1>2, <1>4, <2>2, <3>4, NoneApart DEF Owns
      <4> QED
        BY <3>2, <4>1, RunOkStays
    <3> QED
      BY <3>3, <3>4
  <2> QED
    BY <2>1, <2>2
<1> QED
  BY <1>7, <1>8 DEF WorkRight

LEMMA StartRight ==
  ASSUME Typed, IInv, NEW t \in Tasks, Start(t)
  PROVE  IInv'
<1>1. PICK a, s, r, j : Begun(t, a, s, r, j)
  BY StartBegins
<1>2. TablesRight' /\ WorkRight'
  BY <1>1, BegunTables, BegunWork
<1>3. CommandsRight'
  <2>1. ASSUME NEW u \in Tasks
        PROVE  JobCalm(u)
    BY <1>1 DEF Begun, JobCalm, Where, Waiting
  <2> QED
    BY <1>1, <2>1, CommandsStay DEF IInv, Begun
<1>4. TasksKnown'
  BY <1>1, KnownSame DEF IInv, Begun, SomeWork
<1>5. DownRight'
  BY <1>1, DownUp DEF Begun
<1>6. TickRight'
  <2>1. SUFFICES ASSUME tick.pc # "idle"
                 PROVE  TickRight'
    BY <1>1 DEF TickRight, Begun
  <2>2. tick \in TickRecords /\ TickRight /\ tick' = tick /\ Awake' = Awake
    BY <1>1, <2>1, ATick DEF IInv, Begun, Awake
  <2>3. index[a] = None /\ attempts[a] = None
    BY <1>1, BegunNew
  <2>4. \A b \in AttemptIds : b # a => attempts'[b] = attempts[b] /\ index'[b] = index[b]
    BY <1>1 DEF Begun
  <2>5. \A b \in AttemptIds : index[b] # None => index'[b] = index[b]
    BY <2>3, <2>4
  <2>6. \A b \in AttemptIds : attempts[b] # None => attempts'[b] = attempts[b]
    BY <2>3, <2>4
  <2>7. \A b \in tick.stopped : b \in AttemptIds
    BY <2>2 DEF TickRecords
  <2>8. tick.pc = "append" /\ tick.write = "attempt" => tick.attempt \in AttemptIds
    BY <2>2 DEF TickRecords, Typed, RestTyped, TickShape
  <2> QED
    BY <2>1, <2>2, <2>5, <2>6, <2>7, <2>8 DEF TickRight
<1> QED
  BY <1>2, <1>3, <1>4, <1>5, <1>6 DEF IInv

-----------------------------------------------------------------------------
(* Every step *)

LEMMA CleanupStep ==
  ASSUME Cleanup
  PROVE  UNCHANGED <<drawn, given, restarts, scenario>>
BY DEF Cleanup, TickAt, projection, disk, scheduler, bounds

LEMMA ScenarioStays ==
  ASSUME Typed, [Next]_vars
  PROVE  scenario' = scenario
<1>1. ASSUME NEW t \in Tasks, JobStep(t) \/ Activity(t) \/ RetryTimer(t) \/ TrackerMoves(t)
      PROVE  scenario' = scenario
  <2>1. CASE Moving(t)
    BY <2>1, MovingMoves DEF JobMove, Elsewhere, bounds
  <2>2. CASE Commit(t) \/ Fetch(t) \/ NotStarted(t) \/ Unreserved(t)
    BY <2>2 DEF Commit, Fetch, NotStarted, Unreserved, bounds
  <2>3. CASE Start(t) \/ NotResumed(t) \/ Resume(t)
    BY <2>3 DEF Start, NotResumed, Resume, bounds
  <2>4. CASE RetryTimer(t) \/ TrackerMoves(t)
    BY <2>4 DEF RetryTimer, TrackerMoves, bounds
  <2> QED
    BY <1>1, <2>1, <2>2, <2>3, <2>4 DEF JobStep, Moving
<1>2. ASSUME NEW a \in AttemptIds, TurnEnds(a) \/ Ending(a)
      PROVE  scenario' = scenario
  <2>1. TurnEnds(a) => scenario' = scenario
    BY DEF TurnEnds, bounds
  <2>2. \A who \in Enders : EndHalt(who, a) => scenario' = scenario
    BY DEF EndHalt, bounds
  <2>3. \A who \in Enders : EndRetained(who, a) \/ EndStatus(who, a) => scenario' = scenario
    BY DEF EndRetained, EndStatus, bounds
  <2> QED
    BY <1>2, <2>1, <2>2, <2>3 DEF Ending
<1>3. CASE CommandStep
  <2>1. CASE StartRun \/ RetryAttempt \/ SendInput \/ Handoff \/ HandedOff \/ ReturnControl \/ Returned
    BY <2>1 DEF StartRun, RetryAttempt, SendInput, Handoff, HandedOff, ReturnControl, Returned, bounds
  <2>2. CASE PauseAttempt \/ AttemptPaused \/ DeleteAttempt \/ Unindex
    BY <2>2 DEF PauseAttempt, AttemptPaused, DeleteAttempt, Unindex, bounds
  <2> QED
    BY <1>3, <2>1, <2>2 DEF CommandStep
<1>4. CASE TickStep
  <2>1. CASE Reconcile
    BY <2>1, ReconcileStep DEF bounds
  <2>2. CASE Cancel
    BY <2>2 DEF Cancel, bounds
  <2>3. CASE TickEnds
    BY <2>3 DEF TickEnds, bounds
  <2>4. CASE TickCommit
    BY <2>4 DEF TickCommit, bounds
  <2>5. CASE Cleanup
    BY <2>5, CleanupStep
  <2>8. CASE ReadRetry
    BY <2>8 DEF ReadRetry, bounds
  <2>6. CASE TryRetry
    <3>1. UNCHANGED <<tracker, projection, disk, schedulerUp, attempts, runs, command, shutdown, bounds>>
      BY <2>6 DEF TryRetry
    <3> QED
      BY <3>1 DEF bounds
  <2>7. CASE DispatchTick
    <3>1. UNCHANGED <<tracker, projection, disk, scheduler, runs, lock, command, shutdown, bounds>>
      BY <2>7 DEF DispatchTick
    <3> QED
      BY <3>1 DEF bounds
  <2> QED
    BY <1>4, <2>1, <2>2, <2>3, <2>4, <2>5, <2>6, <2>7, <2>8 DEF TickStep
<1>5. CASE StopStep
  BY <1>5 DEF StopStep, StopRuns, StopJobs, Stopped, bounds
<1>6. CASE Request \/ Refresh \/ EnsureScheduler \/ Restart \/ UNCHANGED vars
  <2>1. CASE Request
    BY <2>1 DEF Request, Give, StopRequested, bounds
  <2>2. CASE EnsureScheduler
    BY <2>2, RestoreStep DEF bounds
  <2>3. CASE Refresh \/ Restart \/ UNCHANGED vars
    BY <2>3 DEF Refresh, Restart, vars, bounds
  <2> QED
    BY <1>6, <2>1, <2>2, <2>3
<1> QED
  BY <1>1, <1>2, <1>3, <1>4, <1>5, <1>6 DEF Next

\* Nobody but a restart takes away what the tables, the runs and the jobs say of each other.
LEMMA NextRight ==
  ASSUME Typed, Unpaused, IInv, [Next]_vars
  PROVE  IInv'
<1>1. ASSUME NEW t \in Tasks, JobStep(t) \/ Activity(t) \/ RetryTimer(t) \/ TrackerMoves(t)
      PROVE  IInv'
  <2>1. CASE Moving(t)
    BY <2>1, MovingRight
  <2>2. CASE Commit(t) \/ Fetch(t) \/ NotStarted(t) \/ Unreserved(t) \/ Start(t) \/ NotResumed(t)
    BY <2>2, CommitRight, FetchRight, NotStartedRight, UnreservedRight, StartRight
  <2>3. CASE Resume(t)
    BY <2>3, NeverTaken
  <2>4. CASE RetryTimer(t) \/ TrackerMoves(t)
    BY <2>4, RetryTimerRight, TrackerRight
  <2> QED
    BY <1>1, <2>1, <2>2, <2>3, <2>4 DEF JobStep, Moving
<1>2. ASSUME NEW a \in AttemptIds, TurnEnds(a) \/ Ending(a)
      PROVE  IInv'
  BY <1>2, TurnEndsRight, EndHaltRight, EndRetainedRight, EndStatusRight DEF Ending
<1>3. CASE CommandStep
  BY <1>3, NeverTaken, StartRunRight, RetryAttemptRight, SendInputRight, HandoffRight, HandedOffRight,
     ReturnControlRight,
     ReturnedRight DEF CommandStep
<1>4. CASE TickStep
  BY <1>4, ReconcileRight, CancelRight, TickEndsRight, TickCommitRight, CleanupRight, ReadRetryRight, TryRetryRight,
     DispatchRight DEF TickStep
<1>5. CASE StopStep
  BY <1>5, StopRunsRight, StopJobsRight, StoppedRight DEF StopStep
<1> QED
  BY <1>1, <1>2, <1>3, <1>4, <1>5, RequestRight, RefreshRight, EnsureSchedulerRight, RestartRight, NothingRight DEF Next

\* In a Runtime whose people neither pause nor delete Attempts the tables of the scheduler, the index
\* and the projection, the runs and the jobs speak of the same Attempts, through every step, fault,
\* stop and restart.
THEOREM TablesAgree == Spec => [](Unpaused => IInv)
<1>1. Init => (Unpaused => IInv)
  BY InitRight
<1>2. Typed /\ (Unpaused => IInv) /\ [Next]_vars => (Unpaused => IInv)'
  <2>1. SUFFICES ASSUME Typed, Unpaused => IInv, [Next]_vars, Unpaused'
                 PROVE  IInv'
    OBVIOUS
  <2>2. Unpaused
    BY <2>1, ScenarioStays DEF Unpaused
  <2> QED
    BY <2>1, <2>2, NextRight
<1> QED
  BY <1>1, <1>2, TypedInvariant, PTL DEF Spec

-----------------------------------------------------------------------------
(* What the runs check *)

\* A run with an open Turn is served by the job of its Task, and its Attempt has a place.
LEMMA OpenTurn ==
  ASSUME Typed, IInv, NEW a \in AttemptIds, runs[a] # None, runs[a].turn = "open"
  PROVE  /\ runs[a].attempt.task \in Tasks /\ Owns(jobs[runs[a].attempt.task], a)
         /\ attempts[a] # None /\ attempts[a].task = runs[a].attempt.task /\ Scheduled(a)
<1> DEFINE t == runs[a].attempt.task
<1>1. /\ Owns(jobs[t], a) /\ Where(jobs[t]) = "consume"
      /\ attempts[a] # None /\ attempts[a].task = t /\ t \in Tasks
  BY RunStands, ARun DEF RunOk, Same
<1>2. JobOk(jobs[t], runs[a], attempts[a], Awake)
  BY <1>1, JobStands DEF Owns
<1>3. attempts[a].status \in Live
  BY <1>1, <1>2 DEF JobOk, Drives, Driving
<1> QED
  BY <1>1, <1>3 DEF Scheduled

LEMMA OneTurn ==
  ASSUME Typed, IInv
  PROVE  OneTurnPerTask
<1>1. ASSUME NEW a \in AttemptIds, NEW b \in AttemptIds, runs[a] # None, runs[b] # None, runs[a].turn = "open",
             runs[b].turn = "open", runs[a].attempt.task = runs[b].attempt.task
      PROVE  a = b
  <2>1. Owns(jobs[runs[a].attempt.task], a) /\ Owns(jobs[runs[b].attempt.task], b)
    BY <1>1, OpenTurn
  <2> QED
    BY <1>1, <2>1 DEF Owns
<1> QED
  BY <1>1 DEF OneTurnPerTask

LEMMA FewTurns ==
  ASSUME Typed, IInv
  PROVE  TurnsWithinLimit
<1> DEFINE S == {a \in AttemptIds : runs[a] # None /\ runs[a].turn = "open"}
<1>1. S \subseteq ScheduledIds
  BY OpenTurn DEF ScheduledIds
<1>2. /\ IsFiniteSet(ScheduledIds) /\ Cardinality(ScheduledIds) \in Nat /\ Cardinality(S) \in Nat
  <2>1. ScheduledIds \subseteq AttemptIds /\ S \subseteq AttemptIds
    BY DEF ScheduledIds
  <2> QED
    BY <2>1, FiniteIds
<1>3. Cardinality(S) <= Cardinality(ScheduledIds)
  BY <1>1, <1>2, FS_Subset
<1>4. Cardinality(S) <= MaxAgents
  BY <1>2, <1>3, PolicyAssumption DEF IInv, TablesRight, LimitRight
<1> QED
  BY <1>4 DEF TurnsWithinLimit

LEMMA CodexKeeps ==
  ASSUME Typed, IInv
  PROVE  CodexKeepsTask
<1>1. ASSUME NEW a \in AttemptIds, attempts[a] # None, attempts[a].controller = "codex", attempts[a].status = "paused"
      PROVE  /\ claims[attempts[a].task] = a
             /\ \A b \in AttemptIds :
                  runs[b] # None /\ runs[b].attempt.task = attempts[a].task => runs[b].turn # "open"
  <2>1. claims[attempts[a].task] = a
    BY <1>1 DEF IInv, TablesRight, ClaimOk, Lives
  <2>2. ASSUME NEW b \in AttemptIds, runs[b] # None, runs[b].attempt.task = attempts[a].task, runs[b].turn = "open"
        PROVE  FALSE
    <3>1. attempts[b] # None /\ attempts[b].task = attempts[a].task /\ Scheduled(b)
      BY <2>2, OpenTurn
    <3>2. claims[attempts[b].task] = b
      BY <3>1 DEF IInv, TablesRight, ClaimOk, Lives, Scheduled
    <3>3. a = b
      BY <2>1, <3>1, <3>2
    <3> QED
      BY <1>1, <3>1, <3>3 DEF Scheduled, Live
  <2> QED
    BY <2>1, <2>2
<1> QED
  BY <1>1 DEF CodexKeepsTask

\* Jobs, the tick, retries and people start Turns one at a time: one for a Task and no more than the
\* limit on agents in all, whatever fails and however often the process restarts.
THEOREM TurnsStayExclusive == Spec => [](Unpaused => TurnsExclusive)
<1>1. Typed /\ IInv => TurnsExclusive
  BY TypedOK, OneTurn, FewTurns DEF TurnsExclusive
<1> QED
  BY <1>1, TypedInvariant, TablesAgree, PTL

\* A Task in the hands of Codex is claimed by its Attempt, and no Turn works on it.
THEOREM CodexKeepsItsTask == Spec => [](Unpaused => CodexKeepsTask)
<1>1. Typed /\ IInv => CodexKeepsTask
  BY CodexKeeps
<1> QED
  BY <1>1, TypedInvariant, TablesAgree, PTL

\* Until a shutdown reaches the runs, a run that settled leaves no worker behind, whoever ended it and
\* however far its job was; after that a worker may be opened in a run the shutdown has settled already.
THEOREM SettledRunsAreClosed == Spec => [](Unpaused /\ Awake => SettledRunsClose)
<1>1. ASSUME Typed, IInv, Awake, NEW a \in AttemptIds, runs[a] # None, runs[a].settled
      PROVE  runs[a].worker # "open"
  BY <1>1, RunStands DEF RunOk, WorkerOk
<1>2. Typed /\ IInv /\ Awake => SettledRunsClose
  BY <1>1 DEF SettledRunsClose
<1> QED
  BY <1>2, TypedInvariant, TablesAgree, PTL
=============================================================================
