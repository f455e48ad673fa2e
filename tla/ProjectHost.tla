----------------------------- MODULE ProjectHost ------------------------------
(***************************************************************************)
(* The desktop host (runtime/host): projects are added, removed and polled *)
(* while the host starts and stops. Each project has a Runtime of its own; *)
(* all polls share one queue and one timer; the catalog of the projects is *)
(* in memory and in a file.                                                *)
(*                                                                         *)
(* Every await of a call is a step of its own. A Runtime is only its state *)
(* here, and a poll something that ends, well or not. Time is a job that   *)
(* comes due.                                                              *)
(***************************************************************************)
EXTENDS Integers, Sequences, FiniteSets

CONSTANTS
  Checkouts,   \* the checkouts a person may add
  MaxIds,      \* bound: project ids
  Known,       \* projects in the registry file before the first start
  MaxRuntimes, \* bound: Runtimes, over all runs of the process
  MaxCalls,    \* bound: calls of clients
  MaxBoots     \* bound: starts of the process

VARIABLES
  phase,     \* "off", "starting", "up", "stopping" or "unmanage" (stop), "down"
  catalog,   \* the ids in memory
  file,      \* the ids in the registry file
  checkout,  \* the checkout of each id that was given out
  runtimes,  \* all Runtimes: [id, state]
  managed,   \* #projects: id -> its Runtime, or 0
  jobs,      \* polling jobs: id -> [runtime, due], runtime 0 without a job
  queue,     \* polls: [runtime, polling, swept], the first one is under way or next; a sweep waits for swept ones
  sweep,     \* #runDue: the ids it has still to look at
  timer,     \* the timer is set
  polls,     \* polling has been started
  calls,     \* the calls under way: [kind, step, id, checkout, runtime, ids]
  told,      \* history: what clients were last told about an id
  mixed,     \* history: the checkouts that two calls were about at once
  crossed,   \* history: two calls were about to write the registry file at once
  made, boots

ASSUME HostBounds == {MaxIds, MaxRuntimes, MaxCalls, MaxBoots} \subseteq Nat /\ Known \in 0..MaxIds

polling == <<jobs, queue, sweep, timer, polls>>
overlap == <<mixed, crossed>>
lists == <<catalog, file, checkout>>
hostVars == <<phase, lists, runtimes, managed, polling, calls, told, overlap, made, boots>>

Ids == 1..MaxIds
Jobs == {id \in Ids : jobs[id].runtime # 0}
NoJob == [runtime |-> 0, due |-> FALSE]
Queued(r, q) == \E i \in DOMAIN q : q[i].runtime = r
Polling(r) == queue # <<>> /\ Head(queue).polling /\ Head(queue).runtime = r

\* MUTANT: the timer looks at the jobs that are in flight.
ScheduledBug(js, q) == \E id \in Ids : js[id].runtime # 0 /\ Queued(js[id].runtime, q)

\* #schedule: there is something to wait for.
Scheduled(js, q) == \E id \in Ids : js[id].runtime # 0 /\ ~Queued(js[id].runtime, q)

Rescheduled(js, q) == timer' = (polls /\ Scheduled(js, q))

-----------------------------------------------------------------------------
(* Polling *)

\* refresh: one that is queued is joined.
Refreshed(id, q, swept) ==
  IF Queued(jobs[id].runtime, q)
  THEN [i \in DOMAIN q |-> IF q[i].runtime = jobs[id].runtime THEN [q[i] EXCEPT !.swept = @ \/ swept] ELSE q[i]]
  ELSE Append(q, [runtime |-> jobs[id].runtime, polling |-> FALSE, swept |-> swept])

\* Those who wait for the poll go on.
Polled(r) ==
  calls' = {IF call.step = "await" /\ call.runtime = r THEN [call EXCEPT !.step = "polled"] ELSE call : call \in calls}

\* The project of the poll is still registered.
StillDue(r) == polls /\ jobs[runtimes[r].id].runtime = r

\* The poll is next; it is skipped if its job has gone.
PollBegins ==
  /\ queue # <<>> /\ ~Head(queue).polling
  /\ IF StillDue(Head(queue).runtime)
     THEN queue' = [queue EXCEPT ![1].polling = TRUE] /\ UNCHANGED <<timer, calls>>
     ELSE queue' = Tail(queue) /\ Polled(Head(queue).runtime) /\ Rescheduled(jobs, Tail(queue))
  /\ UNCHANGED <<phase, lists, runtimes, managed, jobs, sweep, polls, told, overlap, made, boots>>

\* It ends, well or not or aborted; the job comes due again later.
PollEnds ==
  /\ queue # <<>> /\ Head(queue).polling
  /\ queue' = Tail(queue) /\ Polled(Head(queue).runtime)
  /\ LET id == runtimes[Head(queue).runtime].id
     IN  jobs' = IF StillDue(Head(queue).runtime) THEN [jobs EXCEPT ![id].due = FALSE] ELSE jobs
  /\ Rescheduled(jobs', queue')
  /\ UNCHANGED <<phase, lists, runtimes, managed, sweep, polls, told, overlap, made, boots>>

ComesDue(id) ==
  /\ id \in Jobs /\ ~jobs[id].due /\ ~Queued(jobs[id].runtime, queue)
  /\ jobs' = [jobs EXCEPT ![id].due = TRUE]
  /\ UNCHANGED <<phase, lists, runtimes, managed, queue, sweep, timer, polls, calls, told, overlap, made, boots>>

\* The timer: all jobs are looked at.
Fires ==
  /\ timer /\ \E id \in Jobs : jobs[id].due /\ ~Queued(jobs[id].runtime, queue)
  /\ timer' = FALSE /\ sweep' = sweep \cup Jobs
  /\ UNCHANGED <<phase, lists, runtimes, managed, jobs, queue, polls, calls, told, overlap, made, boots>>

\* #runDue: the due ones one after the other; at the end the timer is set again.
Sweeps(id) ==
  /\ id \in sweep /\ \A i \in DOMAIN queue : ~queue[i].swept
  /\ sweep' = sweep \ {id}
  /\ IF id \in Jobs /\ jobs[id].due
     THEN queue' = Refreshed(id, queue, TRUE) /\ UNCHANGED timer
     ELSE /\ UNCHANGED queue
          /\ IF sweep' = {} THEN Rescheduled(jobs, queue) ELSE UNCHANGED timer
  /\ UNCHANGED <<phase, lists, runtimes, managed, jobs, polls, calls, told, overlap, made, boots>>

-----------------------------------------------------------------------------
(* Calls *)

Called(call) ==
  /\ made < MaxCalls /\ made' = made + 1
  /\ calls' = calls \cup {call}
  /\ mixed' = mixed \cup {c \in {call.checkout} : \E other \in calls : other.checkout = c}
  /\ UNCHANGED <<phase, lists, runtimes, managed, polling, told, crossed, boots>>

CallOf(kind, step, id, c) ==
  [kind |-> kind, step |-> step, id |-> id, checkout |-> c, runtime |-> 0, ids |-> {}, n |-> made]

Listening == phase \in {"up", "stopping", "unmanage"}

Goes(call, next) == calls' = (calls \ {call}) \cup {next}
At(call, kind, step) == call \in calls /\ call.kind = kind /\ call.step = step

Existing(c) == {id \in catalog : checkout[id] = c}

\* The bound leaves room for what the calls under way take.
AddProject(c) ==
  /\ Listening /\ Called(CallOf("add", "register", 0, c))
  /\ Len(runtimes) + Cardinality(calls) < MaxRuntimes

RemoveProject(id) == Listening /\ id \in catalog /\ Called(CallOf("remove", "unmanage", id, checkout[id]))

\* registerProject: the projects are read; a known checkout has its project.
Register(call) ==
  /\ At(call, "add", "register")
  /\ IF Existing(call.checkout) # {}
     THEN \E id \in Existing(call.checkout) : Goes(call, [call EXCEPT !.step = "check", !.id = id])
     ELSE Goes(call, [call EXCEPT !.step = "create"])
  /\ UNCHANGED <<phase, lists, runtimes, managed, polling, told, overlap, made, boots>>

\* The list of projects has changed and is about to be written.
Changed(call, id) ==
  /\ Goes(call, [call EXCEPT !.step = "write", !.id = id, !.ids = catalog'])
  /\ crossed' = (crossed \/ \E other \in calls : other.step = "write") /\ UNCHANGED mixed

\* Another one is given an id, or none can be allocated, and the call fails.
Create(call) ==
  /\ At(call, "add", "create")
  /\ \/ /\ Len(checkout) < MaxIds /\ checkout' = Append(checkout, call.checkout)
        /\ catalog' = catalog \cup {Len(checkout) + 1}
        /\ Changed(call, Len(checkout) + 1)
     \/ calls' = calls \ {call} /\ UNCHANGED <<catalog, checkout, overlap>>
  /\ UNCHANGED <<phase, file, runtimes, managed, polling, told, made, boots>>

\* MUTANT: the list of before is written.
WrittenBug(call) == call.ids \ {call.id}

\* The registry file gets the list as it was when it was changed.
Written(call) == call.ids

WriteAdded(call) ==
  /\ At(call, "add", "write")
  /\ file' = Written(call)
  /\ Goes(call, [call EXCEPT !.step = "check"])
  /\ UNCHANGED <<phase, catalog, checkout, runtimes, managed, polling, told, overlap, made, boots>>

Tell(call, answer) ==
  calls' = calls \ {call} /\ told' = [told EXCEPT ![call.id] = answer]

\* MUTANT: the project is started although it runs.
NeedsRuntimeBug(id) == Listening

\* #started, and there is no Runtime of this project.
NeedsRuntime(id) == Listening /\ managed[id] = 0

\* #startProject, up to its first await.
CreateRuntime(call) ==
  /\ At(call, "add", "check")
  /\ IF NeedsRuntime(call.id)
     THEN /\ runtimes' = Append(runtimes, [id |-> call.id, state |-> "starting"])
          /\ Goes(call, [call EXCEPT !.step = "start", !.runtime = Len(runtimes) + 1])
          /\ UNCHANGED told
     ELSE Tell(call, "added") /\ UNCHANGED runtimes
  /\ UNCHANGED <<phase, lists, managed, polling, overlap, made, boots>>

\* A Runtime has started: it is registered for polling, which may need the timer, and managed.
Manage(id, r) ==
  /\ runtimes' = [runtimes EXCEPT ![r].state = "running"]
  /\ managed' = [managed EXCEPT ![id] = r]
  /\ jobs' = [jobs EXCEPT ![id] = [runtime |-> r, due |-> TRUE]]
  /\ Rescheduled(jobs', queue)

\* The rest of #startProject; a project that is registered for polling is refused.
StartRuntime(call) ==
  /\ At(call, "add", "start")
  /\ IF jobs[call.id].runtime = 0
     THEN Manage(call.id, call.runtime) /\ Goes(call, [call EXCEPT !.step = "refresh"])
     ELSE /\ runtimes' = [runtimes EXCEPT ![call.runtime].state = "running"]
          /\ calls' = calls \ {call}
          /\ UNCHANGED <<managed, jobs, timer>>
  /\ UNCHANGED <<phase, lists, queue, sweep, polls, told, overlap, made, boots>>

\* createRuntime or its start fails: the call does, and the project stays in the catalog.
StartFails(call) ==
  /\ At(call, "add", "start")
  /\ runtimes' = [runtimes EXCEPT ![call.runtime].state = "failed"]
  /\ calls' = calls \ {call}
  /\ UNCHANGED <<phase, lists, managed, polling, told, overlap, made, boots>>

\* The first poll of the project, which is waited for.
RefreshAdded(call) ==
  /\ At(call, "add", "refresh")
  /\ IF call.id \in Jobs
     THEN /\ queue' = Refreshed(call.id, queue, FALSE)
          /\ Goes(call, [call EXCEPT !.step = "await", !.runtime = jobs[call.id].runtime])
     ELSE calls' = calls \ {call} /\ UNCHANGED queue
  /\ UNCHANGED <<phase, lists, runtimes, managed, jobs, sweep, timer, polls, told, overlap, made, boots>>

\* It has ended, well or not: the client hears of the project or of an error.
Added(call) ==
  /\ At(call, "add", "polled")
  /\ \/ Tell(call, "added")
     \/ calls' = calls \ {call} /\ UNCHANGED told
  /\ UNCHANGED <<phase, lists, runtimes, managed, polling, overlap, made, boots>>

\* removeProject: no poll and no event any more, then the Runtime is stopped.
Unmanage(call) ==
  /\ At(call, "remove", "unmanage")
  /\ LET r == managed[call.id]
     IN  IF r = 0
         THEN Goes(call, [call EXCEPT !.step = "drop"]) /\ UNCHANGED <<runtimes, jobs, timer>>
         ELSE /\ jobs' = [jobs EXCEPT ![call.id] = NoJob] /\ Rescheduled(jobs', queue)
              /\ runtimes' = [runtimes EXCEPT ![r].state = "stopping"]
              /\ Goes(call, [call EXCEPT !.step = "stop", !.runtime = r])
  /\ UNCHANGED <<phase, lists, managed, queue, sweep, polls, told, overlap, made, boots>>

\* RuntimeService.stop waits for a synchronization that is under way.
MayStop(r) == ~Polling(r)

StopRuntime(call) ==
  /\ At(call, "remove", "stop") /\ MayStop(call.runtime)
  /\ runtimes' = [runtimes EXCEPT ![call.runtime].state = "stopped"]
  /\ managed' = [managed EXCEPT ![call.id] = 0]
  /\ Goes(call, [call EXCEPT !.step = "drop"])
  /\ UNCHANGED <<phase, lists, polling, told, overlap, made, boots>>

\* It leaves the catalog, unless it has left it before.
Drop(call) ==
  /\ At(call, "remove", "drop")
  /\ IF call.id \in catalog
     THEN catalog' = catalog \ {call.id} /\ Changed(call, call.id)
     ELSE calls' = calls \ {call} /\ UNCHANGED <<catalog, overlap>>
  /\ UNCHANGED <<phase, file, checkout, runtimes, managed, polling, told, made, boots>>

WriteRemoved(call) ==
  /\ At(call, "remove", "write")
  /\ file' = Written(call)
  /\ Tell(call, "removed")
  /\ UNCHANGED <<phase, catalog, checkout, runtimes, managed, polling, overlap, made, boots>>

-----------------------------------------------------------------------------
(* The process *)

\* start: the catalog is read.
Boot ==
  /\ phase = "off" /\ boots < MaxBoots
  /\ phase' = "starting" /\ boots' = boots + 1 /\ catalog' = file
  /\ UNCHANGED <<file, checkout, runtimes, managed, polling, calls, told, overlap, made>>

\* One project after the other; a failure ends the process.
BootProject(id) ==
  /\ phase = "starting" /\ id \in catalog /\ managed[id] = 0 /\ Len(runtimes) < MaxRuntimes
  /\ \A other \in catalog : other < id => managed[other] # 0
  /\ runtimes' = Append(runtimes, [id |-> id, state |-> "running"])
  /\ managed' = [managed EXCEPT ![id] = Len(runtimes) + 1]
  /\ jobs' = [jobs EXCEPT ![id] = [runtime |-> Len(runtimes) + 1, due |-> TRUE]]
  /\ UNCHANGED <<phase, lists, queue, sweep, timer, polls, calls, told, overlap, made, boots>>

\* Polling starts with a poll of every project, which start waits for.
BootPolls ==
  /\ phase = "starting" /\ ~polls /\ \A id \in catalog : managed[id] # 0
  /\ polls' = TRUE /\ sweep' = Jobs /\ timer' = (Jobs = {} /\ Scheduled(jobs, queue))
  /\ UNCHANGED <<phase, lists, runtimes, managed, jobs, queue, calls, told, overlap, made, boots>>

Booted ==
  /\ phase = "starting" /\ polls /\ sweep = {} /\ queue = <<>>
  /\ phase' = "up"
  /\ UNCHANGED <<lists, runtimes, managed, polling, calls, told, overlap, made, boots>>

\* stop: no poll begins any more; the queue is waited for.
StopHost ==
  /\ phase = "up"
  /\ phase' = "stopping" /\ polls' = FALSE /\ timer' = FALSE /\ sweep' = {}
  /\ UNCHANGED <<lists, runtimes, managed, jobs, queue, calls, told, overlap, made, boots>>

\* Then all Runtimes that are managed by now are stopped.
StopAll ==
  /\ phase = "stopping" /\ queue = <<>>
  /\ phase' = "unmanage"
  /\ jobs' = [id \in Ids |-> IF managed[id] = 0 THEN jobs[id] ELSE NoJob]
  /\ runtimes' = [r \in DOMAIN runtimes |->
       IF managed[runtimes[r].id] = r THEN [runtimes[r] EXCEPT !.state = "stopping"] ELSE runtimes[r]]
  /\ UNCHANGED <<lists, managed, queue, sweep, timer, polls, calls, told, overlap, made, boots>>

Stopped ==
  /\ phase = "unmanage" /\ \A r \in DOMAIN runtimes : Polling(r) => MayStop(r)
  /\ phase' = "down"
  /\ runtimes' = [r \in DOMAIN runtimes |->
       IF runtimes[r].state = "stopping" THEN [runtimes[r] EXCEPT !.state = "stopped"] ELSE runtimes[r]]
  /\ managed' = [id \in Ids |-> 0]
  /\ UNCHANGED <<lists, polling, calls, told, overlap, made, boots>>

\* The process ends: after a stop, by a crash, or because a project did not start.
Ends ==
  /\ phase # "off" /\ boots < MaxBoots
  /\ phase' = "off" /\ catalog' = {} /\ calls' = {}
  /\ runtimes' = [r \in DOMAIN runtimes |-> [runtimes[r] EXCEPT !.state = "gone"]]
  /\ managed' = [id \in Ids |-> 0] /\ jobs' = [id \in Ids |-> NoJob]
  /\ queue' = <<>> /\ sweep' = {} /\ timer' = FALSE /\ polls' = FALSE
  /\ told' = [id \in Ids |-> IF \E call \in calls : call.id = id THEN "unknown" ELSE told[id]]
  /\ UNCHANGED <<file, checkout, overlap, made, boots>>

-----------------------------------------------------------------------------
HostInit ==
  /\ phase = "off" /\ catalog = {} /\ runtimes = <<>>
  /\ checkout \in [1..Known -> Checkouts] /\ file = 1..Known
  /\ managed = [id \in Ids |-> 0] /\ jobs = [id \in Ids |-> NoJob]
  /\ queue = <<>> /\ sweep = {} /\ timer = FALSE /\ polls = FALSE /\ mixed = {} /\ crossed = FALSE
  /\ calls = {} /\ told = [id \in Ids |-> "unknown"] /\ made = 0 /\ boots = 0

Steps(call) ==
  \/ Register(call) \/ Create(call) \/ WriteAdded(call) \/ CreateRuntime(call) \/ StartRuntime(call)
  \/ RefreshAdded(call) \/ Added(call)
  \/ Unmanage(call) \/ StopRuntime(call) \/ Drop(call) \/ WriteRemoved(call)

Polls == PollBegins \/ PollEnds \/ Fires \/ \E id \in Ids : ComesDue(id) \/ Sweeps(id)

Stops == StopAll \/ Stopped

HostNext ==
  \/ Polls \/ Stops
  \/ \E call \in calls : Steps(call) \/ StartFails(call)
  \/ \E c \in Checkouts : AddProject(c)
  \/ \E id \in Ids : RemoveProject(id) \/ BootProject(id)
  \/ Boot \/ BootPolls \/ Booted \/ StopHost \/ Ends

\* Timers fire and what was called goes on; a poll ends, because the Tracker answers or it is aborted.
\* A sweep passes its projects in order and does not start again before its end: strong fairness.
HostFairness ==
  /\ WF_hostVars(PollBegins) /\ WF_hostVars(PollEnds) /\ WF_hostVars(Fires) /\ WF_hostVars(Stops)
  /\ \A id \in Ids : WF_hostVars(ComesDue(id)) /\ SF_hostVars(Sweeps(id))
  /\ WF_hostVars(\E call \in calls : Steps(call))

HostSpec == HostInit /\ [][HostNext]_hostVars /\ HostFairness

-----------------------------------------------------------------------------
(* Properties *)

\* Every variable keeps its type, and what is managed is a Runtime of the project.
HostTypeOK ==
  /\ phase \in {"off", "starting", "up", "stopping", "unmanage", "down"}
  /\ catalog \subseteq DOMAIN checkout /\ file \subseteq DOMAIN checkout
  /\ \A id \in Ids :
       /\ managed[id] # 0 => managed[id] \in DOMAIN runtimes /\ runtimes[managed[id]].id = id
       /\ jobs[id].runtime # 0 => runtimes[jobs[id].runtime].id = id
  /\ \A i \in DOMAIN queue : queue[i].polling => i = 1
  /\ timer \in BOOLEAN /\ sweep \subseteq Ids

\* A poll writes only into the log of a Runtime that has not stopped: a removal or a stop that
\* finds a poll queued or under way skips it or waits for it.
PollsLiveRuntime ==
  \A r \in DOMAIN runtimes : Polling(r) => runtimes[r].state \in {"running", "stopping"}

\* No two calls were about the checkout of this project at once.
Alone(id) == checkout[id] \notin mixed

\* No two Runtimes work on the data of one project, unless two calls were about it at once.
OneRuntime ==
  \A r, s \in DOMAIN runtimes :
    /\ runtimes[r].id = runtimes[s].id /\ Alone(runtimes[r].id)
    /\ {runtimes[r].state, runtimes[s].state} \subseteq {"starting", "running", "stopping"}
    => r = s

\* What a client was told about its project is what the next start of the process finds.
CatalogKept ==
  \A id \in Ids :
    id \in DOMAIN checkout /\ Alone(id) /\ ~crossed /\ (\A call \in calls : call.id # id) =>
      /\ told[id] = "added" => id \in file
      /\ told[id] = "removed" => id \notin file

\* A project is polled again and again until it is removed or the process stops, whatever other
\* projects do: the shared timer and the shared queue forget nobody.
PolledAgain ==
  \A id \in Ids : id \in Jobs /\ phase = "up" ~> Polling(jobs[id].runtime) \/ id \notin Jobs \/ phase # "up"

\* Every call is answered, and stop returns.
CallsReturn ==
  /\ \A kind \in {"add", "remove"} : (\E call \in calls : call.kind = kind) ~> ~\E call \in calls : call.kind = kind
  /\ phase = "stopping" ~> phase \in {"down", "off"}

\* A project has one Runtime at work, and only a Runtime that has not stopped is polled.
RuntimesExclusive == HostTypeOK /\ OneRuntime /\ PollsLiveRuntime

\* Polling and calls go on together although they share one queue: a removal waits for the poll
\* of its project, an add for its first poll, and neither keeps the timer from being set again.
EverythingGoesOn == PolledAgain /\ CallsReturn

=============================================================================
