----------------------------- MODULE HostProofs ------------------------------
(***************************************************************************)
(* Proofs about the desktop host, for every value of the constants: which  *)
(* Runtimes it starts (ProjectHost), then how their events reach a         *)
(* workbench (EventStream).                                                *)
(*                                                                         *)
(* Only a Runtime that has not stopped is polled, and a project has one    *)
(* Runtime at work unless two calls were about its checkout at once        *)
(* (RuntimesExclusive), for any number of projects, Runtimes, overlapping  *)
(* calls and starts of the process.                                        *)
(*                                                                         *)
(* Not to be managed is not to be at work only because every Runtime at    *)
(* work is managed or belongs to the call that starts it (WorkingRight),   *)
(* and because a call that starts or stops a Runtime finds its project as  *)
(* it has left it, whatever the calls about other projects do (CallRight,  *)
(* OthersKept).                                                            *)
(*                                                                         *)
(* What clients are told is what the registry says (CatalogKept) unless    *)
(* two calls were about one checkout or about to write at once, because a  *)
(* list is written as it is in memory, and memory and the registry differ  *)
(* only while a call is about to write (RegistryRight).                    *)
(*                                                                         *)
(* The host lists and the workbench receives each event once (EachOnce),   *)
(* and no command is accepted on an old view (CommandSeesCurrent).         *)
(***************************************************************************)
EXTENDS ProjectHost, EventStream, FiniteSetTheorems, TLAPS

Phases == {"off", "starting", "up", "stopping", "unmanage", "down"}
Working == {"starting", "running", "stopping"}
RuntimeStates == Working \cup {"stopped", "failed", "gone"}
RuntimeRecord == [id : Ids, state : RuntimeStates]
JobRecord == [runtime : Nat, due : BOOLEAN]
PollRecord == [runtime : Nat, polling : BOOLEAN, swept : BOOLEAN]
CallSteps ==
  {"register", "create", "write", "check", "start", "refresh", "await", "polled", "unmanage", "stop", "drop"}
CallRecord ==
  [kind : {"add", "remove"}, step : CallSteps, id : 0..MaxIds, checkout : Checkouts, runtime : Nat,
   ids : SUBSET Nat, n : Nat]

CatalogRight ==
  /\ checkout \in Seq(Checkouts) /\ Len(checkout) <= MaxIds
  /\ catalog \subseteq DOMAIN checkout /\ file \subseteq DOMAIN checkout

\* What was given out stays, and who was not alone stays so.
Grows ==
  /\ DOMAIN checkout \subseteq DOMAIN checkout' /\ \A id \in DOMAIN checkout : checkout'[id] = checkout[id]
  /\ mixed \subseteq mixed'

\* The call that starts a Runtime.
Starts(r) == \E call \in calls : call.step = "start" /\ call.runtime = r

ManagedRight ==
  \A id \in Ids : managed[id] # 0 =>
    /\ managed[id] \in DOMAIN runtimes /\ runtimes[managed[id]].id = id
    /\ runtimes[managed[id]].state \in {"running", "stopping"}

JobsRight ==
  \A id \in Ids : jobs[id].runtime # 0 =>
    /\ jobs[id].runtime \in DOMAIN runtimes /\ runtimes[jobs[id].runtime].id = id
    /\ runtimes[jobs[id].runtime].state = "running"
    /\ phase # "down" /\ Alone(id) => managed[id] = jobs[id].runtime

\* A Runtime at work is managed, or its call has not managed it yet.
WorkingRight ==
  phase # "down" =>
    \A r \in DOMAIN runtimes :
      runtimes[r].state \in Working /\ Alone(runtimes[r].id) => managed[runtimes[r].id] = r \/ Starts(r)

RuntimesRight ==
  /\ phase \in Phases
  /\ runtimes \in Seq(RuntimeRecord) /\ \A r \in DOMAIN runtimes : runtimes[r].id \in DOMAIN checkout
  /\ managed \in [Ids -> Nat] /\ jobs \in [Ids -> JobRecord]
  /\ ManagedRight /\ JobsRight /\ WorkingRight /\ OneRuntime

QueueRight ==
  /\ queue \in Seq(PollRecord)
  /\ \A i \in DOMAIN queue : queue[i].runtime \in DOMAIN runtimes /\ (queue[i].polling => i = 1)
  /\ PollsLiveRuntime
  /\ sweep \subseteq Ids /\ timer \in BOOLEAN

\* What a call has made of its project is still there, unless there was another call about it.
CallRight(call) ==
  /\ call.step \notin {"register", "create"} =>
       call.id \in Ids /\ call.id \in DOMAIN checkout /\ checkout[call.id] = call.checkout
  /\ call.step = "write" => call.ids \subseteq DOMAIN checkout
  /\ call.step = "start" =>
       /\ call.runtime \in DOMAIN runtimes /\ runtimes[call.runtime].id = call.id
       /\ runtimes[call.runtime].state = "starting"
       /\ Alone(call.id) => managed[call.id] = 0 /\ jobs[call.id].runtime = 0
  /\ call.step = "stop" =>
       /\ call.runtime \in DOMAIN runtimes /\ runtimes[call.runtime].id = call.id
       /\ runtimes[call.runtime].state \in {"stopping", "stopped"}
       /\ Alone(call.id) => jobs[call.id].runtime = 0 /\ (phase # "down" => managed[call.id] = call.runtime)

\* Two calls about one checkout are remembered, and each starts a Runtime of its own.
Apart(c, d) ==
  /\ c.checkout = d.checkout => c.checkout \in mixed
  /\ c.step = "start" /\ d.step = "start" => c.runtime # d.runtime

CallsRight ==
  /\ calls \subseteq CallRecord /\ made \in Nat
  /\ \A c, d \in calls : c # d => Apart(c, d)
  /\ \A call \in calls : CallRight(call)
  /\ phase \in {"off", "starting"} => calls = {}

HostInv == CatalogRight /\ RuntimesRight /\ QueueRight /\ CallsRight

-----------------------------------------------------------------------------
(* Sequences *)

\* A sequence changed at its indices only is a sequence of the same length.
LEMMA SameLength ==
  ASSUME NEW S, NEW s \in Seq(S), NEW T, NEW f, f = [i \in DOMAIN s |-> f[i]], \A i \in DOMAIN s : f[i] \in T
  PROVE  f \in Seq(T) /\ Len(f) = Len(s) /\ DOMAIN f = DOMAIN s
<1>1. DOMAIN s = 1..Len(s) /\ Len(s) \in Nat
  OBVIOUS
<1>2. f \in [1..Len(s) -> T] /\ DOMAIN f = 1..Len(s)
  BY <1>1
<1>3. f \in Seq(T)
  BY <1>1, <1>2
<1>4. Len(f) = Len(s)
  BY <1>1, <1>2, <1>3
<1> QED
  BY <1>1, <1>2, <1>3, <1>4

LEMMA Elements ==
  ASSUME NEW S, NEW s \in Seq(S)
  PROVE  (\A i \in DOMAIN s : s[i] \in S) /\ DOMAIN s = 1..Len(s) /\ Len(s) \in Nat
OBVIOUS

\* The first of a sequence leaves it.
LEMMA TailOf ==
  ASSUME NEW S, NEW s \in Seq(S), s # <<>>
  PROVE  /\ Head(s) = s[1] /\ 1 \in DOMAIN s
         /\ Tail(s) \in Seq(S) /\ \A i \in DOMAIN Tail(s) : i + 1 \in DOMAIN s /\ Tail(s)[i] = s[i + 1]
OBVIOUS

\* A Runtime changes its state.
LEMMA StateSet ==
  ASSUME runtimes \in Seq(RuntimeRecord), NEW r \in DOMAIN runtimes, NEW state \in RuntimeStates,
         runtimes' = [runtimes EXCEPT ![r].state = state]
  PROVE  /\ runtimes' \in Seq(RuntimeRecord) /\ DOMAIN runtimes' = DOMAIN runtimes
         /\ runtimes'[r].id = runtimes[r].id /\ runtimes'[r].state = state
         /\ \A s \in DOMAIN runtimes \ {r} : runtimes'[s] = runtimes[s]
         /\ \A s \in DOMAIN runtimes : runtimes'[s].id = runtimes[s].id
<1>1. \A s \in DOMAIN runtimes : runtimes[s] \in RuntimeRecord
  BY Elements
<1>2. runtimes' = [s \in DOMAIN runtimes |-> runtimes'[s]] /\ runtimes'[r] = [runtimes[r] EXCEPT !.state = state]
      /\ \A s \in DOMAIN runtimes \ {r} : runtimes'[s] = runtimes[s]
  OBVIOUS
<1>3. runtimes'[r].id = runtimes[r].id /\ runtimes'[r].state = state /\ runtimes'[r] \in RuntimeRecord
  BY <1>1, <1>2 DEF RuntimeRecord
<1>4. runtimes' \in Seq(RuntimeRecord) /\ DOMAIN runtimes' = DOMAIN runtimes
  BY <1>1, <1>2, <1>3, SameLength
<1> QED
  BY <1>2, <1>3, <1>4

LEMMA RuntimeTyped ==
  ASSUME runtimes \in Seq(RuntimeRecord), NEW r \in DOMAIN runtimes
  PROVE  runtimes[r] \in RuntimeRecord /\ runtimes[r].id \in Ids
<1>1. runtimes[r] \in RuntimeRecord
  BY Elements
<1> QED
  BY <1>1 DEF RuntimeRecord

\* A new Runtime.
LEMMA RuntimeAdded ==
  ASSUME runtimes \in Seq(RuntimeRecord), NEW id \in Ids, NEW state \in RuntimeStates,
         runtimes' = Append(runtimes, [id |-> id, state |-> state])
  PROVE  \E r \in Nat \ {0} :
           /\ r = Len(runtimes) + 1 /\ r \notin DOMAIN runtimes
           /\ runtimes' \in Seq(RuntimeRecord) /\ DOMAIN runtimes' = DOMAIN runtimes \cup {r}
           /\ runtimes'[r].id = id /\ runtimes'[r].state = state
           /\ \A s \in DOMAIN runtimes : runtimes'[s] = runtimes[s]
<1>1. PICK new : new = [id |-> id, state |-> state]
  OBVIOUS
<1>2. new \in RuntimeRecord /\ new.id = id /\ new.state = state
  BY <1>1 DEF RuntimeRecord
<1>3. PICK r \in Nat \ {0} : r = Len(runtimes) + 1
  OBVIOUS
<1>4. /\ runtimes' \in Seq(RuntimeRecord) /\ DOMAIN runtimes' = DOMAIN runtimes \cup {r} /\ r \notin DOMAIN runtimes
      /\ runtimes'[r] = new /\ \A s \in DOMAIN runtimes : runtimes'[s] = runtimes[s]
  BY <1>1, <1>2, <1>3
<1> QED
  BY <1>2, <1>3, <1>4

-----------------------------------------------------------------------------
(* What steps share *)

LEMMA CatalogSame ==
  ASSUME CatalogRight, UNCHANGED lists
  PROVE  CatalogRight'
BY DEF CatalogRight, lists

LEMMA Still ==
  ASSUME UNCHANGED <<lists, overlap>>
  PROVE  Grows
BY DEF Grows, lists, overlap

\* Who is alone was alone.
LEMMA WasAlone ==
  ASSUME Grows, NEW id \in DOMAIN checkout
  PROVE  id \in DOMAIN checkout' /\ checkout'[id] = checkout[id] /\ (Alone(id)' => Alone(id))
BY DEF Grows, Alone

\* A call among others.
LEMMA OneCall ==
  ASSUME CallsRight, NEW call \in calls
  PROVE  call \in CallRecord /\ CallRight(call) /\ phase \notin {"off", "starting"}
BY DEF CallsRight

\* The other calls stay right.
OthersRight(call) == \A other \in calls \ {call} : CallRight(other)'

\* It starts no Runtime that another one starts.
StartsOwn(call, next) ==
  next.step = "start" => \A other \in calls \ {call} : other.step = "start" => other.runtime # next.runtime

\* It goes on.
LEMMA CallGoes ==
  ASSUME CallsRight, NEW call \in calls, NEW next \in CallRecord, Goes(call, next), CallRight(next)', OthersRight(call),
         next.checkout = call.checkout, StartsOwn(call, next), mixed \subseteq mixed',
         phase' \notin {"off", "starting"}, UNCHANGED made
  PROVE  CallsRight'
<1>1. calls' = (calls \ {call}) \cup {next}
  BY DEF Goes
<1>2. calls' \subseteq CallRecord /\ made' \in Nat
  BY <1>1 DEF CallsRight
<1>3. \A c \in calls' : CallRight(c)'
  BY <1>1 DEF OthersRight
<1>4. ASSUME NEW other \in calls \ {call}
      PROVE  /\ other.checkout = next.checkout => next.checkout \in mixed'
             /\ other.step = "start" /\ next.step = "start" => other.runtime # next.runtime
  BY <1>4 DEF CallsRight, Apart, StartsOwn
<1>5. ASSUME NEW c \in calls', NEW d \in calls', c # d
      PROVE  Apart(c, d)'
  <2>1. CASE c = next
    BY <1>1, <1>4, <1>5, <2>1 DEF Apart
  <2>2. CASE d = next
    BY <1>1, <1>4, <1>5, <2>2 DEF Apart
  <2>3. CASE c # next /\ d # next
    BY <1>1, <1>5, <2>3 DEF Apart, CallsRight
  <2> QED
    BY <2>1, <2>2, <2>3
<1> QED
  BY <1>2, <1>3, <1>5 DEF CallsRight

\* It is answered.
LEMMA CallEnds ==
  ASSUME CallsRight, NEW call \in calls, calls' = calls \ {call}, OthersRight(call), mixed \subseteq mixed',
         UNCHANGED <<made, phase>>
  PROVE  CallsRight'
<1>1. \A c \in calls' : CallRight(c)'
  BY DEF OthersRight
<1>2. \A c, d \in calls' : c # d => Apart(c, d)'
  BY DEF CallsRight, Apart
<1> QED
  BY <1>1, <1>2 DEF CallsRight

\* No call: nothing to be kept.
LEMMA NoCalls ==
  ASSUME CallsRight, calls' = {}, made' \in Nat
  PROVE  CallsRight'
BY DEF CallsRight

\* A call stays right if its Runtime does, and what manages it unless it was not alone.
LEMMA CallSame ==
  ASSUME NEW call, CallRight(call), Grows, UNCHANGED phase,
         \A r \in DOMAIN runtimes : r \in DOMAIN runtimes' /\ runtimes'[r].id = runtimes[r].id
           /\ (runtimes[r].state \in {"stopping", "stopped"} => runtimes'[r].state \in {"stopping", "stopped"}),
         call.step = "start" => runtimes'[call.runtime].state = "starting",
         call.id \in Ids /\ Alone(call.id) =>
           managed'[call.id] = managed[call.id] /\ jobs'[call.id].runtime = jobs[call.id].runtime
  PROVE  CallRight(call)'
<1>1. call.step \notin {"register", "create"} =>
        call.id \in DOMAIN checkout' /\ checkout'[call.id] = checkout[call.id] /\ (Alone(call.id)' => Alone(call.id))
  BY WasAlone DEF CallRight
<1>2. call.step = "write" => call.ids \subseteq DOMAIN checkout'
  BY DEF CallRight, Grows
<1>3. call.step = "start" =>
       /\ call.runtime \in DOMAIN runtimes' /\ runtimes'[call.runtime].id = call.id
       /\ Alone(call.id)' => managed'[call.id] = 0 /\ jobs'[call.id].runtime = 0
  BY <1>1 DEF CallRight
<1>4. call.step = "stop" =>
       /\ call.runtime \in DOMAIN runtimes' /\ runtimes'[call.runtime].id = call.id
       /\ runtimes'[call.runtime].state \in {"stopping", "stopped"}
       /\ Alone(call.id)' => jobs'[call.id].runtime = 0 /\ (phase # "down" => managed'[call.id] = call.runtime)
  BY <1>1 DEF CallRight
<1> QED
  BY <1>1, <1>2, <1>3, <1>4 DEF CallRight

\* Steps that leave Runtimes, what manages them and what was given out alone keep every call right.
LEMMA CallKept ==
  ASSUME CallsRight, Grows, UNCHANGED <<phase, runtimes, managed>>,
         \A id \in Ids : jobs'[id].runtime = jobs[id].runtime, NEW call, CallRight(call)
  PROVE  CallRight(call)'
BY CallSame DEF CallRight

LEMMA CallsSame ==
  ASSUME CallsRight, UNCHANGED <<calls, made, lists, overlap, phase, runtimes, managed>>,
         \A id \in Ids : jobs'[id].runtime = jobs[id].runtime
  PROVE  CallsRight'
<1>1. \A call \in calls' : CallRight(call)'
  BY Still, CallKept DEF CallsRight
<1>2. \A c, d \in calls' : c # d => Apart(c, d)'
  BY DEF CallsRight, Apart, overlap
<1> QED
  BY <1>1, <1>2 DEF CallsRight

\* A call that is about a project that no other one is about.
LEMMA OtherProject ==
  ASSUME CallsRight, NEW call \in calls, NEW other \in calls \ {call}, call.step \notin {"register", "create"},
         other.step \notin {"register", "create"}, Alone(other.id)
  PROVE  other.id # call.id
<1>1. Apart(call, other) /\ CallRight(call) /\ CallRight(other)
  BY DEF CallsRight
<1> QED
  BY <1>1 DEF Apart, CallRight, Alone

\* A step of one call that changes only the Runtime of its project keeps the other ones right.
LEMMA OthersKept ==
  ASSUME CallsRight, Grows, NEW call \in calls, UNCHANGED phase, call.step \notin {"register", "create"},
         \A r \in DOMAIN runtimes : r \in DOMAIN runtimes' /\ runtimes'[r].id = runtimes[r].id
           /\ (runtimes[r].state \in {"stopping", "stopped"} => runtimes'[r].state \in {"stopping", "stopped"}),
         \A other \in calls \ {call} : other.step = "start" => runtimes'[other.runtime].state = "starting",
         \A id \in Ids \ {call.id} : managed'[id] = managed[id] /\ jobs'[id].runtime = jobs[id].runtime
  PROVE  OthersRight(call)
<1>1. ASSUME NEW other \in calls \ {call}
      PROVE  CallRight(other)'
  <2>1. CallRight(other)
    BY DEF CallsRight
  <2>2. CASE other.step \in {"register", "create"}
    BY <2>2 DEF CallRight
  <2>3. CASE other.step \notin {"register", "create"}
    <3>1. other.id \in Ids /\ Alone(other.id) => other.id # call.id
      BY <2>3, OtherProject
    <3> QED
      BY <2>1, <3>1, CallSame
  <2> QED
    BY <2>2, <2>3
<1> QED
  BY <1>1 DEF OthersRight

\* Steps that leave Runtimes alone and start or give up the start of none.
LEMMA RuntimesSame ==
  ASSUME RuntimesRight, Grows, UNCHANGED <<phase, runtimes, managed>>, jobs' \in [Ids -> JobRecord],
         \A id \in Ids : jobs'[id].runtime = jobs[id].runtime,
         \A r \in DOMAIN runtimes : Starts(r) => Starts(r)'
  PROVE  RuntimesRight'
<1>1. \A r \in DOMAIN runtimes : runtimes[r].id \in DOMAIN checkout' /\ (Alone(runtimes[r].id)' => Alone(runtimes[r].id))
  BY WasAlone DEF RuntimesRight
<1>2. ManagedRight'
  BY DEF RuntimesRight, ManagedRight
<1>3. JobsRight'
  BY <1>1 DEF RuntimesRight, JobsRight
<1>4. OneRuntime'
  BY <1>1 DEF RuntimesRight, OneRuntime
<1>5. WorkingRight'
  BY <1>1 DEF RuntimesRight, WorkingRight
<1> QED
  BY <1>1, <1>2, <1>3, <1>4, <1>5 DEF RuntimesRight

LEMMA QueueSame ==
  ASSUME QueueRight, UNCHANGED <<queue, sweep>>, timer' \in BOOLEAN, DOMAIN runtimes \subseteq DOMAIN runtimes',
         \A r \in DOMAIN runtimes : Polling(r) => runtimes'[r].state \in {"running", "stopping"}
  PROVE  QueueRight'
<1>1. ASSUME NEW r \in DOMAIN runtimes', Polling(r)'
      PROVE  runtimes'[r].state \in {"running", "stopping"}
  <2>1. queue # <<>> /\ Head(queue).runtime = r /\ Polling(r)
    BY <1>1 DEF Polling
  <2>2. r \in DOMAIN runtimes
    BY <2>1, TailOf DEF QueueRight
  <2> QED
    BY <2>1, <2>2
<1> QED
  BY <1>1 DEF QueueRight, PollsLiveRuntime

LEMMA TimerBoolean ==
  ASSUME NEW js, NEW q, Rescheduled(js, q)
  PROVE  timer' \in BOOLEAN
BY DEF Rescheduled

-----------------------------------------------------------------------------
(* Polling: one lemma for each of its steps *)

\* The polls after the first one.
LEMMA TailRight ==
  ASSUME QueueRight, queue # <<>>
  PROVE  /\ Tail(queue) \in Seq(PollRecord)
         /\ \A i \in DOMAIN Tail(queue) : Tail(queue)[i].runtime \in DOMAIN runtimes /\ ~Tail(queue)[i].polling
<1>1. queue \in Seq(PollRecord)
  BY DEF QueueRight
<1>2. Tail(queue) \in Seq(PollRecord) /\ \A i \in DOMAIN Tail(queue) : i + 1 \in DOMAIN queue /\ Tail(queue)[i] = queue[i + 1]
  BY <1>1, TailOf
<1>3. \A i \in DOMAIN Tail(queue) : i + 1 # 1
  BY <1>2, Elements
<1> QED
  BY <1>2, <1>3 DEF QueueRight

\* The queue after a poll has left it: nothing is polled.
LEMMA QueueTail ==
  ASSUME QueueRight, queue # <<>>, queue' = Tail(queue), UNCHANGED runtimes, sweep' \subseteq Ids, timer' \in BOOLEAN
  PROVE  QueueRight'
<1>1. queue' \in Seq(PollRecord) /\ \A i \in DOMAIN queue' : queue'[i].runtime \in DOMAIN runtimes /\ ~queue'[i].polling
  BY TailRight
<1>2. \A r \in DOMAIN runtimes' : ~Polling(r)'
  <2>1. ASSUME queue' # <<>>
        PROVE  ~Head(queue').polling
    BY <1>1, <2>1, TailOf
  <2> QED
    BY <2>1 DEF Polling
<1> QED
  BY <1>1, <1>2 DEF QueueRight, PollsLiveRuntime

\* Those who waited go on; nothing else of the calls changes.
LEMMA CallsPolled ==
  ASSUME CallsRight, NEW r, Polled(r), UNCHANGED <<made, lists, overlap, phase, runtimes, managed>>,
         \A id \in Ids : jobs'[id].runtime = jobs[id].runtime
  PROVE  CallsRight' /\ \A s : Starts(s) => Starts(s)'
<1> DEFINE next(call) == IF call.step = "await" /\ call.runtime = r THEN [call EXCEPT !.step = "polled"] ELSE call
<1>1. calls' = {next(call) : call \in calls}
  BY DEF Polled
<1>2. ASSUME NEW call \in calls
      PROVE  /\ next(call) \in CallRecord /\ CallRight(next(call))' /\ next(call).checkout = call.checkout
             /\ call.step = "start" \/ next(call).step = "start" => next(call) = call
  <2>1. call \in CallRecord /\ CallRight(call)
    BY DEF CallsRight
  <2>2. CallRight(call)'
    BY <2>1, Still, CallKept
  <2>3. CASE call.step = "await" /\ call.runtime = r
    <3>1. /\ next(call) \in CallRecord /\ next(call).step = "polled" /\ next(call).id = call.id
          /\ next(call).checkout = call.checkout
      BY <2>1, <2>3 DEF CallRecord, CallSteps
    <3> QED
      BY <2>2, <2>3, <3>1 DEF CallRight
  <2>4. CASE ~(call.step = "await" /\ call.runtime = r)
    BY <2>1, <2>2, <2>4
  <2> QED
    BY <2>3, <2>4
<1> HIDE DEF next
<1>3. \A c, d \in calls' : c # d => Apart(c, d)'
  BY <1>1, <1>2 DEF CallsRight, Apart, overlap
<1>4. CallsRight'
  BY <1>1, <1>2, <1>3 DEF CallsRight
<1>5. \A s : Starts(s) => Starts(s)'
  BY <1>1, <1>2 DEF Starts
<1> QED
  BY <1>4, <1>5

\* A poll begins only for the job of its Runtime, and that is running.
LEMMA PollBeginsKeeps ==
  ASSUME HostInv, PollBegins
  PROVE  HostInv'
<1> DEFINE r == Head(queue).runtime
<1>1. UNCHANGED <<phase, lists, overlap, runtimes, managed, jobs, sweep, made>> /\ queue # <<>>
  BY DEF PollBegins
<1>2. CatalogRight'
  BY <1>1, CatalogSame DEF HostInv
<1>3. CASE StillDue(r)
  <2>1. queue' = [queue EXCEPT ![1].polling = TRUE] /\ UNCHANGED <<timer, calls>>
    BY <1>3 DEF PollBegins
  <2>2. queue \in Seq(PollRecord) /\ Head(queue) = queue[1] /\ 1 \in DOMAIN queue /\ \A i \in DOMAIN queue : queue[i] \in PollRecord
    BY <1>1, TailOf, Elements DEF HostInv, QueueRight
  <2>3. r \in DOMAIN runtimes /\ r \in Nat \ {0}
    <3>1. r \in DOMAIN runtimes
      BY <2>2 DEF HostInv, QueueRight
    <3> QED
      BY <3>1, Elements DEF HostInv, RuntimesRight
  <2>4. runtimes[r].state = "running"
    <3>1. runtimes[r].id \in Ids
      BY <2>3, RuntimeTyped DEF HostInv, RuntimesRight
    <3> QED
      BY <1>3, <2>3, <3>1 DEF StillDue, HostInv, RuntimesRight, JobsRight
  <2>5. queue' = [i \in DOMAIN queue |-> queue'[i]]
        /\ \A i \in DOMAIN queue : queue'[i] \in PollRecord /\ queue'[i].runtime = queue[i].runtime /\ (queue'[i].polling => i = 1)
    BY <2>1, <2>2 DEF PollRecord, HostInv, QueueRight
  <2>6. queue' \in Seq(PollRecord) /\ DOMAIN queue' = DOMAIN queue
    BY <2>2, <2>5, SameLength
  <2>7. \A s \in DOMAIN runtimes : Polling(s)' => s = r
    <3>1. queue' # <<>>
      BY <2>2, <2>6
    <3>2. Head(queue') = queue'[1]
      BY <2>6, <3>1, TailOf
    <3> QED
      BY <2>2, <2>5, <3>2 DEF Polling
  <2>8. QueueRight'
    BY <1>1, <2>1, <2>4, <2>5, <2>6, <2>7 DEF HostInv, QueueRight, PollsLiveRuntime
  <2>9. RuntimesRight'
    BY <1>1, <2>1, Still, RuntimesSame DEF HostInv, RuntimesRight, Starts
  <2>10. CallsRight'
    BY <1>1, <2>1, CallsSame DEF HostInv
  <2> QED
    BY <1>2, <2>8, <2>9, <2>10 DEF HostInv
<1>4. CASE ~StillDue(r)
  <2>1. queue' = Tail(queue) /\ Polled(r) /\ Rescheduled(jobs, Tail(queue))
    BY <1>4 DEF PollBegins
  <2>2. QueueRight'
    BY <1>1, <2>1, QueueTail, TimerBoolean DEF HostInv, QueueRight
  <2>3. CallsRight' /\ \A s : Starts(s) => Starts(s)'
    BY <1>1, <2>1, CallsPolled DEF HostInv
  <2>4. RuntimesRight'
    BY <1>1, <2>3, Still, RuntimesSame DEF HostInv, RuntimesRight
  <2> QED
    BY <1>2, <2>2, <2>3, <2>4 DEF HostInv
<1> QED
  BY <1>3, <1>4

\* Jobs that come due or are done stay the jobs of their Runtimes.
LEMMA DueSet ==
  ASSUME RuntimesRight, NEW id \in Ids, NEW due \in BOOLEAN, jobs' = [jobs EXCEPT ![id].due = due]
  PROVE  jobs' \in [Ids -> JobRecord] /\ \A other \in Ids : jobs'[other].runtime = jobs[other].runtime
<1>1. jobs \in [Ids -> JobRecord]
  BY DEF RuntimesRight
<1> QED
  BY <1>1 DEF JobRecord

LEMMA PollEndsKeeps ==
  ASSUME HostInv, PollEnds
  PROVE  HostInv'
<1> DEFINE r == Head(queue).runtime
<1>1. UNCHANGED <<phase, lists, overlap, runtimes, managed, sweep, made>> /\ queue # <<>> /\ queue' = Tail(queue)
      /\ Polled(r) /\ Rescheduled(jobs', queue')
  BY DEF PollEnds
<1>2. jobs' \in [Ids -> JobRecord] /\ \A other \in Ids : jobs'[other].runtime = jobs[other].runtime
  <2>1. CASE jobs' = jobs
    BY <2>1 DEF HostInv, RuntimesRight
  <2>2. CASE jobs' # jobs
    <3>1. jobs' = [jobs EXCEPT ![runtimes[r].id].due = FALSE]
      BY <2>2 DEF PollEnds
    <3>2. r \in DOMAIN runtimes
      BY <1>1, TailOf DEF HostInv, QueueRight
    <3>3. runtimes[r].id \in Ids
      BY <3>2, RuntimeTyped DEF HostInv, RuntimesRight
    <3> QED
      BY <3>1, <3>3, DueSet DEF HostInv
  <2> QED
    BY <2>1, <2>2
<1>3. CatalogRight'
  BY <1>1, CatalogSame DEF HostInv
<1>4. QueueRight'
  BY <1>1, QueueTail, TimerBoolean DEF HostInv, QueueRight
<1>5. CallsRight' /\ \A s : Starts(s) => Starts(s)'
  BY <1>1, <1>2, CallsPolled DEF HostInv
<1>6. RuntimesRight'
  BY <1>1, <1>2, <1>5, Still, RuntimesSame DEF HostInv
<1> QED
  BY <1>3, <1>4, <1>5, <1>6 DEF HostInv

\* A step that leaves Runtimes and calls alone.
LEMMA PollingKeeps ==
  ASSUME HostInv, UNCHANGED <<phase, lists, overlap, runtimes, managed, calls, made>>, QueueRight',
         jobs' \in [Ids -> JobRecord], \A id \in Ids : jobs'[id].runtime = jobs[id].runtime
  PROVE  HostInv'
<1>1. CatalogRight'
  BY CatalogSame DEF HostInv
<1>2. RuntimesRight'
  BY Still, RuntimesSame DEF HostInv, Starts
<1>3. CallsRight'
  BY CallsSame DEF HostInv
<1> QED
  BY <1>1, <1>2, <1>3 DEF HostInv

LEMMA LiveHere ==
  ASSUME QueueRight
  PROVE  \A r \in DOMAIN runtimes : Polling(r) => runtimes[r].state \in {"running", "stopping"}
BY DEF QueueRight, PollsLiveRuntime

LEMMA ComesDueKeeps ==
  ASSUME HostInv, NEW id \in Ids, ComesDue(id)
  PROVE  HostInv'
<1>1. UNCHANGED <<phase, lists, overlap, runtimes, managed, calls, made, queue, sweep, timer>> /\ jobs' = [jobs EXCEPT ![id].due = TRUE]
  BY DEF ComesDue
<1>2. QueueRight'
  BY <1>1, QueueSame, LiveHere DEF HostInv, QueueRight
<1>3. jobs' \in [Ids -> JobRecord] /\ \A other \in Ids : jobs'[other].runtime = jobs[other].runtime
  BY <1>1, DueSet DEF HostInv
<1> QED
  BY <1>1, <1>2, <1>3, PollingKeeps

LEMMA FiresKeeps ==
  ASSUME HostInv, Fires
  PROVE  HostInv'
<1>1. UNCHANGED <<phase, lists, overlap, runtimes, managed, calls, made, jobs, queue>> /\ timer' = FALSE /\ sweep' = sweep \cup Jobs
  BY DEF Fires
<1>2. QueueRight'
  BY <1>1 DEF HostInv, QueueRight, PollsLiveRuntime, Polling, Jobs
<1> QED
  BY <1>1, <1>2, PollingKeeps DEF HostInv, RuntimesRight

\* A poll that is asked for is one of a job, behind what is under way.
LEMMA RefreshedRight ==
  ASSUME HostInv, NEW id \in Jobs, NEW swept \in BOOLEAN, queue' = Refreshed(id, queue, swept),
         UNCHANGED runtimes, sweep' \subseteq Ids, timer' \in BOOLEAN
  PROVE  QueueRight'
<1> DEFINE r == jobs[id].runtime
<1>1. id \in Ids /\ r \in DOMAIN runtimes /\ r \in Nat
  BY DEF Jobs, HostInv, RuntimesRight, JobsRight, JobRecord
<1>2. queue \in Seq(PollRecord) /\ (\A i \in DOMAIN queue : queue[i] \in PollRecord) /\ DOMAIN queue = 1..Len(queue) /\ Len(queue) \in Nat
  BY Elements DEF HostInv, QueueRight
<1>3. CASE Queued(r, queue)
  <2>1. queue' = [i \in DOMAIN queue |-> IF queue[i].runtime = r THEN [queue[i] EXCEPT !.swept = @ \/ swept] ELSE queue[i]]
    BY <1>3 DEF Refreshed
  <2>2. \A i \in DOMAIN queue : queue'[i] \in PollRecord /\ queue'[i].runtime = queue[i].runtime /\ queue'[i].polling = queue[i].polling
    BY <1>2, <2>1 DEF PollRecord
  <2>3. queue' \in Seq(PollRecord) /\ DOMAIN queue' = DOMAIN queue /\ Len(queue') = Len(queue)
    <3>1. queue' = [i \in DOMAIN queue |-> queue'[i]]
      BY <2>1
    <3> QED
      BY <1>2, <2>2, <3>1, SameLength
  <2>4. \A s \in DOMAIN runtimes : Polling(s)' => Polling(s)
    <3>1. queue' # <<>> => queue # <<>> /\ Head(queue') = queue'[1] /\ Head(queue) = queue[1] /\ 1 \in DOMAIN queue
      BY <1>2, <2>3, TailOf
    <3> QED
      BY <2>2, <3>1 DEF Polling
  <2> QED
    BY <2>2, <2>3, <2>4 DEF HostInv, QueueRight, PollsLiveRuntime
<1>4. CASE ~Queued(r, queue)
  <2> DEFINE poll == [runtime |-> r, polling |-> FALSE, swept |-> swept]
  <2>1. queue' = Append(queue, poll)
    BY <1>4 DEF Refreshed
  <2>2. poll \in PollRecord /\ poll.runtime = r /\ poll.polling = FALSE
    BY <1>1 DEF PollRecord
  <2> HIDE DEF poll
  <2>3. /\ queue' \in Seq(PollRecord) /\ DOMAIN queue' = DOMAIN queue \cup {Len(queue) + 1}
        /\ queue'[Len(queue) + 1] = poll /\ \A i \in DOMAIN queue : queue'[i] = queue[i]
    BY <1>2, <2>1, <2>2
  <2>4. \A s \in DOMAIN runtimes : Polling(s)' => Polling(s)
    <3>1. queue' # <<>> => Head(queue') = queue'[1] /\ 1 \in DOMAIN queue'
      BY <2>3, TailOf
    <3>2. CASE queue = <<>>
      BY <1>2, <2>2, <2>3, <3>1, <3>2 DEF Polling
    <3>3. CASE queue # <<>>
      <4>1. Head(queue) = queue[1] /\ 1 \in DOMAIN queue
        BY <1>2, <3>3, TailOf
      <4> QED
        BY <2>3, <3>1, <3>3, <4>1 DEF Polling
    <3> QED
      BY <3>2, <3>3
  <2> QED
    BY <1>1, <1>2, <2>2, <2>3, <2>4 DEF HostInv, QueueRight, PollsLiveRuntime
<1> QED
  BY <1>3, <1>4

LEMMA SweepsKeeps ==
  ASSUME HostInv, NEW id \in Ids, Sweeps(id)
  PROVE  HostInv'
<1>1. UNCHANGED <<phase, lists, overlap, runtimes, managed, calls, made, jobs>> /\ sweep' = sweep \ {id}
  BY DEF Sweeps
<1>2. timer' \in BOOLEAN
  BY TimerBoolean DEF Sweeps, HostInv, QueueRight
<1>3. CASE id \in Jobs /\ jobs[id].due
  <2>1. queue' = Refreshed(id, queue, TRUE)
    BY <1>3 DEF Sweeps
  <2>2. QueueRight'
    BY <1>1, <1>2, <1>3, <2>1, RefreshedRight DEF HostInv, QueueRight
  <2> QED
    BY <1>1, <2>2, PollingKeeps DEF HostInv, RuntimesRight
<1>4. CASE ~(id \in Jobs /\ jobs[id].due)
  <2>1. UNCHANGED queue
    BY <1>4 DEF Sweeps
  <2>2. QueueRight'
    BY <1>1, <1>2, <2>1 DEF HostInv, QueueRight, PollsLiveRuntime, Polling
  <2> QED
    BY <1>1, <2>2, PollingKeeps DEF HostInv, RuntimesRight
<1> QED
  BY <1>3, <1>4

-----------------------------------------------------------------------------
(* Calls: one lemma for each of their steps *)

\* A call that starts no Runtime goes on or is answered: what is started stays started.
LEMMA StartsStay ==
  ASSUME NEW call \in calls, call.step # "start", calls \ {call} \subseteq calls'
  PROVE  \A r : Starts(r) => Starts(r)'
BY DEF Starts

\* A step beside Runtimes, what manages them and polls.
LEMMA BesideRuntimes ==
  ASSUME HostInv, Grows, UNCHANGED <<phase, runtimes, managed, jobs, queue, sweep, timer>>, CatalogRight', CallsRight',
         \A r \in DOMAIN runtimes : Starts(r) => Starts(r)'
  PROVE  HostInv'
<1>1. QueueRight'
  BY QueueSame, LiveHere DEF HostInv, QueueRight
<1>2. RuntimesRight'
  BY RuntimesSame DEF HostInv, RuntimesRight
<1> QED
  BY <1>1, <1>2 DEF HostInv

\* The ids that were given out.
LEMMA GivenOut ==
  ASSUME CatalogRight
  PROVE  DOMAIN checkout \subseteq Ids /\ DOMAIN checkout = 1..Len(checkout) /\ Len(checkout) \in Nat
         /\ \A id \in DOMAIN checkout : checkout[id] \in Checkouts
<1>1. DOMAIN checkout = 1..Len(checkout) /\ Len(checkout) \in Nat /\ \A id \in DOMAIN checkout : checkout[id] \in Checkouts
  BY Elements DEF CatalogRight
<1> QED
  BY <1>1, HostBounds DEF CatalogRight, Ids

\* The steps of one call beside Runtimes keep the other ones right.
LEMMA OthersBeside ==
  ASSUME HostInv, Grows, NEW call \in calls, UNCHANGED <<phase, runtimes, managed, jobs>>
  PROVE  OthersRight(call)
BY CallKept DEF OthersRight, HostInv, CallsRight

LEMMA CallMade ==
  ASSUME HostInv, Listening, NEW call \in CallRecord, Called(call), CallRight(call)', call.step # "start"
  PROVE  HostInv'
<1>1. UNCHANGED <<phase, lists, runtimes, managed, jobs, queue, sweep, timer>> /\ calls' = calls \cup {call} /\ made' = made + 1
      /\ mixed' = mixed \cup {c \in {call.checkout} : \E other \in calls : other.checkout = c}
  BY DEF Called, polling
<1>2. Grows
  BY <1>1 DEF Grows, lists
<1>3. CallsRight'
  <2>1. calls' \subseteq CallRecord /\ made' \in Nat
    BY <1>1 DEF HostInv, CallsRight
  <2>2. \A c \in calls' : CallRight(c)'
    BY <1>1, <1>2, CallKept DEF HostInv, CallsRight
  <2>3. ASSUME NEW c \in calls', NEW d \in calls', c # d
        PROVE  Apart(c, d)'
    <3>1. CASE c \in calls /\ d \in calls
      BY <1>1, <2>3, <3>1 DEF HostInv, CallsRight, Apart
    <3>2. CASE c = call \/ d = call
      <4>1. c.checkout = d.checkout => c.checkout \in mixed'
        BY <1>1, <2>3, <3>2
      <4> QED
        BY <3>2, <4>1 DEF Apart
    <3> QED
      BY <1>1, <3>1, <3>2
  <2> QED
    BY <1>1, <2>1, <2>2, <2>3 DEF HostInv, CallsRight, Listening
<1>4. \A r : Starts(r) => Starts(r)'
  BY <1>1 DEF Starts
<1> QED
  BY <1>1, <1>2, <1>3, <1>4, CatalogSame, BesideRuntimes DEF HostInv

LEMMA CallOfTyped ==
  ASSUME NEW kind \in {"add", "remove"}, NEW step \in CallSteps, NEW id \in 0..MaxIds, NEW c \in Checkouts, made \in Nat
  PROVE  CallOf(kind, step, id, c) \in CallRecord /\ CallOf(kind, step, id, c).step = step
         /\ CallOf(kind, step, id, c).id = id /\ CallOf(kind, step, id, c).checkout = c
BY DEF CallOf, CallRecord

LEMMA AddProjectKeeps ==
  ASSUME HostInv, NEW c \in Checkouts, AddProject(c)
  PROVE  HostInv'
<1>1. PICK call : call = CallOf("add", "register", 0, c)
  OBVIOUS
<1>2. Listening /\ Called(call)
  BY <1>1 DEF AddProject
<1>3. call \in CallRecord /\ call.step = "register"
  BY <1>1, CallOfTyped, HostBounds DEF HostInv, CallsRight, CallSteps
<1>4. CallRight(call)'
  BY <1>3 DEF CallRight
<1> QED
  BY <1>2, <1>3, <1>4, CallMade

LEMMA RemoveProjectKeeps ==
  ASSUME HostInv, NEW id \in Ids, RemoveProject(id)
  PROVE  HostInv'
<1>1. PICK call : call = CallOf("remove", "unmanage", id, checkout[id])
  OBVIOUS
<1>2. Listening /\ Called(call) /\ id \in catalog /\ UNCHANGED checkout
  BY <1>1 DEF RemoveProject, Called, lists
<1>3. checkout[id] \in Checkouts /\ id \in 0..MaxIds /\ id \in DOMAIN checkout
  BY <1>2, GivenOut, HostBounds DEF HostInv, CatalogRight, Ids
<1>4. call \in CallRecord /\ call.step = "unmanage" /\ call.id = id /\ call.checkout = checkout[id]
  BY <1>1, <1>3, CallOfTyped DEF HostInv, CallsRight, CallSteps
<1>5. CallRight(call)'
  BY <1>2, <1>3, <1>4 DEF CallRight
<1> QED
  BY <1>2, <1>4, <1>5, CallMade

\* What is known of a call.
LEMMA CallTyped ==
  ASSUME HostInv, NEW call \in calls
  PROVE  /\ call \in CallRecord /\ CallRight(call) /\ phase \notin {"off", "starting"}
         /\ call.step \notin {"register", "create"} =>
              call.id \in Ids /\ call.id \in DOMAIN checkout /\ checkout[call.id] = call.checkout
BY OneCall DEF HostInv, CallRight

\* A call goes on to a step that starts and stops nothing.
LEMMA PlainStep ==
  ASSUME HostInv, Grows, NEW call \in calls, call.step # "start", NEW next \in CallRecord, Goes(call, next),
         next.checkout = call.checkout, next.step \notin {"start", "stop"}, CallRight(next)', CatalogRight',
         UNCHANGED <<phase, runtimes, managed, jobs, queue, sweep, timer, made>>
  PROVE  HostInv'
<1>1. OthersRight(call) /\ StartsOwn(call, next) /\ mixed \subseteq mixed' /\ phase \notin {"off", "starting"}
  BY OthersBeside, CallTyped DEF StartsOwn, Grows
<1>2. CallsRight'
  BY <1>1, CallGoes DEF HostInv
<1>3. \A r : Starts(r) => Starts(r)'
  BY StartsStay DEF Goes
<1> QED
  BY <1>2, <1>3, BesideRuntimes

\* It asks for nothing but its project.
LEMMA ProjectStep ==
  ASSUME HostInv, Grows, NEW call \in calls, call.step \notin {"register", "create", "start"}, NEW next \in CallRecord,
         Goes(call, next), next.checkout = call.checkout, next.id = call.id, next.step \in {"check", "drop"},
         CatalogRight', UNCHANGED <<checkout, phase, runtimes, managed, jobs, queue, sweep, timer, made>>
  PROVE  HostInv'
<1>1. CallRight(next)'
  BY CallTyped DEF CallRight
<1> QED
  BY <1>1, PlainStep

LEMMA IdTyped == Ids \subseteq 0..MaxIds
BY HostBounds DEF Ids

LEMMA RegisterKeeps ==
  ASSUME HostInv, NEW call \in calls, Register(call)
  PROVE  HostInv'
<1>1. call.step = "register" /\ UNCHANGED <<phase, lists, overlap, runtimes, managed, jobs, queue, sweep, timer, made>>
      /\ call \in CallRecord
  BY CallTyped DEF Register, At, polling
<1>2. CatalogRight' /\ Grows /\ UNCHANGED checkout
  BY <1>1, CatalogSame, Still DEF HostInv, lists
<1>3. CASE Existing(call.checkout) # {}
  <2>1. PICK id \in Existing(call.checkout) : Goes(call, [call EXCEPT !.step = "check", !.id = id])
    BY <1>3 DEF Register
  <2>2. id \in Ids /\ id \in DOMAIN checkout /\ checkout[id] = call.checkout
    BY GivenOut DEF Existing, HostInv, CatalogRight
  <2>3. PICK next : next = [call EXCEPT !.step = "check", !.id = id]
    OBVIOUS
  <2>4. next \in CallRecord /\ next.step = "check" /\ next.id = id /\ next.checkout = call.checkout
    BY <1>1, <2>2, <2>3, IdTyped DEF CallRecord, CallSteps
  <2>5. CallRight(next)'
    BY <1>2, <2>2, <2>4 DEF CallRight
  <2> QED
    BY <1>1, <1>2, <2>1, <2>3, <2>4, <2>5, PlainStep
<1>4. CASE Existing(call.checkout) = {}
  <2>1. PICK next : next = [call EXCEPT !.step = "create"]
    OBVIOUS
  <2>2. next \in CallRecord /\ next.step = "create" /\ next.checkout = call.checkout /\ Goes(call, next)
    BY <1>1, <1>4, <2>1 DEF CallRecord, CallSteps, Register
  <2>3. CallRight(next)'
    BY <2>2 DEF CallRight
  <2> QED
    BY <1>1, <1>2, <2>2, <2>3, PlainStep
<1> QED
  BY <1>3, <1>4

\* A call that is over.
LEMMA CallOver ==
  ASSUME HostInv, Grows, NEW call \in calls, call.step # "start", calls' = calls \ {call}, CatalogRight',
         UNCHANGED <<phase, runtimes, managed, jobs, queue, sweep, timer, made>>
  PROVE  HostInv'
<1>1. OthersRight(call) /\ mixed \subseteq mixed'
  BY OthersBeside DEF Grows
<1>2. CallsRight'
  BY <1>1, CallEnds DEF HostInv
<1>3. \A r : Starts(r) => Starts(r)'
  BY StartsStay
<1> QED
  BY <1>2, <1>3, BesideRuntimes

\* The call is about to write the list of what was given out.
LEMMA ChangedKeeps ==
  ASSUME HostInv, Grows, NEW call \in calls, call.step # "start", NEW id \in Ids, Changed(call, id),
         id \in DOMAIN checkout', checkout'[id] = call.checkout, CatalogRight', DOMAIN checkout' \subseteq Nat,
         UNCHANGED <<phase, runtimes, managed, jobs, queue, sweep, timer, made>>
  PROVE  HostInv'
<1>1. PICK list : list = catalog'
  OBVIOUS
<1>2. PICK next : next = [call EXCEPT !.step = "write", !.id = id, !.ids = list]
  OBVIOUS
<1>3. call \in CallRecord /\ list \in SUBSET Nat /\ id \in 0..MaxIds
  BY <1>1, CallTyped, IdTyped DEF CatalogRight
<1>4. next \in CallRecord /\ next.step = "write" /\ next.id = id /\ next.ids = list /\ next.checkout = call.checkout
  BY <1>2, <1>3 DEF CallRecord, CallSteps
<1>5. CallRight(next)'
  BY <1>1, <1>4 DEF CallRight, CatalogRight
<1>6. Goes(call, next)
  BY <1>1, <1>2 DEF Changed
<1> QED
  BY <1>4, <1>5, <1>6, PlainStep

LEMMA CreateKeeps ==
  ASSUME HostInv, NEW call \in calls, Create(call)
  PROVE  HostInv'
<1>1. call.step = "create" /\ UNCHANGED <<phase, file, runtimes, managed, jobs, queue, sweep, timer, made>>
      /\ call.checkout \in Checkouts
  BY CallTyped DEF Create, At, polling, CallRecord
<1>2. PICK id : id = Len(checkout) + 1
  OBVIOUS
<1>3. CASE /\ Len(checkout) < MaxIds /\ checkout' = Append(checkout, call.checkout)
           /\ catalog' = catalog \cup {id} /\ Changed(call, id)
  <2>1. Len(checkout) \in Nat /\ DOMAIN checkout = 1..Len(checkout) /\ checkout \in Seq(Checkouts)
    BY GivenOut DEF HostInv, CatalogRight
  <2>2. /\ checkout' \in Seq(Checkouts) /\ Len(checkout') = id /\ DOMAIN checkout' = 1..id
        /\ checkout'[id] = call.checkout /\ \A i \in DOMAIN checkout : checkout'[i] = checkout[i]
    BY <1>1, <1>2, <1>3, <2>1
  <2>3. id \in Ids /\ id \in DOMAIN checkout' /\ id \in Nat
    BY <1>2, <1>3, <2>1, <2>2, HostBounds DEF Ids
  <2>4. CatalogRight'
    BY <1>1, <1>2, <1>3, <2>1, <2>2, <2>3, HostBounds DEF HostInv, CatalogRight
  <2>5. Grows
    BY <1>2, <1>3, <2>1, <2>2 DEF Grows, Changed
  <2> QED
    BY <1>1, <1>3, <2>2, <2>3, <2>4, <2>5, ChangedKeeps
<1>4. CASE calls' = calls \ {call} /\ UNCHANGED <<catalog, checkout, overlap>>
  <2>1. UNCHANGED lists
    BY <1>1, <1>4 DEF lists
  <2> QED
    BY <1>1, <1>4, <2>1, CatalogSame, Still, CallOver DEF HostInv
<1> QED
  BY <1>2, <1>3, <1>4 DEF Create

\* The file gets ids that were given out.
LEMMA WriteAddedKeeps ==
  ASSUME HostInv, NEW call \in calls, WriteAdded(call)
  PROVE  HostInv'
<1>1. call.step = "write" /\ file' = call.ids /\ Goes(call, [call EXCEPT !.step = "check"])
      /\ UNCHANGED <<phase, catalog, checkout, overlap, runtimes, managed, jobs, queue, sweep, timer, made>>
      /\ call \in CallRecord /\ CallRight(call)
  BY CallTyped DEF WriteAdded, At, polling, Written
<1>2. PICK next : next = [call EXCEPT !.step = "check"]
  OBVIOUS
<1>3. next \in CallRecord /\ next.step = "check" /\ next.id = call.id /\ next.checkout = call.checkout
  BY <1>1, <1>2 DEF CallRecord, CallSteps
<1>4. CatalogRight' /\ Grows
  BY <1>1 DEF HostInv, CatalogRight, CallRight, Grows, overlap
<1> QED
  BY <1>1, <1>2, <1>3, <1>4, ProjectStep

LEMMA WriteRemovedKeeps ==
  ASSUME HostInv, NEW call \in calls, WriteRemoved(call)
  PROVE  HostInv'
<1>1. call.step = "write" /\ file' = call.ids /\ calls' = calls \ {call}
      /\ UNCHANGED <<phase, catalog, checkout, overlap, runtimes, managed, jobs, queue, sweep, timer, made>> /\ CallRight(call)
  BY CallTyped DEF WriteRemoved, At, polling, Written, Tell
<1>2. CatalogRight' /\ Grows
  BY <1>1 DEF HostInv, CatalogRight, CallRight, Grows, overlap
<1> QED
  BY <1>1, <1>2, CallOver

LEMMA AddedKeeps ==
  ASSUME HostInv, NEW call \in calls, Added(call)
  PROVE  HostInv'
<1>1. call.step = "polled" /\ calls' = calls \ {call}
      /\ UNCHANGED <<phase, lists, overlap, runtimes, managed, jobs, queue, sweep, timer, made>>
  BY DEF Added, At, polling, Tell
<1> QED
  BY <1>1, CatalogSame, Still, CallOver DEF HostInv

LEMMA DropKeeps ==
  ASSUME HostInv, NEW call \in calls, Drop(call)
  PROVE  HostInv'
<1>1. call.step = "drop" /\ UNCHANGED <<phase, file, checkout, runtimes, managed, jobs, queue, sweep, timer, made>>
      /\ call.id \in Ids /\ call.id \in DOMAIN checkout /\ checkout[call.id] = call.checkout
  BY CallTyped DEF Drop, At, polling
<1>2. CatalogRight' /\ mixed' = mixed /\ DOMAIN checkout' \subseteq Nat
  <2>1. catalog' \subseteq catalog /\ mixed' = mixed
    BY DEF Drop, Changed, overlap
  <2> QED
    BY <1>1, <2>1, GivenOut DEF HostInv, CatalogRight
<1>3. Grows
  BY <1>1, <1>2 DEF Grows
<1>4. CASE Changed(call, call.id)
  BY <1>1, <1>2, <1>3, <1>4, ChangedKeeps
<1>5. CASE calls' = calls \ {call}
  BY <1>1, <1>2, <1>3, <1>5, CallOver
<1> QED
  BY <1>4, <1>5 DEF Drop

LEMMA RefreshAddedKeeps ==
  ASSUME HostInv, NEW call \in calls, RefreshAdded(call)
  PROVE  HostInv'
<1>1. call.step = "refresh" /\ UNCHANGED <<phase, lists, overlap, runtimes, managed, jobs, sweep, timer, made>>
      /\ call \in CallRecord /\ call.id \in Ids
  BY CallTyped DEF RefreshAdded, At
<1>2. CatalogRight' /\ Grows /\ UNCHANGED checkout
  BY <1>1, CatalogSame, Still DEF HostInv, lists
<1>3. CASE call.id \in Jobs
  <2>1. queue' = Refreshed(call.id, queue, FALSE)
    BY <1>3 DEF RefreshAdded
  <2>2. PICK r : r = jobs[call.id].runtime
    OBVIOUS
  <2>3. PICK next : next = [call EXCEPT !.step = "await", !.runtime = r]
    OBVIOUS
  <2>4. Goes(call, next)
    BY <1>3, <2>2, <2>3 DEF RefreshAdded
  <2>5. r \in Nat
    BY <1>1, <2>2 DEF HostInv, RuntimesRight, JobRecord
  <2>6. next \in CallRecord /\ next.step = "await" /\ next.id = call.id /\ next.checkout = call.checkout
    BY <1>1, <2>3, <2>5 DEF CallRecord, CallSteps
  <2>7. QueueRight'
    BY <1>1, <1>3, <2>1, RefreshedRight DEF HostInv, QueueRight
  <2>8. CallRight(next)'
    BY <1>1, <1>2, <2>6, CallTyped DEF CallRight
  <2>9. OthersRight(call) /\ StartsOwn(call, next) /\ mixed \subseteq mixed' /\ phase' \notin {"off", "starting"}
    BY <1>1, <1>2, <2>6, OthersBeside, CallTyped DEF StartsOwn, Grows
  <2>10. CallsRight'
    BY <1>1, <2>4, <2>6, <2>8, <2>9, CallGoes DEF HostInv
  <2>11. \A s : Starts(s) => Starts(s)'
    BY <1>1, <2>4, StartsStay DEF Goes
  <2>12. RuntimesRight'
    BY <1>1, <1>2, <2>11, RuntimesSame DEF HostInv, RuntimesRight
  <2> QED
    BY <1>2, <2>7, <2>10, <2>12 DEF HostInv
<1>4. CASE call.id \notin Jobs
  <2>1. calls' = calls \ {call} /\ UNCHANGED queue
    BY <1>4 DEF RefreshAdded
  <2> QED
    BY <1>1, <1>2, <2>1, CallOver
<1> QED
  BY <1>3, <1>4

\* A step of a call that changes its Runtime: what is left to show of it.
LEMMA RuntimesStep ==
  ASSUME HostInv, NEW call \in calls, NEW next \in CallRecord, Goes(call, next), CallRight(next)', OthersRight(call),
         StartsOwn(call, next), next.checkout = call.checkout,
         RuntimesRight', QueueRight', UNCHANGED <<phase, lists, overlap, made>>
  PROVE  HostInv'
<1>1. CatalogRight' /\ mixed \subseteq mixed'
  BY CatalogSame DEF HostInv, overlap
<1>2. CallsRight'
  BY <1>1, CallTyped, CallGoes DEF HostInv
<1> QED
  BY <1>1, <1>2 DEF HostInv

\* What is polled goes on in the same state.
LEMMA NotPolled ==
  ASSUME QueueRight, NEW r \in DOMAIN runtimes, runtimes[r].state \notin {"running", "stopping"}
  PROVE  ~Polling(r)
BY LiveHere

\* The Runtimes after a step that leaves what was given out alone.
LEMMA RuntimesGiven ==
  ASSUME RuntimesRight, UNCHANGED <<lists, overlap>>
  PROVE  /\ UNCHANGED checkout /\ (\A id : Alone(id)' <=> Alone(id))
         /\ \A r \in DOMAIN runtimes : r \in Nat \ {0} /\ runtimes[r].id \in DOMAIN checkout' /\ runtimes[r].id \in Ids
<1>1. \A r \in DOMAIN runtimes : r \in Nat \ {0} /\ runtimes[r].id \in Ids
  BY RuntimeTyped, Elements DEF RuntimesRight
<1> QED
  BY <1>1 DEF RuntimesRight, lists, overlap, Alone

\* A Runtime is created only where none is managed, so none is at work.
LEMMA CreateRuntimeKeeps ==
  ASSUME HostInv, NEW call \in calls, CreateRuntime(call)
  PROVE  HostInv'
<1>1. call.step = "check" /\ UNCHANGED <<phase, lists, overlap, managed, jobs, queue, sweep, timer, made>>
      /\ call \in CallRecord /\ call.id \in Ids /\ call.id \in DOMAIN checkout /\ checkout[call.id] = call.checkout
  BY CallTyped DEF CreateRuntime, At, polling
<1>2. Grows
  BY <1>1, Still
<1>3. CASE NeedsRuntime(call.id)
  <2>1. runtimes' = Append(runtimes, [id |-> call.id, state |-> "starting"])
    BY <1>3 DEF CreateRuntime
  <2>2. managed[call.id] = 0 /\ phase # "down"
    BY <1>3 DEF NeedsRuntime, Listening
  <2>3. runtimes \in Seq(RuntimeRecord) /\ "starting" \in RuntimeStates
    BY DEF HostInv, RuntimesRight, RuntimeStates, Working
  <2>4. PICK r \in Nat \ {0} :
          /\ r = Len(runtimes) + 1 /\ r \notin DOMAIN runtimes
          /\ runtimes' \in Seq(RuntimeRecord) /\ DOMAIN runtimes' = DOMAIN runtimes \cup {r}
          /\ runtimes'[r].id = call.id /\ runtimes'[r].state = "starting"
          /\ \A s \in DOMAIN runtimes : runtimes'[s] = runtimes[s]
    BY <1>1, <2>1, <2>3, RuntimeAdded
  <2>5. PICK next : next = [call EXCEPT !.step = "start", !.runtime = r]
    OBVIOUS
  <2>6. Goes(call, next)
    BY <1>3, <2>4, <2>5 DEF CreateRuntime
  <2>7. next \in CallRecord /\ next.step = "start" /\ next.id = call.id /\ next.runtime = r /\ next.checkout = call.checkout
    BY <1>1, <2>5, <2>4 DEF CallRecord, CallSteps
  <2>8. UNCHANGED checkout /\ (\A id : Alone(id)' <=> Alone(id))
        /\ \A s \in DOMAIN runtimes : s \in Nat \ {0} /\ runtimes[s].id \in DOMAIN checkout' /\ runtimes[s].id \in Ids
    BY <1>1, RuntimesGiven DEF HostInv
  <2>9. Alone(call.id) => jobs[call.id].runtime = 0
    BY <1>1, <2>2 DEF HostInv, RuntimesRight, JobsRight
  <2>10. ASSUME NEW s \in DOMAIN runtimes, runtimes[s].id = call.id, Alone(call.id)
         PROVE  runtimes[s].state \notin Working
    <3>1. ~Starts(s)
      <4>1. SUFFICES ASSUME NEW other \in calls, other.step = "start", other.runtime = s
                     PROVE  FALSE
        BY DEF Starts
      <4>2. other # call /\ CallRight(other) /\ other.id = call.id
        BY <1>1, <2>10, <4>1, CallTyped DEF CallRight
      <4> QED
        BY <1>1, <2>10, <4>1, <4>2, OtherProject DEF HostInv
    <3> QED
      BY <2>2, <2>8, <2>10, <3>1 DEF HostInv, RuntimesRight, WorkingRight
  <2>11. CallRight(next)'
    BY <1>1, <2>2, <2>4, <2>7, <2>8, <2>9 DEF CallRight
  <2>12. \A s : Starts(s) => Starts(s)'
    BY <1>1, <2>6, StartsStay DEF Goes
  <2>13. Starts(r)'
    <3>1. next \in calls'
      BY <2>6 DEF Goes
    <3> QED
      BY <2>7, <3>1 DEF Starts
  <2>14. OthersRight(call)
    <3>1. \A other \in calls : other.step = "start" => other.runtime \in DOMAIN runtimes /\ runtimes[other.runtime].state = "starting"
      BY CallTyped DEF CallRight
    <3> QED
      BY <1>1, <1>2, <2>4, <3>1, OthersKept DEF HostInv
  <2>15. StartsOwn(call, next)
    <3>1. \A other \in calls : other.step = "start" => other.runtime \in DOMAIN runtimes
      BY CallTyped DEF CallRight
    <3> QED
      BY <2>4, <2>7, <3>1 DEF StartsOwn
  <2>16. RuntimesRight'
    <3>1. ManagedRight'
      BY <1>1, <2>4 DEF HostInv, RuntimesRight, ManagedRight
    <3>2. JobsRight'
      BY <1>1, <2>4, <2>8 DEF HostInv, RuntimesRight, JobsRight
    <3>3. WorkingRight'
      <4>1. ASSUME NEW s \in DOMAIN runtimes, runtimes[s].state \in Working, Alone(runtimes[s].id)
            PROVE  managed[runtimes[s].id] = s \/ Starts(s)'
        BY <2>2, <2>12, <4>1 DEF HostInv, RuntimesRight, WorkingRight
      <4> QED
        BY <1>1, <2>4, <2>8, <2>13, <4>1 DEF WorkingRight
    <3>4. OneRuntime'
      BY <2>4, <2>8, <2>10 DEF HostInv, RuntimesRight, OneRuntime, Working
    <3>5. \A s \in DOMAIN runtimes' : runtimes'[s].id \in DOMAIN checkout'
      BY <1>1, <2>4, <2>8
    <3> QED
      BY <1>1, <2>4, <3>1, <3>2, <3>3, <3>4, <3>5 DEF HostInv, RuntimesRight
  <2>17. QueueRight'
    BY <1>1, <2>4, QueueSame, LiveHere DEF HostInv, QueueRight
  <2> QED
    BY <1>1, <2>6, <2>7, <2>11, <2>14, <2>15, <2>16, <2>17, RuntimesStep
<1>4. CASE ~NeedsRuntime(call.id)
  <2>1. calls' = calls \ {call} /\ UNCHANGED runtimes
    BY <1>4 DEF CreateRuntime, Tell
  <2> QED
    BY <1>1, <1>2, <2>1, CatalogSame, CallOver DEF HostInv
<1> QED
  BY <1>3, <1>4

\* A Runtime that was started runs, and is managed or its project was not alone.
LEMMA StartedRight ==
  ASSUME HostInv, NEW id \in Ids, NEW r \in DOMAIN runtimes, runtimes[r].id = id, runtimes[r].state = "starting",
         UNCHANGED <<phase, lists, overlap>>, runtimes' = [runtimes EXCEPT ![r].state = "running"],
         \/ managed' = [managed EXCEPT ![id] = r] /\ jobs' = [jobs EXCEPT ![id] = [runtime |-> r, due |-> TRUE]]
            /\ jobs[id].runtime = 0
         \/ UNCHANGED <<managed, jobs>> /\ ~Alone(id),
         \A s : Starts(s) /\ s # r => Starts(s)'
  PROVE  /\ RuntimesRight' /\ DOMAIN runtimes' = DOMAIN runtimes
         /\ \A s \in DOMAIN runtimes : runtimes'[s].id = runtimes[s].id
         /\ \A s \in DOMAIN runtimes \ {r} : runtimes'[s] = runtimes[s]
         /\ \A other \in Ids \ {id} : managed'[other] = managed[other] /\ jobs'[other] = jobs[other]
<1>1. runtimes \in Seq(RuntimeRecord) /\ "running" \in RuntimeStates
  BY DEF HostInv, RuntimesRight, RuntimeStates, Working
<1>2. /\ runtimes' \in Seq(RuntimeRecord) /\ DOMAIN runtimes' = DOMAIN runtimes
      /\ runtimes'[r].id = id /\ runtimes'[r].state = "running"
      /\ \A s \in DOMAIN runtimes \ {r} : runtimes'[s] = runtimes[s]
      /\ \A s \in DOMAIN runtimes : runtimes'[s].id = runtimes[s].id
  BY <1>1, StateSet
<1>3. UNCHANGED checkout /\ (\A other : Alone(other)' <=> Alone(other))
      /\ \A s \in DOMAIN runtimes : s \in Nat \ {0} /\ runtimes[s].id \in DOMAIN checkout' /\ runtimes[s].id \in Ids
  BY RuntimesGiven DEF HostInv
<1>4. /\ managed' \in [Ids -> Nat] /\ managed'[id] \in {managed[id], r} /\ (Alone(id) => managed'[id] = r)
      /\ \A other \in Ids \ {id} : managed'[other] = managed[other]
  BY <1>3 DEF HostInv, RuntimesRight
<1>5. /\ jobs' \in [Ids -> JobRecord] /\ jobs'[id].runtime \in {jobs[id].runtime, r}
      /\ Alone(id) => jobs'[id].runtime = r
      /\ \A other \in Ids \ {id} : jobs'[other] = jobs[other]
  <2>1. r \in Nat /\ jobs \in [Ids -> JobRecord]
    BY <1>3 DEF HostInv, RuntimesRight
  <2>2. CASE jobs' = [jobs EXCEPT ![id] = [runtime |-> r, due |-> TRUE]]
    BY <2>1, <2>2 DEF JobRecord
  <2>3. CASE jobs' = jobs /\ ~Alone(id)
    BY <2>1, <2>3
  <2> QED
    BY <2>2, <2>3
<1>6. ManagedRight'
  <2>1. ASSUME NEW other \in Ids, managed[other] # 0
        PROVE  managed[other] \in DOMAIN runtimes \ {r}
               /\ runtimes[managed[other]].id = other /\ runtimes[managed[other]].state \in {"running", "stopping"}
    BY <2>1 DEF HostInv, RuntimesRight, ManagedRight
  <2>2. ASSUME NEW other \in Ids, managed'[other] # 0
        PROVE  /\ managed'[other] \in DOMAIN runtimes' /\ runtimes'[managed'[other]].id = other
               /\ runtimes'[managed'[other]].state \in {"running", "stopping"}
    BY <1>2, <1>4, <2>1, <2>2
  <2> QED
    BY <2>2 DEF ManagedRight
<1>7. JobsRight'
  <2>1. ASSUME NEW other \in Ids, jobs[other].runtime # 0
        PROVE  jobs[other].runtime \in DOMAIN runtimes \ {r}
               /\ runtimes[jobs[other].runtime].id = other /\ runtimes[jobs[other].runtime].state = "running"
               /\ (phase # "down" /\ Alone(other) => managed[other] = jobs[other].runtime)
    BY <2>1 DEF HostInv, RuntimesRight, JobsRight
  <2>2. ASSUME NEW other \in Ids, jobs'[other].runtime # 0
        PROVE  /\ jobs'[other].runtime \in DOMAIN runtimes' /\ runtimes'[jobs'[other].runtime].id = other
               /\ runtimes'[jobs'[other].runtime].state = "running"
    BY <1>2, <1>5, <2>1, <2>2
  <2>3. ASSUME NEW other \in Ids, jobs'[other].runtime # 0, phase # "down", Alone(other)
        PROVE  managed'[other] = jobs'[other].runtime
    BY <1>4, <1>5, <2>1, <2>3
  <2> QED
    BY <1>3, <2>2, <2>3 DEF JobsRight
<1>8. WorkingRight'
  <2>1. ASSUME phase # "down", NEW s \in DOMAIN runtimes, s # r, runtimes[s].state \in Working, Alone(runtimes[s].id)
        PROVE  managed'[runtimes[s].id] = s \/ Starts(s)'
    <3>1. runtimes[s].id # id
      BY <2>1 DEF HostInv, RuntimesRight, OneRuntime, Working
    <3> QED
      BY <1>3, <1>4, <2>1, <3>1 DEF HostInv, RuntimesRight, WorkingRight
  <2>2. Alone(id) => managed'[runtimes'[r].id] = r
    BY <1>2, <1>4
  <2> QED
    BY <1>2, <1>3, <2>1, <2>2 DEF WorkingRight
<1>9. OneRuntime'
  BY <1>2, <1>3 DEF HostInv, RuntimesRight, OneRuntime
<1>10. RuntimesRight'
  BY <1>2, <1>3, <1>4, <1>5, <1>6, <1>7, <1>8, <1>9 DEF HostInv, RuntimesRight
<1> QED
  BY <1>2, <1>4, <1>5, <1>10

\* What calls start is what they have created.
LEMMA Starting ==
  ASSUME HostInv, NEW call \in calls, call.step = "start"
  PROVE  /\ call.runtime \in DOMAIN runtimes /\ runtimes[call.runtime].id = call.id
         /\ runtimes[call.runtime].state = "starting"
         /\ \A other \in calls \ {call} : other.step = "start" => other.runtime # call.runtime
<1>1. CallRight(call) /\ \A other \in calls \ {call} : Apart(other, call)
  BY DEF HostInv, CallsRight
<1> QED
  BY <1>1 DEF CallRight, Apart

LEMMA OthersStart ==
  ASSUME HostInv, NEW call \in calls, call.step = "start", calls \ {call} \subseteq calls'
  PROVE  \A s : Starts(s) /\ s # call.runtime => Starts(s)'
BY DEF Starts

LEMMA StartRuntimeKeeps ==
  ASSUME HostInv, NEW call \in calls, StartRuntime(call)
  PROVE  HostInv'
<1>1. PICK id, r : id = call.id /\ r = call.runtime
  OBVIOUS
<1>2. call.step = "start" /\ UNCHANGED <<phase, lists, overlap, queue, sweep, made>> /\ call \in CallRecord /\ CallRight(call)
      /\ id \in Ids /\ id \in DOMAIN checkout /\ checkout[id] = call.checkout
  BY <1>1, CallTyped DEF StartRuntime, At
<1>3. /\ r \in DOMAIN runtimes /\ runtimes[r].id = id /\ runtimes[r].state = "starting"
      /\ Alone(id) => jobs[id].runtime = 0
      /\ \A other \in calls \ {call} : other.step = "start" => other.runtime # r
  BY <1>1, <1>2, Starting DEF CallRight
<1>4. timer' \in BOOLEAN /\ runtimes' = [runtimes EXCEPT ![r].state = "running"] /\ calls \ {call} \subseteq calls'
  BY <1>1, TimerBoolean DEF StartRuntime, Manage, Goes, HostInv, QueueRight
<1>5. \/ managed' = [managed EXCEPT ![id] = r] /\ jobs' = [jobs EXCEPT ![id] = [runtime |-> r, due |-> TRUE]]
         /\ jobs[id].runtime = 0
      \/ UNCHANGED <<managed, jobs>> /\ ~Alone(id)
  BY <1>1, <1>3 DEF StartRuntime, Manage
<1>6. \A s : Starts(s) /\ s # r => Starts(s)'
  BY <1>1, <1>2, <1>4, OthersStart
<1>7. /\ RuntimesRight' /\ DOMAIN runtimes' = DOMAIN runtimes
      /\ \A s \in DOMAIN runtimes : runtimes'[s].id = runtimes[s].id
      /\ \A s \in DOMAIN runtimes \ {r} : runtimes'[s] = runtimes[s]
      /\ \A other \in Ids \ {id} : managed'[other] = managed[other] /\ jobs'[other] = jobs[other]
  BY <1>2, <1>3, <1>4, <1>5, <1>6, StartedRight
<1>8. QueueRight'
  <2>1. ~Polling(r)
    BY <1>3, NotPolled DEF HostInv
  <2> QED
    BY <1>2, <1>4, <1>7, <2>1, QueueSame, LiveHere DEF HostInv
<1>9. Grows /\ CatalogRight' /\ UNCHANGED checkout /\ mixed \subseteq mixed'
  BY <1>2, Still, CatalogSame DEF HostInv, lists, overlap
<1>10. OthersRight(call)
  <2>1. \A other \in calls \ {call} : other.step = "start" => runtimes'[other.runtime].state = "starting"
    BY <1>3, <1>7, Starting
  <2>2. \A s \in DOMAIN runtimes : runtimes[s].state \in {"stopping", "stopped"} => runtimes'[s].state \in {"stopping", "stopped"}
    BY <1>3, <1>7
  <2> QED
    BY <1>1, <1>2, <1>7, <1>9, <2>1, <2>2, OthersKept DEF HostInv
<1>11. CASE calls' = calls \ {call}
  <2>1. CallsRight'
    BY <1>2, <1>9, <1>10, <1>11, CallEnds DEF HostInv
  <2> QED
    BY <1>7, <1>8, <1>9, <2>1 DEF HostInv
<1>12. CASE Goes(call, [call EXCEPT !.step = "refresh"])
  <2>1. PICK next : next = [call EXCEPT !.step = "refresh"]
    OBVIOUS
  <2>2. next \in CallRecord /\ next.step = "refresh" /\ next.id = id /\ next.checkout = call.checkout
    BY <1>1, <1>2, <2>1 DEF CallRecord, CallSteps
  <2>3. CallRight(next)' /\ StartsOwn(call, next)
    BY <1>2, <1>9, <2>2 DEF CallRight, StartsOwn
  <2> QED
    BY <1>2, <1>7, <1>8, <1>10, <1>12, <2>1, <2>2, <2>3, RuntimesStep
<1> QED
  BY <1>11, <1>12 DEF StartRuntime

\* A Runtime that never was managed leaves.
LEMMA StartFailsKeeps ==
  ASSUME HostInv, NEW call \in calls, StartFails(call)
  PROVE  HostInv'
<1>1. PICK id, r : id = call.id /\ r = call.runtime
  OBVIOUS
<1>2. call.step = "start" /\ UNCHANGED <<phase, lists, overlap, managed, jobs, queue, sweep, timer, made>>
      /\ calls' = calls \ {call} /\ runtimes' = [runtimes EXCEPT ![r].state = "failed"]
  BY <1>1 DEF StartFails, At, polling
<1>3. /\ r \in DOMAIN runtimes /\ runtimes[r].id = id /\ runtimes[r].state = "starting"
      /\ \A other \in calls \ {call} : other.step = "start" => other.runtime # r
  BY <1>1, <1>2, Starting
<1>4. runtimes \in Seq(RuntimeRecord) /\ "failed" \in RuntimeStates
  BY DEF HostInv, RuntimesRight, RuntimeStates
<1>5. /\ runtimes' \in Seq(RuntimeRecord) /\ DOMAIN runtimes' = DOMAIN runtimes
      /\ runtimes'[r].id = id /\ runtimes'[r].state = "failed"
      /\ \A s \in DOMAIN runtimes \ {r} : runtimes'[s] = runtimes[s]
      /\ \A s \in DOMAIN runtimes : runtimes'[s].id = runtimes[s].id
  BY <1>2, <1>3, <1>4, StateSet
<1>6. UNCHANGED checkout /\ (\A other : Alone(other)' <=> Alone(other))
      /\ \A s \in DOMAIN runtimes : s \in Nat \ {0} /\ runtimes[s].id \in DOMAIN checkout' /\ runtimes[s].id \in Ids
  BY <1>2, RuntimesGiven DEF HostInv
<1>7. RuntimesRight'
  <2>1. ManagedRight'
    BY <1>2, <1>3, <1>5 DEF HostInv, RuntimesRight, ManagedRight
  <2>2. JobsRight'
    BY <1>2, <1>3, <1>5, <1>6 DEF HostInv, RuntimesRight, JobsRight
  <2>3. WorkingRight'
    <3>1. \A s \in DOMAIN runtimes : Starts(s) /\ s # r => Starts(s)'
      BY <1>1, <1>2, OthersStart
    <3> QED
      BY <1>2, <1>5, <1>6, <3>1 DEF HostInv, RuntimesRight, WorkingRight, Working
  <2>4. OneRuntime'
    BY <1>3, <1>5, <1>6 DEF HostInv, RuntimesRight, OneRuntime
  <2> QED
    BY <1>2, <1>5, <1>6, <2>1, <2>2, <2>3, <2>4 DEF HostInv, RuntimesRight
<1>8. QueueRight'
  <2>1. ~Polling(r)
    BY <1>3, NotPolled DEF HostInv
  <2> QED
    BY <1>2, <1>5, <2>1, QueueSame, LiveHere DEF HostInv, QueueRight
<1>9. Grows /\ CatalogRight' /\ mixed \subseteq mixed'
  BY <1>2, Still, CatalogSame DEF HostInv, overlap
<1>10. OthersRight(call)
  <2>1. \A other \in calls \ {call} : other.step = "start" => runtimes'[other.runtime].state = "starting"
    BY <1>3, <1>5, Starting
  <2>2. \A s \in DOMAIN runtimes : runtimes[s].state \in {"stopping", "stopped"} => runtimes'[s].state \in {"stopping", "stopped"}
    BY <1>3, <1>5
  <2> QED
    BY <1>2, <1>5, <1>9, <2>1, <2>2, OthersKept DEF HostInv
<1>11. CallsRight'
  BY <1>2, <1>9, <1>10, CallEnds DEF HostInv
<1> QED
  BY <1>7, <1>8, <1>9, <1>11 DEF HostInv

\* What is managed is asked to stop: no job, and no poll that begins, is left of it.
LEMMA UnmanageKeeps ==
  ASSUME HostInv, NEW call \in calls, Unmanage(call)
  PROVE  HostInv'
<1>1. PICK id, r : id = call.id /\ r = managed[call.id]
  OBVIOUS
<1>2. call.step = "unmanage" /\ UNCHANGED <<phase, lists, overlap, managed, queue, sweep, made>>
      /\ call \in CallRecord /\ id \in Ids /\ id \in DOMAIN checkout /\ checkout[id] = call.checkout
  BY <1>1, CallTyped DEF Unmanage, At
<1>3. Grows /\ CatalogRight' /\ UNCHANGED checkout
  BY <1>2, Still, CatalogSame DEF HostInv, lists
<1>4. CASE r = 0
  <2>1. PICK next : next = [call EXCEPT !.step = "drop"]
    OBVIOUS
  <2>2. Goes(call, next) /\ UNCHANGED <<runtimes, jobs, timer>>
    BY <1>1, <1>4, <2>1 DEF Unmanage
  <2>3. next \in CallRecord /\ next.step = "drop" /\ next.id = call.id /\ next.checkout = call.checkout
    BY <1>1, <1>2, <2>1 DEF CallRecord, CallSteps
  <2> QED
    BY <1>2, <1>3, <2>2, <2>3, ProjectStep
<1>5. CASE r # 0
  <2>1. jobs' = [jobs EXCEPT ![id] = NoJob] /\ Rescheduled(jobs', queue) /\ runtimes' = [runtimes EXCEPT ![r].state = "stopping"]
    BY <1>1, <1>5 DEF Unmanage
  <2>2. PICK next : next = [call EXCEPT !.step = "stop", !.runtime = r]
    OBVIOUS
  <2>3. Goes(call, next)
    BY <1>1, <1>5, <2>2 DEF Unmanage
  <2>4. r \in DOMAIN runtimes /\ runtimes[r].id = id /\ runtimes[r].state \in {"running", "stopping"} /\ r \in Nat
    BY <1>1, <1>2, <1>5 DEF HostInv, RuntimesRight, ManagedRight
  <2>5. runtimes \in Seq(RuntimeRecord) /\ "stopping" \in RuntimeStates
    BY DEF HostInv, RuntimesRight, RuntimeStates, Working
  <2>6. /\ runtimes' \in Seq(RuntimeRecord) /\ DOMAIN runtimes' = DOMAIN runtimes
        /\ runtimes'[r].id = id /\ runtimes'[r].state = "stopping"
        /\ \A s \in DOMAIN runtimes \ {r} : runtimes'[s] = runtimes[s]
        /\ \A s \in DOMAIN runtimes : runtimes'[s].id = runtimes[s].id
    BY <2>1, <2>4, <2>5, StateSet
  <2>7. jobs' \in [Ids -> JobRecord] /\ jobs'[id].runtime = 0 /\ \A other \in Ids \ {id} : jobs'[other] = jobs[other]
    BY <1>2, <2>1 DEF NoJob, JobRecord, HostInv, RuntimesRight
  <2>8. next \in CallRecord /\ next.step = "stop" /\ next.id = id /\ next.runtime = r /\ next.checkout = call.checkout
    BY <1>1, <1>2, <2>2, <2>4 DEF CallRecord, CallSteps
  <2>9. CallRight(next)' /\ StartsOwn(call, next)
    BY <1>1, <1>2, <1>3, <2>4, <2>6, <2>7, <2>8 DEF CallRight, StartsOwn
  <2>10. \A s \in DOMAIN runtimes : runtimes'[s].state \in Working <=> runtimes[s].state \in Working
    BY <2>4, <2>6 DEF Working
  <2>11. UNCHANGED checkout /\ (\A other : Alone(other)' <=> Alone(other))
      /\ \A s \in DOMAIN runtimes : s \in Nat \ {0} /\ runtimes[s].id \in DOMAIN checkout' /\ runtimes[s].id \in Ids
    BY <1>2, RuntimesGiven DEF HostInv
  <2>12. RuntimesRight'
    <3>1. ManagedRight'
      BY <1>2, <2>4, <2>6 DEF HostInv, RuntimesRight, ManagedRight
    <3>2. JobsRight'
      <4>1. ASSUME NEW other \in Ids, jobs'[other].runtime # 0
            PROVE  /\ other # id /\ jobs[other].runtime \in DOMAIN runtimes \ {r} /\ jobs'[other] = jobs[other]
                   /\ runtimes[jobs[other].runtime].id = other /\ runtimes[jobs[other].runtime].state = "running"
                   /\ phase # "down" /\ Alone(other) => managed[other] = jobs[other].runtime
        BY <2>4, <2>7, <4>1 DEF HostInv, RuntimesRight, JobsRight
      <4> QED
        BY <1>2, <2>6, <2>11, <4>1 DEF JobsRight
    <3>3. WorkingRight'
      <4>1. \A s : Starts(s) => Starts(s)'
        BY <1>2, <2>3, StartsStay DEF Goes
      <4> QED
        BY <1>2, <2>6, <2>10, <2>11, <4>1 DEF HostInv, RuntimesRight, WorkingRight
    <3>4. OneRuntime'
      BY <2>6, <2>10, <2>11 DEF HostInv, RuntimesRight, OneRuntime, Working
    <3> QED
      BY <1>2, <2>6, <2>7, <2>11, <3>1, <3>2, <3>3, <3>4 DEF HostInv, RuntimesRight
  <2>13. QueueRight'
    BY <1>2, <2>1, <2>6, QueueSame, LiveHere, TimerBoolean DEF HostInv
  <2>14. OthersRight(call)
    <3>1. \A other \in calls \ {call} : other.step = "start" => runtimes'[other.runtime].state = "starting"
      BY <2>4, <2>6, Starting
    <3>2. \A s \in DOMAIN runtimes : runtimes[s].state \in {"stopping", "stopped"} => runtimes'[s].state \in {"stopping", "stopped"}
      BY <2>6
    <3> QED
      BY <1>1, <1>2, <1>3, <2>6, <2>7, <3>1, <3>2, OthersKept DEF HostInv
  <2> QED
    BY <1>2, <2>3, <2>8, <2>9, <2>12, <2>13, <2>14, RuntimesStep
<1> QED
  BY <1>4, <1>5

\* Nobody polls it, and it is the one that is managed or its project was not alone.
LEMMA StopRuntimeKeeps ==
  ASSUME HostInv, NEW call \in calls, StopRuntime(call)
  PROVE  HostInv'
<1>1. PICK id, r : id = call.id /\ r = call.runtime
  OBVIOUS
<1>2. call.step = "stop" /\ UNCHANGED <<phase, lists, overlap, jobs, queue, sweep, timer, made>> /\ ~Polling(r)
      /\ call \in CallRecord /\ CallRight(call)
      /\ id \in Ids /\ id \in DOMAIN checkout /\ checkout[id] = call.checkout
      /\ runtimes' = [runtimes EXCEPT ![r].state = "stopped"] /\ managed' = [managed EXCEPT ![id] = 0]
  BY <1>1, CallTyped DEF StopRuntime, At, polling, MayStop
<1>3. /\ r \in DOMAIN runtimes /\ runtimes[r].id = id /\ runtimes[r].state \in {"stopping", "stopped"}
      /\ Alone(id) => jobs[id].runtime = 0 /\ (phase # "down" => managed[id] = r)
  BY <1>1, <1>2 DEF CallRight
<1>4. runtimes \in Seq(RuntimeRecord) /\ "stopped" \in RuntimeStates
  BY DEF HostInv, RuntimesRight, RuntimeStates
<1>5. /\ runtimes' \in Seq(RuntimeRecord) /\ DOMAIN runtimes' = DOMAIN runtimes
      /\ runtimes'[r].id = id /\ runtimes'[r].state = "stopped"
      /\ \A s \in DOMAIN runtimes \ {r} : runtimes'[s] = runtimes[s]
      /\ \A s \in DOMAIN runtimes : runtimes'[s].id = runtimes[s].id
  BY <1>2, <1>3, <1>4, StateSet
<1>6. managed' \in [Ids -> Nat] /\ managed'[id] = 0 /\ \A other \in Ids \ {id} : managed'[other] = managed[other]
  BY <1>2 DEF HostInv, RuntimesRight
<1>7. UNCHANGED checkout /\ (\A other : Alone(other)' <=> Alone(other))
      /\ \A s \in DOMAIN runtimes : s \in Nat \ {0} /\ runtimes[s].id \in DOMAIN checkout' /\ runtimes[s].id \in Ids
  BY <1>2, RuntimesGiven DEF HostInv
<1>8. PICK next : next = [call EXCEPT !.step = "drop"]
  OBVIOUS
<1>9. Goes(call, next) /\ next \in CallRecord /\ next.step = "drop" /\ next.id = id /\ next.checkout = call.checkout
  BY <1>1, <1>2, <1>8 DEF CallRecord, CallSteps, StopRuntime
<1>10. CallRight(next)' /\ StartsOwn(call, next)
  BY <1>2, <1>7, <1>9 DEF CallRight, StartsOwn
<1>11. RuntimesRight'
  <2>1. ManagedRight'
    <3>1. ASSUME NEW other \in Ids, managed'[other] # 0
          PROVE  /\ managed[other] \in DOMAIN runtimes \ {r} /\ managed'[other] = managed[other]
                 /\ runtimes[managed[other]].id = other /\ runtimes[managed[other]].state \in {"running", "stopping"}
      BY <1>3, <1>6, <3>1 DEF HostInv, RuntimesRight, ManagedRight
    <3> QED
      BY <1>5, <3>1 DEF ManagedRight
  <2>2. JobsRight'
    <3>1. ASSUME NEW other \in Ids, jobs[other].runtime # 0
          PROVE  /\ jobs[other].runtime \in DOMAIN runtimes \ {r}
                 /\ runtimes[jobs[other].runtime].id = other /\ runtimes[jobs[other].runtime].state = "running"
                 /\ phase # "down" /\ Alone(other) => managed'[other] = jobs[other].runtime
      BY <1>3, <1>6, <3>1 DEF HostInv, RuntimesRight, JobsRight
    <3> QED
      BY <1>2, <1>5, <1>7, <3>1 DEF JobsRight
  <2>3. WorkingRight'
    <3>1. \A s : Starts(s) => Starts(s)'
      BY <1>2, <1>9, StartsStay DEF Goes
    <3>2. ASSUME phase # "down", NEW s \in DOMAIN runtimes \ {r}, Alone(runtimes[s].id), runtimes[s].state \in Working
          PROVE  managed'[runtimes[s].id] = s \/ Starts(s)'
      BY <1>3, <1>6, <1>7, <3>1, <3>2 DEF HostInv, RuntimesRight, WorkingRight
    <3> QED
      BY <1>2, <1>5, <1>7, <3>2 DEF WorkingRight, Working
  <2>4. OneRuntime'
    BY <1>5, <1>7 DEF HostInv, RuntimesRight, OneRuntime
  <2> QED
    BY <1>2, <1>5, <1>6, <1>7, <2>1, <2>2, <2>3, <2>4 DEF HostInv, RuntimesRight
<1>12. QueueRight'
  BY <1>2, <1>5, QueueSame, LiveHere DEF HostInv, QueueRight
<1>13. OthersRight(call)
  <2>1. \A other \in calls \ {call} : other.step = "start" => runtimes'[other.runtime].state = "starting"
    BY <1>3, <1>5, Starting
  <2>2. \A s \in DOMAIN runtimes : runtimes[s].state \in {"stopping", "stopped"} => runtimes'[s].state \in {"stopping", "stopped"}
    BY <1>5
  <2>3. Grows
    BY <1>2, Still
  <2> QED
    BY <1>1, <1>2, <1>5, <1>6, <2>1, <2>2, <2>3, OthersKept DEF HostInv
<1> QED
  BY <1>2, <1>9, <1>10, <1>11, <1>12, <1>13, RuntimesStep

-----------------------------------------------------------------------------
(* The process: one lemma for each of its steps *)

\* The phase moves between those in which the host is not down.
LEMMA PhaseMoves ==
  ASSUME RuntimesRight, UNCHANGED <<checkout, overlap, runtimes, managed, jobs, calls>>, phase # "down", phase' \in Phases \ {"down"}
  PROVE  RuntimesRight'
<1>1. \A id : Alone(id)' <=> Alone(id)
  BY DEF Alone, overlap
<1>2. ManagedRight' /\ OneRuntime'
  BY <1>1 DEF RuntimesRight, ManagedRight, OneRuntime
<1>3. JobsRight' /\ WorkingRight'
  BY <1>1 DEF RuntimesRight, JobsRight, WorkingRight, Starts
<1> QED
  BY <1>2, <1>3 DEF RuntimesRight

\* While it starts nobody calls.
LEMMA StartingAlone ==
  ASSUME HostInv, phase \in {"off", "starting"}
  PROVE  calls = {} /\ made \in Nat /\ \A s : ~Starts(s)
BY DEF HostInv, CallsRight, Starts

LEMMA BootKeeps ==
  ASSUME HostInv, Boot
  PROVE  HostInv'
<1>1. /\ phase = "off" /\ phase' = "starting" /\ catalog' = file
      /\ UNCHANGED <<file, checkout, overlap, runtimes, managed, jobs, queue, sweep, timer, calls, made>>
  BY DEF Boot, polling
<1>2. CatalogRight'
  BY <1>1 DEF HostInv, CatalogRight
<1>3. RuntimesRight'
  BY <1>1, PhaseMoves DEF HostInv, Phases
<1>4. QueueRight'
  BY <1>1, QueueSame, LiveHere DEF HostInv, QueueRight
<1>5. CallsRight'
  BY <1>1, StartingAlone, NoCalls DEF HostInv
<1> QED
  BY <1>2, <1>3, <1>4, <1>5 DEF HostInv

\* A project that is not managed has no Runtime at work.
LEMMA BootProjectKeeps ==
  ASSUME HostInv, NEW id \in Ids, BootProject(id)
  PROVE  HostInv'
<1>1. /\ phase = "starting" /\ managed[id] = 0 /\ id \in catalog
      /\ runtimes' = Append(runtimes, [id |-> id, state |-> "running"])
      /\ managed' = [managed EXCEPT ![id] = Len(runtimes) + 1]
      /\ jobs' = [jobs EXCEPT ![id] = [runtime |-> Len(runtimes) + 1, due |-> TRUE]]
      /\ UNCHANGED <<phase, lists, overlap, queue, sweep, timer, calls, made>>
  BY DEF BootProject
<1>2. runtimes \in Seq(RuntimeRecord) /\ "running" \in RuntimeStates
  BY DEF HostInv, RuntimesRight, RuntimeStates, Working
<1>3. PICK r \in Nat \ {0} :
        /\ r = Len(runtimes) + 1 /\ r \notin DOMAIN runtimes
        /\ runtimes' \in Seq(RuntimeRecord) /\ DOMAIN runtimes' = DOMAIN runtimes \cup {r}
        /\ runtimes'[r].id = id /\ runtimes'[r].state = "running"
        /\ \A s \in DOMAIN runtimes : runtimes'[s] = runtimes[s]
  BY <1>1, <1>2, RuntimeAdded
<1>4. managed' \in [Ids -> Nat] /\ managed'[id] = r /\ \A other \in Ids \ {id} : managed'[other] = managed[other]
  BY <1>1, <1>3 DEF HostInv, RuntimesRight
<1>5. jobs' \in [Ids -> JobRecord] /\ jobs'[id].runtime = r /\ \A other \in Ids \ {id} : jobs'[other] = jobs[other]
  BY <1>1, <1>3 DEF HostInv, RuntimesRight, JobRecord
<1>6. calls = {} /\ made \in Nat /\ \A s : ~Starts(s)
  BY <1>1, StartingAlone
<1>7. UNCHANGED checkout /\ (\A other : Alone(other)' <=> Alone(other))
      /\ \A s \in DOMAIN runtimes : s \in Nat \ {0} /\ runtimes[s].id \in DOMAIN checkout' /\ runtimes[s].id \in Ids
  BY <1>1, RuntimesGiven DEF HostInv
<1>8. ASSUME NEW s \in DOMAIN runtimes, runtimes[s].state \in Working, Alone(runtimes[s].id)
      PROVE  managed[runtimes[s].id] = s /\ runtimes[s].id # id
  BY <1>1, <1>6, <1>7, <1>8 DEF HostInv, RuntimesRight, WorkingRight
<1>9. ManagedRight'
  <2>1. ASSUME NEW other \in Ids, other # id, managed'[other] # 0
        PROVE  managed[other] \in DOMAIN runtimes /\ managed'[other] = managed[other]
               /\ runtimes[managed[other]].id = other /\ runtimes[managed[other]].state \in {"running", "stopping"}
    BY <1>4, <2>1 DEF HostInv, RuntimesRight, ManagedRight
  <2> QED
    BY <1>3, <1>4, <2>1 DEF ManagedRight
<1>10. JobsRight'
  <2>1. ASSUME NEW other \in Ids, other # id, jobs'[other].runtime # 0
        PROVE  jobs[other].runtime \in DOMAIN runtimes /\ jobs'[other] = jobs[other]
               /\ runtimes[jobs[other].runtime].id = other /\ runtimes[jobs[other].runtime].state = "running"
               /\ (Alone(other) => managed'[other] = jobs[other].runtime)
    BY <1>1, <1>4, <1>5, <2>1 DEF HostInv, RuntimesRight, JobsRight
  <2> QED
    BY <1>3, <1>4, <1>5, <1>7, <2>1 DEF JobsRight
<1>11. WorkingRight'
  BY <1>3, <1>4, <1>7, <1>8 DEF WorkingRight
<1>12. OneRuntime'
  BY <1>3, <1>7, <1>8 DEF HostInv, RuntimesRight, OneRuntime, Working
<1>13. \A s \in DOMAIN runtimes' : runtimes'[s].id \in DOMAIN checkout'
  BY <1>1, <1>3, <1>7 DEF HostInv, CatalogRight
<1>14. RuntimesRight'
  BY <1>1, <1>3, <1>4, <1>5, <1>9, <1>10, <1>11, <1>12, <1>13 DEF HostInv, RuntimesRight
<1>15. QueueRight'
  BY <1>1, <1>3, QueueSame, LiveHere DEF HostInv, QueueRight
<1>16. CallsRight'
  BY <1>1, <1>6, NoCalls DEF HostInv
<1> QED
  BY <1>1, <1>14, <1>15, <1>16, CatalogSame DEF HostInv

\* Only the sweep, the timer and the phase move.
LEMMA BootPollsKeeps ==
  ASSUME HostInv, BootPolls
  PROVE  HostInv'
<1>1. /\ UNCHANGED <<phase, lists, overlap, runtimes, managed, jobs, queue, calls, made>>
      /\ sweep' \subseteq Ids /\ timer' \in BOOLEAN
  BY DEF BootPolls, Jobs
<1>2. QueueRight'
  BY <1>1 DEF HostInv, QueueRight, PollsLiveRuntime, Polling
<1> QED
  BY <1>1, <1>2, PollingKeeps DEF HostInv, RuntimesRight

LEMMA BootedKeeps ==
  ASSUME HostInv, Booted
  PROVE  HostInv'
<1>1. /\ phase = "starting" /\ phase' = "up"
      /\ UNCHANGED <<lists, overlap, runtimes, managed, jobs, queue, sweep, timer, calls, made>>
  BY DEF Booted, polling
<1>2. RuntimesRight'
  BY <1>1, PhaseMoves DEF HostInv, Phases, lists
<1>3. QueueRight'
  BY <1>1, QueueSame, LiveHere DEF HostInv, QueueRight
<1>4. CallsRight'
  BY <1>1, StartingAlone, NoCalls DEF HostInv
<1> QED
  BY <1>1, <1>2, <1>3, <1>4, CatalogSame DEF HostInv

\* The calls stay the same ones.
LEMMA CallsStay ==
  ASSUME HostInv, UNCHANGED <<calls, made, overlap>>, phase' \notin {"off", "starting"}, \A call \in calls : CallRight(call)'
  PROVE  CallsRight'
<1>1. \A c, d \in calls' : c # d => Apart(c, d)'
  BY DEF HostInv, CallsRight, Apart, overlap
<1> QED
  BY <1>1 DEF HostInv, CallsRight

LEMMA StopKeeps ==
  ASSUME HostInv, StopHost
  PROVE  HostInv'
<1>1. /\ phase = "up" /\ phase' = "stopping" /\ timer' = FALSE /\ sweep' = {}
      /\ UNCHANGED <<lists, overlap, runtimes, managed, jobs, queue, calls, made>>
  BY DEF StopHost
<1>2. RuntimesRight'
  BY <1>1, PhaseMoves DEF HostInv, Phases, lists
<1>3. QueueRight'
  BY <1>1 DEF HostInv, QueueRight, PollsLiveRuntime, Polling
<1>4. ASSUME NEW call \in calls
      PROVE  CallRight(call)'
  <2>1. CallRight(call)
    BY DEF HostInv, CallsRight
  <2> QED
    BY <1>1, <2>1 DEF CallRight, Alone, lists, overlap
<1>5. CallsRight'
  BY <1>1, <1>4, CallsStay
<1> QED
  BY <1>1, <1>2, <1>3, <1>5, CatalogSame DEF HostInv

\* An empty queue polls nobody.
LEMMA EmptyQueue ==
  ASSUME queue' = <<>>, sweep' \subseteq Ids, timer' \in BOOLEAN
  PROVE  QueueRight'
BY DEF QueueRight, PollsLiveRuntime, Polling

\* A Runtime that its call starts is not managed yet, one that a call stops stays managed.
LEMMA StopAllKeeps ==
  ASSUME HostInv, StopAll
  PROVE  HostInv'
<1>1. /\ phase = "stopping" /\ phase' = "unmanage" /\ queue' = <<>>
      /\ jobs' = [id \in Ids |-> IF managed[id] = 0 THEN jobs[id] ELSE NoJob]
      /\ runtimes' = [r \in DOMAIN runtimes |->
           IF managed[runtimes[r].id] = r THEN [runtimes[r] EXCEPT !.state = "stopping"] ELSE runtimes[r]]
      /\ UNCHANGED <<lists, overlap, managed, sweep, timer, calls, made>>
  BY DEF StopAll
<1>2. /\ runtimes \in Seq(RuntimeRecord) /\ (\A r \in DOMAIN runtimes : runtimes[r] \in RuntimeRecord)
      /\ UNCHANGED checkout /\ (\A id : Alone(id)' <=> Alone(id))
      /\ \A r \in DOMAIN runtimes : r \in Nat \ {0} /\ runtimes[r].id \in DOMAIN checkout' /\ runtimes[r].id \in Ids
  BY <1>1, RuntimeTyped, RuntimesGiven DEF HostInv, RuntimesRight
<1>3. jobs' \in [Ids -> JobRecord]
      /\ \A id \in Ids : jobs'[id].runtime # 0 => managed[id] = 0 /\ jobs'[id] = jobs[id]
  BY <1>1 DEF HostInv, RuntimesRight, NoJob, JobRecord
<1>4. ASSUME NEW r \in DOMAIN runtimes
      PROVE  /\ runtimes'[r] \in RuntimeRecord /\ runtimes'[r].id = runtimes[r].id
             /\ managed[runtimes[r].id] = r => runtimes'[r].state = "stopping" /\ runtimes[r].state \in {"running", "stopping"}
             /\ managed[runtimes[r].id] # r => runtimes'[r] = runtimes[r]
  <2>1. CASE managed[runtimes[r].id] = r
    <3>1. runtimes'[r] = [runtimes[r] EXCEPT !.state = "stopping"]
      BY <1>1, <2>1
    <3>2. runtimes'[r] \in RuntimeRecord /\ runtimes'[r].id = runtimes[r].id /\ runtimes'[r].state = "stopping"
      BY <1>2, <3>1 DEF RuntimeRecord, RuntimeStates, Working
    <3>3. runtimes[r].state \in {"running", "stopping"}
      BY <1>2, <2>1 DEF HostInv, RuntimesRight, ManagedRight
    <3> QED
      BY <2>1, <3>2, <3>3
  <2>2. CASE managed[runtimes[r].id] # r
    <3>1. runtimes'[r] = runtimes[r]
      BY <1>1, <2>2
    <3> QED
      BY <1>2, <2>2, <3>1
  <2> QED
    BY <2>1, <2>2
<1>5. runtimes' \in Seq(RuntimeRecord) /\ DOMAIN runtimes' = DOMAIN runtimes
  <2>1. runtimes' = [r \in DOMAIN runtimes |-> runtimes'[r]]
    BY <1>1
  <2> QED
    BY <1>2, <1>4, <2>1, SameLength
<1>6. \A r \in DOMAIN runtimes : runtimes'[r].state \in Working <=> runtimes[r].state \in Working
  BY <1>4 DEF Working
<1>7. RuntimesRight'
  <2>1. ManagedRight'
    BY <1>1, <1>4, <1>5 DEF HostInv, RuntimesRight, ManagedRight
  <2>2. JobsRight'
    <3>1. ASSUME NEW id \in Ids, jobs'[id].runtime # 0
          PROVE  /\ jobs[id].runtime \in DOMAIN runtimes /\ jobs'[id] = jobs[id]
                 /\ runtimes[jobs[id].runtime].id = id /\ runtimes[jobs[id].runtime].state = "running"
                 /\ managed[id] # jobs[id].runtime /\ ~Alone(id)
      BY <1>1, <1>2, <1>3, <3>1 DEF HostInv, RuntimesRight, JobsRight
    <3> QED
      BY <1>2, <1>4, <1>5, <3>1 DEF JobsRight
  <2>3. WorkingRight'
    BY <1>1, <1>2, <1>4, <1>5, <1>6 DEF HostInv, RuntimesRight, WorkingRight, Starts
  <2>4. OneRuntime'
    BY <1>2, <1>4, <1>5, <1>6 DEF HostInv, RuntimesRight, OneRuntime, Working
  <2>5. \A r \in DOMAIN runtimes' : runtimes'[r].id \in DOMAIN checkout'
    BY <1>2, <1>4, <1>5
  <2> QED
    BY <1>1, <1>3, <1>5, <2>1, <2>2, <2>3, <2>4, <2>5 DEF HostInv, RuntimesRight, Phases
<1>8. ASSUME NEW call \in calls
      PROVE  CallRight(call)'
  <2>1. CallRight(call)
    BY DEF HostInv, CallsRight
  <2>2. \A id \in Ids : jobs[id].runtime = 0 => jobs'[id].runtime = 0
    BY <1>3
  <2>3. call.step \notin {"register", "create"} =>
          call.id \in Ids /\ call.id \in DOMAIN checkout' /\ checkout'[call.id] = call.checkout
    BY <1>2, <2>1 DEF CallRight
  <2>4. call.step = "write" => call.ids \subseteq DOMAIN checkout'
    BY <1>2, <2>1 DEF CallRight
  <2>5. CASE call.step = "start"
    <3>1. /\ call.runtime \in DOMAIN runtimes /\ runtimes[call.runtime].id = call.id
          /\ runtimes[call.runtime].state = "starting"
          /\ Alone(call.id) => managed[call.id] = 0 /\ jobs[call.id].runtime = 0
      BY <2>1, <2>5 DEF CallRight
    <3>2. runtimes'[call.runtime] = runtimes[call.runtime]
      BY <1>4, <3>1
    <3> QED
      BY <1>1, <1>2, <1>5, <2>2, <2>3, <2>5, <3>1, <3>2 DEF CallRight
  <2>6. CASE call.step = "stop"
    <3>1. /\ call.runtime \in DOMAIN runtimes /\ runtimes[call.runtime].id = call.id
          /\ runtimes[call.runtime].state \in {"stopping", "stopped"}
          /\ Alone(call.id) => jobs[call.id].runtime = 0 /\ managed[call.id] = call.runtime
      BY <1>1, <2>1, <2>6 DEF CallRight
    <3>2. runtimes'[call.runtime].id = call.id /\ runtimes'[call.runtime].state \in {"stopping", "stopped"}
      BY <1>4, <3>1
    <3> QED
      BY <1>1, <1>2, <1>5, <2>2, <2>3, <2>6, <3>1, <3>2 DEF CallRight
  <2> QED
    BY <2>3, <2>4, <2>5, <2>6 DEF CallRight
<1>9. CallsRight'
  BY <1>1, <1>8, CallsStay
<1>10. QueueRight'
  BY <1>1, EmptyQueue DEF HostInv, QueueRight
<1> QED
  BY <1>1, <1>7, <1>9, <1>10, CatalogSame DEF HostInv

\* A job belongs to a Runtime that runs, so no job is left of those that stop.
LEMMA StoppedKeeps ==
  ASSUME HostInv, Stopped
  PROVE  HostInv'
<1>1. /\ phase = "unmanage" /\ phase' = "down" /\ \A r \in DOMAIN runtimes : ~Polling(r)
      /\ runtimes' = [r \in DOMAIN runtimes |->
           IF runtimes[r].state = "stopping" THEN [runtimes[r] EXCEPT !.state = "stopped"] ELSE runtimes[r]]
      /\ managed' = [id \in Ids |-> 0]
      /\ UNCHANGED <<lists, overlap, jobs, queue, sweep, timer, calls, made>>
  BY DEF Stopped, polling, MayStop
<1>2. /\ runtimes \in Seq(RuntimeRecord) /\ (\A r \in DOMAIN runtimes : runtimes[r] \in RuntimeRecord)
      /\ UNCHANGED checkout /\ (\A id : Alone(id)' <=> Alone(id))
      /\ \A r \in DOMAIN runtimes : r \in Nat \ {0} /\ runtimes[r].id \in DOMAIN checkout' /\ runtimes[r].id \in Ids
  BY <1>1, RuntimeTyped, RuntimesGiven DEF HostInv, RuntimesRight
<1>3. ASSUME NEW r \in DOMAIN runtimes
      PROVE  /\ runtimes'[r] \in RuntimeRecord /\ runtimes'[r].id = runtimes[r].id
             /\ runtimes'[r].state \in Working => runtimes[r].state \in Working
             /\ runtimes[r].state # "stopping" => runtimes'[r] = runtimes[r]
             /\ runtimes[r].state = "stopping" => runtimes'[r].state = "stopped"
  <2>1. CASE runtimes[r].state = "stopping"
    <3>1. runtimes'[r] = [runtimes[r] EXCEPT !.state = "stopped"]
      BY <1>1, <2>1
    <3>2. runtimes'[r] \in RuntimeRecord /\ runtimes'[r].id = runtimes[r].id /\ runtimes'[r].state = "stopped"
      BY <1>2, <3>1 DEF RuntimeRecord, RuntimeStates
    <3> QED
      BY <2>1, <3>2 DEF Working
  <2>2. CASE runtimes[r].state # "stopping"
    <3>1. runtimes'[r] = runtimes[r]
      BY <1>1, <2>2
    <3> QED
      BY <1>2, <2>2, <3>1
  <2> QED
    BY <2>1, <2>2
<1>4. runtimes' \in Seq(RuntimeRecord) /\ DOMAIN runtimes' = DOMAIN runtimes
  <2>1. runtimes' = [r \in DOMAIN runtimes |-> runtimes'[r]]
    BY <1>1
  <2> QED
    BY <1>2, <1>3, <2>1, SameLength
<1>5. RuntimesRight'
  <2>1. managed' \in [Ids -> Nat] /\ \A id \in Ids : managed'[id] = 0
    BY <1>1
  <2>2. ManagedRight'
    BY <2>1 DEF ManagedRight
  <2>3. JobsRight'
    BY <1>1, <1>3, <1>4 DEF HostInv, RuntimesRight, JobsRight
  <2>4. WorkingRight'
    BY <1>1 DEF WorkingRight
  <2>5. OneRuntime'
    BY <1>2, <1>3, <1>4 DEF HostInv, RuntimesRight, OneRuntime, Working
  <2>6. \A r \in DOMAIN runtimes' : runtimes'[r].id \in DOMAIN checkout'
    BY <1>2, <1>3, <1>4
  <2> QED
    BY <1>1, <1>4, <2>1, <2>2, <2>3, <2>4, <2>5, <2>6 DEF HostInv, RuntimesRight, Phases
<1>6. ASSUME NEW call \in calls
      PROVE  CallRight(call)'
  <2>1. CallRight(call) /\ (call.step \notin {"register", "create"} => call.id \in Ids)
    BY DEF HostInv, CallsRight, CallRight
  <2> QED
    BY <1>1, <1>2, <1>3, <1>4, <2>1 DEF CallRight
<1>7. CallsRight'
  BY <1>1, <1>6, CallsStay
<1>8. QueueRight'
  BY <1>1, <1>4, QueueSame DEF HostInv, QueueRight
<1> QED
  BY <1>1, <1>5, <1>7, <1>8, CatalogSame DEF HostInv

\* Nothing survives the process but the file.
LEMMA EndsKeeps ==
  ASSUME HostInv, Ends
  PROVE  HostInv'
<1>1. /\ phase' = "off" /\ catalog' = {} /\ calls' = {}
      /\ runtimes' = [r \in DOMAIN runtimes |-> [runtimes[r] EXCEPT !.state = "gone"]]
      /\ managed' = [id \in Ids |-> 0] /\ jobs' = [id \in Ids |-> NoJob]
      /\ queue' = <<>> /\ sweep' = {} /\ timer' = FALSE
      /\ UNCHANGED <<file, checkout, made>>
  BY DEF Ends
<1>2. runtimes \in Seq(RuntimeRecord) /\ \A r \in DOMAIN runtimes : runtimes[r] \in RuntimeRecord
  BY RuntimeTyped DEF HostInv, RuntimesRight
<1>3. ASSUME NEW r \in DOMAIN runtimes
      PROVE  runtimes'[r] \in RuntimeRecord /\ runtimes'[r].state = "gone" /\ runtimes'[r].id = runtimes[r].id
  <2>1. runtimes'[r] = [runtimes[r] EXCEPT !.state = "gone"]
    BY <1>1
  <2> QED
    BY <1>2, <2>1 DEF RuntimeRecord, RuntimeStates
<1>4. runtimes' \in Seq(RuntimeRecord) /\ DOMAIN runtimes' = DOMAIN runtimes
  <2>1. runtimes' = [r \in DOMAIN runtimes |-> runtimes'[r]]
    BY <1>1
  <2> QED
    BY <1>2, <1>3, <2>1, SameLength
<1>5. /\ managed' \in [Ids -> Nat] /\ jobs' \in [Ids -> JobRecord]
      /\ \A id \in Ids : managed'[id] = 0 /\ jobs'[id].runtime = 0
  BY <1>1 DEF NoJob, JobRecord
<1>6. RuntimesRight'
  <2>1. ManagedRight' /\ JobsRight'
    BY <1>5 DEF ManagedRight, JobsRight
  <2>2. WorkingRight' /\ OneRuntime'
    BY <1>3, <1>4 DEF WorkingRight, OneRuntime, Working
  <2>3. \A r \in DOMAIN runtimes' : runtimes'[r].id \in DOMAIN checkout'
    BY <1>1, <1>3, <1>4 DEF HostInv, RuntimesRight
  <2> QED
    BY <1>1, <1>4, <1>5, <2>1, <2>2, <2>3 DEF RuntimesRight, Phases
<1>7. CatalogRight'
  BY <1>1 DEF HostInv, CatalogRight
<1>8. QueueRight'
  BY <1>1, EmptyQueue
<1>9. CallsRight'
  BY <1>1, NoCalls DEF HostInv, CallsRight
<1> QED
  BY <1>6, <1>7, <1>8, <1>9 DEF HostInv

-----------------------------------------------------------------------------
(* The specification *)

LEMMA HostInvInit ==
  ASSUME HostInit
  PROVE  HostInv
<1>1. /\ phase = "off" /\ catalog = {} /\ file = 1..Known /\ checkout \in [1..Known -> Checkouts] /\ runtimes = <<>>
      /\ managed = [id \in Ids |-> 0] /\ jobs = [id \in Ids |-> NoJob]
      /\ queue = <<>> /\ sweep = {} /\ timer = FALSE /\ calls = {} /\ made = 0
  BY DEF HostInit
<1>2. CatalogRight
  <2>1. checkout \in Seq(Checkouts) /\ Len(checkout) = Known /\ DOMAIN checkout = 1..Known
    BY <1>1, HostBounds
  <2> QED
    BY <1>1, <2>1, HostBounds DEF CatalogRight
<1>3. RuntimesRight
  <2>1. runtimes \in Seq(RuntimeRecord) /\ DOMAIN runtimes = {}
    BY <1>1
  <2>2. /\ managed \in [Ids -> Nat] /\ jobs \in [Ids -> JobRecord]
        /\ \A id \in Ids : managed[id] = 0 /\ jobs[id].runtime = 0
    BY <1>1 DEF NoJob, JobRecord
  <2> QED
    BY <1>1, <2>1, <2>2 DEF RuntimesRight, ManagedRight, JobsRight, WorkingRight, OneRuntime, Phases
<1>4. QueueRight
  <2>1. queue \in Seq(PollRecord) /\ DOMAIN queue = {} /\ \A r : ~Polling(r)
    BY <1>1 DEF Polling
  <2> QED
    BY <1>1, <2>1 DEF QueueRight, PollsLiveRuntime
<1>5. CallsRight
  BY <1>1 DEF CallsRight
<1> QED
  BY <1>2, <1>3, <1>4, <1>5 DEF HostInv

LEMMA StutterKeeps ==
  ASSUME HostInv, UNCHANGED hostVars
  PROVE  HostInv'
<1>1. UNCHANGED <<phase, lists, overlap, runtimes, managed, calls, made, jobs, queue, sweep, timer>>
  BY DEF hostVars, polling
<1>2. QueueRight'
  BY <1>1, QueueSame, LiveHere DEF HostInv, QueueRight
<1> QED
  BY <1>1, <1>2, PollingKeeps DEF HostInv, RuntimesRight

LEMMA HostInvNext ==
  ASSUME HostInv, [HostNext]_hostVars
  PROVE  HostInv'
<1>1. CASE Polls
  BY <1>1, PollBeginsKeeps, PollEndsKeeps, FiresKeeps, ComesDueKeeps, SweepsKeeps DEF Polls
<1>2. CASE Stops
  BY <1>2, StopAllKeeps, StoppedKeeps DEF Stops
<1>3. ASSUME NEW call \in calls, Steps(call)
      PROVE  HostInv'
  BY <1>3, RegisterKeeps, CreateKeeps, WriteAddedKeeps, CreateRuntimeKeeps, StartRuntimeKeeps, RefreshAddedKeeps,
     AddedKeeps, UnmanageKeeps, StopRuntimeKeeps, DropKeeps, WriteRemovedKeeps DEF Steps
<1>4. ASSUME NEW call \in calls, StartFails(call)
      PROVE  HostInv'
  BY <1>4, StartFailsKeeps
<1>5. ASSUME NEW c \in Checkouts, AddProject(c)
      PROVE  HostInv'
  BY <1>5, AddProjectKeeps
<1>6. ASSUME NEW id \in Ids, RemoveProject(id) \/ BootProject(id)
      PROVE  HostInv'
  BY <1>6, RemoveProjectKeeps, BootProjectKeeps
<1>7. CASE Boot \/ BootPolls \/ Booted \/ StopHost \/ Ends
  BY <1>7, BootKeeps, BootPollsKeeps, BootedKeeps, StopKeeps, EndsKeeps
<1> QED
  BY <1>1, <1>2, <1>3, <1>4, <1>5, <1>6, <1>7, StutterKeeps DEF HostNext

\* What the run checks follows.
LEMMA InvShows ==
  ASSUME HostInv
  PROVE  RuntimesExclusive
<1>1. HostTypeOK
  <2>1. phase \in {"off", "starting", "up", "stopping", "unmanage", "down"} /\ timer \in BOOLEAN /\ sweep \subseteq Ids
    BY DEF HostInv, RuntimesRight, QueueRight, Phases
  <2>2. catalog \subseteq DOMAIN checkout /\ file \subseteq DOMAIN checkout
    BY DEF HostInv, CatalogRight
  <2>3. \A id \in Ids : managed[id] # 0 => managed[id] \in DOMAIN runtimes /\ runtimes[managed[id]].id = id
    BY DEF HostInv, RuntimesRight, ManagedRight
  <2>4. \A id \in Ids : jobs[id].runtime # 0 => runtimes[jobs[id].runtime].id = id
    BY DEF HostInv, RuntimesRight, JobsRight
  <2>5. \A i \in DOMAIN queue : queue[i].polling => i = 1
    BY DEF HostInv, QueueRight
  <2> QED
    BY <2>1, <2>2, <2>3, <2>4, <2>5 DEF HostTypeOK
<1>2. OneRuntime /\ PollsLiveRuntime
  BY DEF HostInv, RuntimesRight, QueueRight
<1> QED
  BY <1>1, <1>2 DEF RuntimesExclusive

\* However calls overlap, only a Runtime that has not stopped is polled, and a project has one Runtime
\* at work unless two calls were about its checkout at once: through adds, removals, failing starts,
\* stops and crashes of the host (runtime/host/desktop-runtime-host.ts).
THEOREM OneRuntimePerProject == HostSpec => []RuntimesExclusive
<1>1. HostInit => HostInv
  BY HostInvInit
<1>2. HostInv /\ [HostNext]_hostVars => HostInv'
  BY HostInvNext
<1>3. HostInv => RuntimesExclusive
  BY InvShows
<1> QED
  BY <1>1, <1>2, <1>3, PTL DEF HostSpec

-----------------------------------------------------------------------------
(* What clients are told *)

\* An answer is what the registry says; a project that was removed does not come back.
AnswersRight ==
  /\ told \in [Ids -> {"unknown", "added", "removed"}]
  /\ \A id \in Ids : told[id] # "unknown" => id \in DOMAIN checkout
  /\ \A id \in Ids : id \in DOMAIN checkout /\ Alone(id) =>
       /\ told[id] = "added" => id \in file
       /\ told[id] = "removed" => id \notin file \cup catalog

\* The list a call is about to write is the one in memory, and differs from that of the registry
\* by its project only; a call that adds goes on with a project the registry has.
WritesRight(call) ==
  /\ call.step = "write" =>
       /\ call.ids = catalog
       /\ call.ids = IF call.kind = "add" THEN file \cup {call.id} ELSE file \ {call.id}
  /\ call.kind = "add" /\ call.step \notin {"register", "create", "write"} /\ Alone(call.id) => call.id \in file

\* Memory and the registry differ only while a call is about to write, and one is at a time.
RegistryRight ==
  /\ \A c, d \in calls : c.step = "write" /\ d.step = "write" => c = d
  /\ phase # "off" /\ (\A call \in calls : call.step # "write") => catalog = file

CInv == ~crossed => AnswersRight /\ RegistryRight /\ \A call \in calls : WritesRight(call)

\* Steps that leave the registry and the answers alone, and put no call before a write.
LEMMA RegistrySame ==
  ASSUME HostInv, CInv, Grows, UNCHANGED <<lists, told, crossed>>, phase' # "off" => phase # "off",
         \A call \in calls : call.step = "write" => call \in calls',
         \A next \in calls' : next \in calls \/ (next.step # "write" /\ WritesRight(next)
           /\ (next.step \notin {"register", "create"} => next.id \in DOMAIN checkout))
  PROVE  CInv'
<1>1. SUFFICES ASSUME ~crossed'
               PROVE  AnswersRight' /\ RegistryRight' /\ \A call \in calls' : WritesRight(call)'
  BY DEF CInv
<1>2. AnswersRight /\ RegistryRight /\ \A call \in calls : WritesRight(call)
  BY <1>1 DEF CInv
<1>3. UNCHANGED <<catalog, file, checkout>> /\ \A id \in DOMAIN checkout : Alone(id)' => Alone(id)
  BY WasAlone DEF lists
<1>4. AnswersRight'
  BY <1>2, <1>3 DEF AnswersRight
<1>5. RegistryRight'
  BY <1>2, <1>3 DEF RegistryRight
<1>6. ASSUME NEW next \in calls'
      PROVE  WritesRight(next)'
  <2>1. WritesRight(next) /\ (next.step \notin {"register", "create"} => next.id \in DOMAIN checkout)
    BY <1>2, <1>6, CallTyped
  <2> QED
    BY <1>3, <2>1 DEF WritesRight
<1> QED
  BY <1>4, <1>5, <1>6

\* A call goes on to a step that writes nothing, or is over.
LEMMA CallGoesBeside ==
  ASSUME HostInv, CInv, NEW call \in calls, NEW next, Goes(call, next) \/ calls' = calls \ {call}, call.step # "write",
         next.step # "write", next.step \notin {"register", "create"} => next.id \in DOMAIN checkout,
         ~crossed => WritesRight(next), UNCHANGED <<lists, told, phase, overlap>>
  PROVE  CInv'
<1>1. Grows /\ UNCHANGED crossed
  BY Still DEF overlap
<1>2. CASE crossed
  BY <1>1, <1>2 DEF CInv
<1>3. CASE ~crossed
  BY <1>1, <1>3, RegistrySame DEF Goes
<1> QED
  BY <1>2, <1>3

\* The client is told of the project.
LEMMA AddedAnswered ==
  ASSUME HostInv, CInv, NEW call \in calls, Tell(call, "added"), call.kind = "add",
         call.step \notin {"write", "register", "create"}, UNCHANGED <<lists, phase, overlap>>
  PROVE  CInv'
<1>1. SUFFICES ASSUME ~crossed
               PROVE  AnswersRight' /\ RegistryRight' /\ \A other \in calls' : WritesRight(other)'
  BY DEF CInv, overlap
<1>2. AnswersRight /\ RegistryRight /\ \A other \in calls : WritesRight(other)
  BY <1>1 DEF CInv
<1>3. UNCHANGED <<catalog, file, checkout, mixed>> /\ \A id : Alone(id)' <=> Alone(id)
  BY DEF lists, overlap, Alone
<1>4. calls' = calls \ {call} /\ told' = [told EXCEPT ![call.id] = "added"] /\ call.id \in Ids /\ call.id \in DOMAIN checkout
      /\ (Alone(call.id) => call.id \in file)
  BY <1>2, CallTyped DEF Tell, WritesRight
<1>5. AnswersRight'
  BY <1>2, <1>3, <1>4 DEF AnswersRight
<1>6. RegistryRight' /\ \A other \in calls' : WritesRight(other)'
  BY <1>2, <1>3, <1>4 DEF RegistryRight, WritesRight
<1> QED
  BY <1>5, <1>6

LEMMA PollsAnswer ==
  ASSUME HostInv, CInv, Polls
  PROVE  CInv'
<1>1. UNCHANGED <<lists, told, phase, overlap>>
  BY DEF Polls, PollBegins, PollEnds, Fires, ComesDue, Sweeps
<1>2. Grows /\ UNCHANGED crossed
  BY <1>1, Still DEF overlap
<1>3. CASE crossed
  BY <1>2, <1>3 DEF CInv
<1>4. CASE UNCHANGED calls
  BY <1>1, <1>2, <1>4, RegistrySame
<1>5. ASSUME NEW r, Polled(r), ~crossed
      PROVE  CInv'
  <2> DEFINE waited(call) == IF call.step = "await" /\ call.runtime = r THEN [call EXCEPT !.step = "polled"] ELSE call
  <2>1. calls' = {waited(call) : call \in calls}
    BY <1>5 DEF Polled
  <2>2. ASSUME NEW call \in calls
        PROVE  /\ call.step = "write" => waited(call) = call
               /\ waited(call) = call \/ (waited(call).step # "write" /\ WritesRight(waited(call))
                                          /\ waited(call).id \in DOMAIN checkout)
    <3>1. call \in CallRecord /\ WritesRight(call)
      BY <1>5, CallTyped DEF CInv
    <3>2. CASE call.step = "await" /\ call.runtime = r
      <4>1. waited(call).step = "polled" /\ waited(call).kind = call.kind /\ waited(call).id = call.id
        BY <3>1, <3>2 DEF CallRecord
      <4>2. call.id \in DOMAIN checkout
        BY <3>2, CallTyped
      <4> QED
        BY <3>1, <3>2, <4>1, <4>2 DEF WritesRight
    <3> QED
      BY <3>2
  <2> HIDE DEF waited
  <2> QED
    BY <1>1, <1>2, <2>1, <2>2, RegistrySame
<1> QED
  BY <1>3, <1>4, <1>5 DEF Polls, PollBegins, PollEnds, Fires, ComesDue, Sweeps

LEMMA RegisterAnswer ==
  ASSUME HostInv, CInv, NEW call \in calls, Register(call)
  PROVE  CInv'
<1>1. call.kind = "add" /\ call.step = "register" /\ UNCHANGED <<phase, lists, told, overlap>> /\ call \in CallRecord
      /\ phase # "off"
  BY CallTyped DEF Register, At
<1>2. CASE Existing(call.checkout) # {}
  <2>1. PICK id \in Existing(call.checkout) : Goes(call, [call EXCEPT !.step = "check", !.id = id])
    BY <1>2 DEF Register
  <2>2. PICK next : next = [call EXCEPT !.step = "check", !.id = id]
    OBVIOUS
  <2>3. next.kind = "add" /\ next.step = "check" /\ next.id = id /\ Goes(call, next)
    BY <1>1, <2>1, <2>2 DEF CallRecord
  <2>4. id \in catalog /\ id \in DOMAIN checkout /\ checkout[id] = call.checkout
    BY DEF Existing, HostInv, CatalogRight
  <2>5. ASSUME ~crossed, Alone(id)
        PROVE  id \in file
    <3>1. CASE \A other \in calls : other.step # "write"
      BY <1>1, <2>4, <2>5, <3>1 DEF CInv, RegistryRight
    <3>2. ASSUME NEW other \in calls, other.step = "write"
          PROVE  id \in file
      <4>1. WritesRight(other)
        BY <2>5 DEF CInv
      <4>2. Apart(call, other) /\ CallRight(other)
        BY <1>1, <3>2, CallTyped DEF HostInv, CallsRight
      <4>3. other.id # id
        BY <2>4, <2>5, <3>2, <4>2 DEF Apart, CallRight, Alone
      <4> QED
        BY <2>4, <3>2, <4>1, <4>3 DEF WritesRight
    <3> QED
      BY <3>1, <3>2
  <2>6. ~crossed => WritesRight(next)
    BY <2>3, <2>5 DEF WritesRight
  <2> QED
    BY <1>1, <2>3, <2>4, <2>6, CallGoesBeside
<1>3. CASE Existing(call.checkout) = {}
  <2>1. PICK next : next = [call EXCEPT !.step = "create"]
    OBVIOUS
  <2>2. next.step = "create" /\ Goes(call, next)
    BY <1>1, <1>3, <2>1 DEF CallRecord, Register
  <2>3. WritesRight(next)
    BY <2>2 DEF WritesRight
  <2> QED
    BY <1>1, <2>2, <2>3, CallGoesBeside
<1> QED
  BY <1>2, <1>3

\* The list in memory changes by one project, and nobody else is about to write.
LEMMA ChangedAnswer ==
  ASSUME HostInv, CInv, Grows, NEW call \in calls, NEW id, Changed(call, id), ~crossed', call.step # "write",
         catalog' = IF call.kind = "add" THEN catalog \cup {id} ELSE catalog \ {id},
         AnswersRight => AnswersRight', UNCHANGED <<file, phase>>
  PROVE  CInv'
<1>1. ~crossed /\ \A other \in calls : other.step # "write"
  BY DEF Changed
<1>2. AnswersRight /\ RegistryRight /\ \A other \in calls : WritesRight(other)
  BY <1>1 DEF CInv
<1>3. call \in CallRecord /\ phase # "off" /\ catalog = file
  BY <1>1, <1>2, CallTyped DEF RegistryRight
<1>4. PICK list : list = catalog'
  OBVIOUS
<1>5. PICK next : next = [call EXCEPT !.step = "write", !.id = id, !.ids = list]
  OBVIOUS
<1>6. next.step = "write" /\ next.kind = call.kind /\ next.id = id /\ next.ids = list
  BY <1>3, <1>5 DEF CallRecord
<1>7. calls' = (calls \ {call}) \cup {next}
  BY <1>4, <1>5 DEF Changed, Goes
<1>8. RegistryRight'
  BY <1>1, <1>6, <1>7 DEF RegistryRight
<1>9. WritesRight(next)'
  BY <1>3, <1>4, <1>6 DEF WritesRight
<1>10. ASSUME NEW other \in calls
       PROVE  WritesRight(other)'
  <2>1. other.step \notin {"register", "create"} => other.id \in DOMAIN checkout
    BY CallTyped
  <2>2. WritesRight(other) /\ other.step # "write"
    BY <1>1, <1>2
  <2> QED
    BY <2>1, <2>2, WasAlone DEF WritesRight
<1> QED
  BY <1>2, <1>7, <1>8, <1>9, <1>10 DEF CInv

LEMMA CreateAnswer ==
  ASSUME HostInv, CInv, NEW call \in calls, Create(call)
  PROVE  CInv'
<1>1. call.kind = "add" /\ call.step = "create" /\ UNCHANGED <<phase, file, told>> /\ call \in CallRecord
  BY CallTyped DEF Create, At
<1>2. PICK id : id = Len(checkout) + 1
  OBVIOUS
<1>3. CASE /\ Len(checkout) < MaxIds /\ checkout' = Append(checkout, call.checkout)
           /\ catalog' = catalog \cup {id} /\ Changed(call, id)
  <2>1. CASE crossed'
    BY <2>1 DEF CInv
  <2>2. CASE ~crossed'
    <3>1. /\ id \notin DOMAIN checkout /\ DOMAIN checkout' = DOMAIN checkout \cup {id} /\ mixed' = mixed
          /\ \A i \in DOMAIN checkout : checkout'[i] = checkout[i]
      <4>1. checkout \in Seq(Checkouts) /\ call.checkout \in Checkouts
        BY <1>1 DEF HostInv, CatalogRight, CallRecord
      <4>2. mixed' = mixed
        BY <1>3 DEF Changed
      <4> QED
        BY <1>2, <1>3, <4>1, <4>2
    <3>2. Grows
      BY <3>1 DEF Grows
    <3>3. ASSUME AnswersRight
          PROVE  AnswersRight'
      <4>1. told' \in [Ids -> {"unknown", "added", "removed"}] /\ \A i \in Ids : told'[i] # "unknown" => i \in DOMAIN checkout
        BY <1>1, <3>3 DEF AnswersRight
      <4>2. ASSUME NEW i \in Ids, i \in DOMAIN checkout', Alone(i)'
            PROVE  /\ told'[i] = "added" => i \in file'
                   /\ told'[i] = "removed" => i \notin file' \cup catalog'
        <5>1. CASE i \in DOMAIN checkout
          <6>1. Alone(i) /\ i # id
            BY <3>1, <3>2, <4>2, <5>1, WasAlone
          <6> QED
            BY <1>1, <1>3, <3>3, <4>2, <5>1, <6>1 DEF AnswersRight
        <5>2. CASE i \notin DOMAIN checkout
          BY <4>1, <4>2, <5>2
        <5> QED
          BY <5>1, <5>2
      <4> QED
        BY <3>1, <4>1, <4>2 DEF AnswersRight
    <3> QED
      BY <1>1, <1>3, <2>2, <3>2, <3>3, ChangedAnswer
  <2> QED
    BY <2>1, <2>2
<1>4. CASE calls' = calls \ {call} /\ UNCHANGED <<catalog, checkout, overlap>>
  <2>1. UNCHANGED <<lists, told, crossed>> /\ Grows
    BY <1>1, <1>4, Still DEF lists, overlap
  <2> QED
    BY <1>1, <1>4, <2>1, RegistrySame
<1> QED
  BY <1>2, <1>3, <1>4 DEF Create

\* The registry gets the list in memory, and nobody else is about to write.
LEMMA WriteAnswer ==
  ASSUME HostInv, CInv, ~crossed, NEW call \in calls, call.step = "write", file' = call.ids,
         UNCHANGED <<phase, catalog, checkout, overlap>>
  PROVE  /\ AnswersRight /\ file' = catalog /\ (\A id : Alone(id)' <=> Alone(id)) /\ ~crossed'
         /\ file' = IF call.kind = "add" THEN file \cup {call.id} ELSE file \ {call.id}
         /\ \A other \in calls \ {call} : other.step # "write" /\ WritesRight(other)'
<1>1. AnswersRight /\ RegistryRight /\ (\A other \in calls : WritesRight(other)) /\ ~crossed'
  BY DEF CInv, overlap
<1>2. file' = catalog /\ file' = (IF call.kind = "add" THEN file \cup {call.id} ELSE file \ {call.id})
      /\ (\A id : Alone(id)' <=> Alone(id))
  BY <1>1 DEF WritesRight, Alone, overlap
<1>3. ASSUME NEW other \in calls \ {call}
      PROVE  other.step # "write" /\ WritesRight(other)'
  <2>1. other.step # "write" /\ WritesRight(other)
    BY <1>1 DEF RegistryRight
  <2>2. other.step \notin {"register", "create"} /\ Alone(other.id) => other.id # call.id
    BY OtherProject DEF HostInv
  <2> QED
    BY <1>2, <2>1, <2>2 DEF WritesRight
<1> QED
  BY <1>1, <1>2, <1>3

LEMMA WriteAddedAnswer ==
  ASSUME HostInv, CInv, NEW call \in calls, WriteAdded(call)
  PROVE  CInv'
<1>1. call.kind = "add" /\ call.step = "write" /\ UNCHANGED <<phase, catalog, checkout, told, overlap>> /\ file' = call.ids
      /\ call \in CallRecord
  BY CallTyped DEF WriteAdded, At, Written
<1>2. CASE crossed
  BY <1>1, <1>2 DEF CInv, overlap
<1>3. CASE ~crossed
  <2>1. /\ AnswersRight /\ file' = catalog /\ (\A id : Alone(id)' <=> Alone(id)) /\ ~crossed'
        /\ file' = file \cup {call.id}
        /\ \A other \in calls \ {call} : other.step # "write" /\ WritesRight(other)'
    BY <1>1, <1>3, WriteAnswer
  <2>2. PICK next : next = [call EXCEPT !.step = "check"]
    OBVIOUS
  <2>3. calls' = (calls \ {call}) \cup {next} /\ next.step = "check" /\ next.id = call.id /\ next.kind = call.kind
    BY <1>1, <2>2 DEF WriteAdded, Goes, CallRecord
  <2>4. AnswersRight'
    BY <1>1, <2>1 DEF AnswersRight
  <2>5. RegistryRight' /\ WritesRight(next)'
    BY <1>1, <2>1, <2>3 DEF RegistryRight, WritesRight
  <2> QED
    BY <2>1, <2>3, <2>4, <2>5 DEF CInv
<1> QED
  BY <1>2, <1>3

LEMMA WriteRemovedAnswer ==
  ASSUME HostInv, CInv, NEW call \in calls, WriteRemoved(call)
  PROVE  CInv'
<1>1. call.kind = "remove" /\ call.step = "write" /\ UNCHANGED <<phase, catalog, checkout, overlap>> /\ file' = call.ids
      /\ call.id \in Ids /\ call.id \in DOMAIN checkout /\ calls' = calls \ {call}
      /\ told' = [told EXCEPT ![call.id] = "removed"]
  BY CallTyped DEF WriteRemoved, At, Written, Tell
<1>2. CASE crossed
  BY <1>1, <1>2 DEF CInv, overlap
<1>3. CASE ~crossed
  <2>1. /\ AnswersRight /\ file' = catalog /\ (\A id : Alone(id)' <=> Alone(id)) /\ ~crossed'
        /\ file' = file \ {call.id}
        /\ \A other \in calls \ {call} : other.step # "write" /\ WritesRight(other)'
    BY <1>1, <1>3, WriteAnswer
  <2>2. AnswersRight'
    BY <1>1, <2>1 DEF AnswersRight
  <2>3. RegistryRight'
    BY <1>1, <2>1 DEF RegistryRight
  <2> QED
    BY <1>1, <2>1, <2>2, <2>3 DEF CInv
<1> QED
  BY <1>2, <1>3

\* The steps of a call that leave the registry alone.
LEMMA StepsBeside ==
  ASSUME HostInv, CInv, NEW call \in calls,
         \/ CreateRuntime(call) \/ StartRuntime(call) \/ StartFails(call) \/ RefreshAdded(call) \/ Added(call)
         \/ Unmanage(call) \/ StopRuntime(call)
  PROVE  CInv'
<1>1. call \in CallRecord /\ UNCHANGED <<lists, phase, overlap>>
  BY CallTyped DEF CreateRuntime, StartRuntime, StartFails, RefreshAdded, Added, Unmanage, StopRuntime
<1>2. call.step \in {"check", "start", "refresh", "polled", "unmanage", "stop"}
  BY DEF CreateRuntime, StartRuntime, StartFails, RefreshAdded, Added, Unmanage, StopRuntime, At
<1>3. call.id \in DOMAIN checkout /\ (~crossed => WritesRight(call)) /\ Grows /\ UNCHANGED crossed
  BY <1>1, <1>2, CallTyped, Still DEF CInv, overlap
<1>4. CASE calls' = calls \ {call} /\ UNCHANGED told
  BY <1>1, <1>2, <1>3, <1>4, RegistrySame
<1>5. CASE Tell(call, "added") /\ call.kind = "add"
  BY <1>1, <1>2, <1>5, AddedAnswered
<1>6. ASSUME NEW next, Goes(call, next), next.kind = call.kind, next.id = call.id, UNCHANGED told,
             next.step \in {"start", "refresh", "await", "stop", "drop"}
      PROVE  CInv'
  BY <1>1, <1>2, <1>3, <1>6, CallGoesBeside DEF WritesRight
<1>7. CASE CreateRuntime(call)
  <2>1. CASE NeedsRuntime(call.id)
    <3>1. PICK next : next = [call EXCEPT !.step = "start", !.runtime = Len(runtimes) + 1]
      OBVIOUS
    <3>2. next.step = "start" /\ next.kind = call.kind /\ next.id = call.id /\ Goes(call, next) /\ UNCHANGED told
      BY <1>1, <1>7, <2>1, <3>1 DEF CreateRuntime, CallRecord
    <3> QED
      BY <1>6, <3>2
  <2> QED
    BY <1>5, <1>7, <2>1 DEF CreateRuntime, At
<1>8. CASE StartRuntime(call)
  <2>1. CASE jobs[call.id].runtime = 0
    <3>1. PICK next : next = [call EXCEPT !.step = "refresh"]
      OBVIOUS
    <3>2. next.step = "refresh" /\ next.kind = call.kind /\ next.id = call.id /\ Goes(call, next) /\ UNCHANGED told
      BY <1>1, <1>8, <2>1, <3>1 DEF StartRuntime, CallRecord
    <3> QED
      BY <1>6, <3>2
  <2> QED
    BY <1>4, <1>8, <2>1 DEF StartRuntime
<1>9. CASE RefreshAdded(call)
  <2>1. CASE call.id \in Jobs
    <3>1. PICK next : next = [call EXCEPT !.step = "await", !.runtime = jobs[call.id].runtime]
      OBVIOUS
    <3>2. next.step = "await" /\ next.kind = call.kind /\ next.id = call.id /\ Goes(call, next) /\ UNCHANGED told
      BY <1>1, <1>9, <2>1, <3>1 DEF RefreshAdded, CallRecord
    <3> QED
      BY <1>6, <3>2
  <2> QED
    BY <1>4, <1>9, <2>1 DEF RefreshAdded
<1>10. CASE Unmanage(call)
  <2>1. CASE managed[call.id] = 0
    <3>1. PICK next : next = [call EXCEPT !.step = "drop"]
      OBVIOUS
    <3>2. next.step = "drop" /\ next.kind = call.kind /\ next.id = call.id /\ Goes(call, next) /\ UNCHANGED told
      BY <1>1, <1>10, <2>1, <3>1 DEF Unmanage, CallRecord
    <3> QED
      BY <1>6, <3>2
  <2>2. CASE managed[call.id] # 0
    <3>1. PICK next : next = [call EXCEPT !.step = "stop", !.runtime = managed[call.id]]
      OBVIOUS
    <3>2. next.step = "stop" /\ next.kind = call.kind /\ next.id = call.id /\ Goes(call, next) /\ UNCHANGED told
      BY <1>1, <1>10, <2>2, <3>1 DEF Unmanage, CallRecord
    <3> QED
      BY <1>6, <3>2
  <2> QED
    BY <2>1, <2>2
<1>11. CASE StopRuntime(call)
  <2>1. PICK next : next = [call EXCEPT !.step = "drop"]
    OBVIOUS
  <2>2. next.step = "drop" /\ next.kind = call.kind /\ next.id = call.id /\ Goes(call, next) /\ UNCHANGED told
    BY <1>1, <1>11, <2>1 DEF StopRuntime, CallRecord
  <2> QED
    BY <1>6, <2>2
<1> QED
  BY <1>4, <1>5, <1>7, <1>8, <1>9, <1>10, <1>11 DEF StartFails, Added, At

LEMMA DropAnswer ==
  ASSUME HostInv, CInv, NEW call \in calls, Drop(call)
  PROVE  CInv'
<1>1. call.kind = "remove" /\ call.step = "drop" /\ UNCHANGED <<phase, file, checkout, told, mixed>>
  BY DEF Drop, At, Changed, overlap
<1>2. Grows /\ \A id : Alone(id)' <=> Alone(id)
  BY <1>1 DEF Grows, Alone
<1>3. CASE catalog' = catalog \ {call.id} /\ Changed(call, call.id)
  <2>1. CASE crossed'
    BY <2>1 DEF CInv
  <2>2. AnswersRight => AnswersRight'
    BY <1>1, <1>2, <1>3 DEF AnswersRight
  <2> QED
    BY <1>1, <1>2, <1>3, <2>1, <2>2, ChangedAnswer
<1>4. CASE calls' = calls \ {call} /\ UNCHANGED <<catalog, overlap>>
  <2>1. UNCHANGED <<lists, told, crossed>>
    BY <1>1, <1>4 DEF lists, overlap
  <2> QED
    BY <1>1, <1>2, <1>4, <2>1, RegistrySame
<1> QED
  BY <1>3, <1>4 DEF Drop

\* A new call writes nothing yet; two calls about its project may not be told the truth any more.
LEMMA CallsAnswer ==
  ASSUME HostInv, CInv, (\E c \in Checkouts : AddProject(c)) \/ (\E id \in Ids : RemoveProject(id))
  PROVE  CInv'
<1>1. UNCHANGED <<lists, told, phase, crossed>> /\ mixed \subseteq mixed'
  BY DEF AddProject, RemoveProject, Called
<1>2. Grows
  BY <1>1 DEF Grows, lists
<1>3. ASSUME NEW c \in Checkouts, AddProject(c)
      PROVE  CInv'
  <2>1. PICK call : call = CallOf("add", "register", 0, c)
    OBVIOUS
  <2>2. calls' = calls \cup {call} /\ call.step = "register"
    BY <1>3, <2>1 DEF AddProject, Called, CallOf
  <2> QED
    BY <1>1, <1>2, <2>2, RegistrySame DEF WritesRight
<1>4. ASSUME NEW id \in Ids, RemoveProject(id)
      PROVE  CInv'
  <2>1. PICK call : call = CallOf("remove", "unmanage", id, checkout[id])
    OBVIOUS
  <2>2. calls' = calls \cup {call} /\ call.kind = "remove" /\ call.step = "unmanage" /\ call.id = id /\ id \in DOMAIN checkout
    BY <1>4, <2>1 DEF RemoveProject, Called, CallOf, HostInv, CatalogRight
  <2> QED
    BY <1>1, <1>2, <2>2, RegistrySame DEF WritesRight
<1> QED
  BY <1>3, <1>4

\* The process: a start reads the registry, an end forgets what it has in memory.
LEMMA ProcessAnswers ==
  ASSUME HostInv, CInv, Boot \/ BootPolls \/ Booted \/ StopHost \/ Stops \/ Ends \/ \E id \in Ids : BootProject(id)
  PROVE  CInv'
<1>1. UNCHANGED <<file, checkout, overlap>>
  BY DEF Boot, BootPolls, Booted, StopHost, Stops, StopAll, Stopped, Ends, BootProject, lists
<1>2. Grows /\ UNCHANGED crossed /\ \A id : Alone(id)' <=> Alone(id)
  BY <1>1 DEF Grows, overlap, Alone
<1>3. CASE crossed
  BY <1>2, <1>3 DEF CInv
<1>4. CASE ~crossed /\ Boot
  <2>1. UNCHANGED <<file, checkout, told, calls>> /\ catalog' = file
    BY <1>4 DEF Boot
  <2>2. AnswersRight'
    BY <1>2, <1>4, <2>1 DEF CInv, AnswersRight
  <2>3. calls = {}
    BY <1>4 DEF Boot, HostInv, CallsRight
  <2> QED
    BY <2>1, <2>2, <2>3 DEF CInv, RegistryRight
<1>5. CASE ~crossed /\ Ends
  <2>1. UNCHANGED <<file, checkout>> /\ catalog' = {} /\ calls' = {} /\ phase' = "off"
    BY <1>5 DEF Ends
  <2>2. told' \in [Ids -> {"unknown", "added", "removed"}] /\ \A id \in Ids : told'[id] \in {"unknown", told[id]}
    BY <1>5 DEF Ends, CInv, AnswersRight
  <2>3. AnswersRight'
    BY <1>2, <1>5, <2>1, <2>2 DEF CInv, AnswersRight
  <2> QED
    BY <2>1, <2>3 DEF CInv, RegistryRight
<1>6. CASE BootPolls \/ Booted \/ StopHost \/ Stops \/ \E id \in Ids : BootProject(id)
  <2>1. UNCHANGED <<lists, told, calls>> /\ phase # "off"
    BY <1>6 DEF BootPolls, Booted, StopHost, Stops, StopAll, Stopped, BootProject
  <2> QED
    BY <1>2, <2>1, RegistrySame
<1> QED
  BY <1>3, <1>4, <1>5, <1>6

LEMMA AnswersNext ==
  ASSUME HostInv, CInv, [HostNext]_hostVars
  PROVE  CInv'
<1>1. CASE Polls
  BY <1>1, PollsAnswer
<1>2. CASE Boot \/ BootPolls \/ Booted \/ StopHost \/ Stops \/ Ends \/ \E id \in Ids : BootProject(id)
  BY <1>2, ProcessAnswers
<1>3. ASSUME NEW call \in calls, Steps(call) \/ StartFails(call)
      PROVE  CInv'
  BY <1>3, RegisterAnswer, CreateAnswer, WriteAddedAnswer, WriteRemovedAnswer, DropAnswer, StepsBeside DEF Steps
<1>4. CASE (\E c \in Checkouts : AddProject(c)) \/ (\E id \in Ids : RemoveProject(id))
  BY <1>4, CallsAnswer
<1>5. CASE UNCHANGED hostVars
  <2>1. UNCHANGED <<lists, told, calls, phase, overlap>>
    BY <1>5 DEF hostVars
  <2>2. Grows /\ UNCHANGED crossed
    BY <2>1, Still DEF overlap
  <2> QED
    BY <2>1, <2>2, RegistrySame
<1> QED
  BY <1>1, <1>2, <1>3, <1>4, <1>5 DEF HostNext

LEMMA AnswersInit ==
  ASSUME HostInit
  PROVE  CInv
BY DEF HostInit, CInv, AnswersRight, RegistryRight

\* However calls overlap, a project that a client was told to be added is in the registry file and one
\* it was told to be removed is not, whatever crashes, failing starts and further calls come between,
\* unless two calls were about its checkout at once or two were about to write the file: memory and
\* the file differ only while a call is about to write (registerProject and removeProject of
\* application-data.ts).
THEOREM CatalogIsKept == HostSpec => []CatalogKept
<1>1. HostInit => HostInv /\ CInv
  BY HostInvInit, AnswersInit
<1>2. HostInv /\ CInv /\ [HostNext]_hostVars => HostInv' /\ CInv'
  BY HostInvNext, AnswersNext
<1>3. CInv => CatalogKept
  BY DEF CInv, AnswersRight, CatalogKept
<1> QED
  BY <1>1, <1>2, <1>3, PTL DEF HostSpec

-----------------------------------------------------------------------------
(* Events: sequences and orders *)

LEMMA AppendIs ==
  ASSUME NEW S, NEW s \in Seq(S), NEW e \in S
  PROVE  /\ Append(s, e) \in Seq(S) /\ Len(Append(s, e)) = Len(s) + 1
         /\ \A i \in 1..Len(s) : Append(s, e)[i] = s[i]
         /\ Append(s, e)[Len(s) + 1] = e
OBVIOUS

LEMMA TailIs ==
  ASSUME NEW S, NEW s \in Seq(S), s # <<>>
  PROVE  /\ Tail(s) \in Seq(S) /\ Len(Tail(s)) = Len(s) - 1 /\ Len(s) >= 1
         /\ \A i \in 1..(Len(s) - 1) : Tail(s)[i] = s[i + 1]
         /\ Head(s) = s[1] /\ Head(s) \in S
OBVIOUS

LEMMA FromOne ==
  ASSUME NEW n \in Nat
  PROVE  IsFiniteSet(1..n) /\ Cardinality(1..n) = n
<1>1. IsFiniteSet(1..n) /\ Cardinality(1..n) = IF 1 > n THEN 0 ELSE n - 1 + 1
  BY FS_Interval
<1> QED
  BY <1>1

\* What an order finds when it has no two elements at one place: an element of every rank.
LEMMA Ranked ==
  ASSUME NEW S, IsFiniteSet(S), NEW R,
         \A e \in S : <<e, e>> \notin R,
         \A e, f \in S : e = f \/ <<e, f>> \in R \/ <<f, e>> \in R,
         \A e, f, g \in S : <<e, f>> \in R /\ <<f, g>> \in R => <<e, g>> \in R
  PROVE  \E s \in [1..Cardinality(S) -> S] :
           \A i, j \in 1..Cardinality(S) : i < j => <<s[i], s[j]>> \in R
<1> DEFINE below(e) == {f \in S : f = e \/ <<f, e>> \in R}
           rank == [e \in S |-> Cardinality(below(e))]
           N == Cardinality(S)
<1>1. ASSUME NEW e \in S
      PROVE  IsFiniteSet(below(e)) /\ Cardinality(below(e)) \in 1..N
  <2>1. below(e) \in SUBSET S
    OBVIOUS
  <2>2. /\ IsFiniteSet(below(e)) /\ Cardinality(below(e)) <= N
        /\ Cardinality(below(e)) \in Nat /\ N \in Nat
    BY <2>1, FS_Subset, FS_CardinalityType, Zenon
  <2>3. below(e) # {}
    BY <1>1
  <2>4. Cardinality(below(e)) # 0
    BY <2>2, <2>3, FS_EmptySet, Zenon
  <2> HIDE DEF below
  <2> QED
    BY <2>2, <2>4
<1>2. ASSUME NEW e \in S, NEW f \in S, <<e, f>> \in R
      PROVE  Cardinality(below(e)) < Cardinality(below(f))
  <2>1. below(e) \in SUBSET below(f)
    BY <1>2
  <2>2. f \in below(f) /\ f \notin below(e)
    BY <1>2
  <2>3. below(e) # below(f)
    BY <2>2
  <2>4. IsFiniteSet(below(f))
    BY <1>1
  <2>5. /\ Cardinality(below(e)) <= Cardinality(below(f))
        /\ Cardinality(below(f)) = Cardinality(below(e)) => below(f) = below(e)
    BY <2>1, <2>4, FS_Subset, Zenon
  <2>6. Cardinality(below(e)) \in Nat /\ Cardinality(below(f)) \in Nat
    BY <1>1
  <2> HIDE DEF below
  <2> QED
    BY <2>3, <2>5, <2>6
<1>3. N \in Nat /\ IsFiniteSet(1..N) /\ Cardinality(1..N) = N
  BY FS_CardinalityType, FromOne, Zenon
<1>4. rank \in [S -> 1..N] /\ \A e \in S : rank[e] = Cardinality(below(e))
  BY <1>1
<1> HIDE DEF below, rank, N
<1>5. ASSUME NEW e \in S, NEW f \in S, rank[e] = rank[f]
      PROVE  e = f
  <2>1. rank[e] \in Nat /\ rank[f] \in Nat
    BY <1>3, <1>4
  <2>2. <<e, f>> \notin R
    <3>1. <<e, f>> \in R => rank[e] < rank[f]
      BY <1>2, <1>4
    <3> QED
      BY <1>5, <2>1, <3>1
  <2>3. <<f, e>> \notin R
    <3>1. <<f, e>> \in R => rank[f] < rank[e]
      BY <1>2, <1>4
    <3> QED
      BY <1>5, <2>1, <3>1
  <2> QED
    BY <2>2, <2>3
<1>6. rank \in Injection(S, 1..N)
  BY <1>4, <1>5 DEF Injection, IsInjective
<1>7. Cardinality(S) = Cardinality(1..N)
  BY <1>3 DEF N
<1>8. rank \in Surjection(S, 1..N)
  BY <1>3, <1>6, <1>7, FS_Injection, Zenon
<1> DEFINE s == [i \in 1..N |-> CHOOSE e \in S : rank[e] = i]
<1>9. \A i \in 1..N : \E e \in S : rank[e] = i
  BY <1>8 DEF Surjection
<1>10. \A i \in 1..N : s[i] \in S /\ rank[s[i]] = i
  BY <1>9
<1>11. s \in [1..N -> S]
  BY <1>10
<1> HIDE DEF s
<1>12. ASSUME NEW i \in 1..N, NEW j \in 1..N, i < j
       PROVE  <<s[i], s[j]>> \in R
  <2>1. s[i] \in S /\ s[j] \in S /\ rank[s[i]] = i /\ rank[s[j]] = j
    BY <1>10
  <2>2. i \in Int /\ j \in Int /\ i # j /\ ~(j < i)
    BY <1>3, <1>12
  <2>3. s[i] # s[j]
    BY <2>1, <2>2
  <2>4. <<s[j], s[i]>> \in R => j < i
    BY <1>2, <1>4, <2>1
  <2> QED
    BY <2>1, <2>2, <2>3, <2>4
<1> QED
  BY <1>11, <1>12 DEF N

\* The elements in their order are all of them, each at one place.
LEMMA OrderedOnce ==
  ASSUME NEW S, IsFiniteSet(S), NEW s \in [1..Cardinality(S) -> S],
         \A i, j \in 1..Cardinality(S) : i < j => s[i] # s[j]
  PROVE  /\ \A e \in S : \E i \in 1..Cardinality(S) : s[i] = e
         /\ \A i, j \in 1..Cardinality(S) : s[i] = s[j] => i = j
<1>1. Cardinality(S) \in Nat
  BY FS_CardinalityType
<1>2. \A i, j \in 1..Cardinality(S) : s[i] = s[j] => i = j
  BY <1>1
<1>3. s \in Injection(1..Cardinality(S), S)
  BY <1>2 DEF Injection, IsInjective
<1>4. Cardinality(1..Cardinality(S)) = Cardinality(S)
  BY <1>1, FromOne, Zenon
<1>5. s \in Surjection(1..Cardinality(S), S)
  BY <1>3, <1>4, FS_Injection, Zenon
<1> QED
  BY <1>2, <1>5 DEF Surjection

\* The order InOrder takes is one, as soon as there is one.
LEMMA NumberedIs ==
  ASSUME NEW of \in SUBSET Projects, IsFiniteSet(Stored(logs, of)), logs \in [Projects -> Nat]
  PROVE  /\ Numbered(of) \in [1..Cardinality(Stored(logs, of)) -> Stored(logs, of)]
         /\ \A e \in Stored(logs, of) :
              \E i \in 1..Cardinality(Stored(logs, of)) : Numbered(of)[i] = e
         /\ \A i, j \in 1..Cardinality(Stored(logs, of)) :
              Numbered(of)[i] = Numbered(of)[j] => i = j
<1> DEFINE S == Stored(logs, of)
           R == {d \in S \X S : Earlier(d[1], d[2])}
<1>1. \A e \in S : e[1] \in Nat /\ e[2] \in Nat /\ e = <<e[1], e[2]>>
  BY ProjectsAreNumbered DEF Stored
<1> HIDE DEF S
<1>2. \A e, f \in S : <<e, f>> \in R <=> Earlier(e, f)
  OBVIOUS
<1> HIDE DEF R
<1>3. \A e \in S : ~Earlier(e, e)
  BY <1>1 DEF Earlier
<1>4. \A e, f \in S : e = f \/ Earlier(e, f) \/ Earlier(f, e)
  BY <1>1 DEF Earlier
<1>5. \A e, f, g \in S : Earlier(e, f) /\ Earlier(f, g) => Earlier(e, g)
  BY <1>1 DEF Earlier
<1>6. IsFiniteSet(S)
  BY DEF S
<1>7. /\ \A e \in S : <<e, e>> \notin R
      /\ \A e, f \in S : e = f \/ <<e, f>> \in R \/ <<f, e>> \in R
      /\ \A e, f, g \in S : <<e, f>> \in R /\ <<f, g>> \in R => <<e, g>> \in R
  BY <1>2, <1>3, <1>4, <1>5
<1>8. \E s \in [1..Cardinality(S) -> S] :
        \A i, j \in 1..Cardinality(S) : i < j => <<s[i], s[j]>> \in R
  BY <1>6, <1>7, Ranked
<1>9. \E s \in [1..Cardinality(S) -> S] :
        \A i, j \in 1..Cardinality(S) : i < j => Earlier(s[i], s[j])
  BY <1>2, <1>8
<1>10. Numbered(of) = CHOOSE s \in [1..Cardinality(S) -> S] :
                        \A i, j \in 1..Cardinality(S) : i < j => Earlier(s[i], s[j])
  BY DEF Numbered, InOrder, S
<1>11. /\ Numbered(of) \in [1..Cardinality(S) -> S]
       /\ \A i, j \in 1..Cardinality(S) : i < j => Earlier(Numbered(of)[i], Numbered(of)[j])
  BY <1>9, <1>10, Zenon
<1>12. \A i, j \in 1..Cardinality(S) : i < j => Numbered(of)[i] # Numbered(of)[j]
  BY <1>3, <1>11
<1>13. /\ \A e \in S : \E i \in 1..Cardinality(S) : Numbered(of)[i] = e
       /\ \A i, j \in 1..Cardinality(S) : Numbered(of)[i] = Numbered(of)[j] => i = j
  <2> DEFINE s == Numbered(of)
  <2>1. s \in [1..Cardinality(S) -> S]
    BY <1>11
  <2>2. \A i, j \in 1..Cardinality(S) : i < j => s[i] # s[j]
    BY <1>12
  <2> HIDE DEF s
  <2>3. /\ \A e \in S : \E i \in 1..Cardinality(S) : s[i] = e
        /\ \A i, j \in 1..Cardinality(S) : s[i] = s[j] => i = j
    BY <1>6, <2>1, <2>2, OrderedOnce, Zenon
  <2> QED
    BY <2>3 DEF s
<1> QED
  BY <1>11, <1>13, Zenon DEF S

\* There is one way to write an interval in order.
LEMMA IncreasingIs ==
  ASSUME NEW a \in Nat, NEW N \in Nat, NEW s \in [1..N -> (a + 1)..(a + N)],
         \A i, j \in 1..N : i < j => s[i] < s[j],
         NEW j \in 1..N
  PROVE  s[j] = a + j
<1> DEFINE S == (a + 1)..(a + N)
<1>1. IsFiniteSet(S) /\ Cardinality(S) = N
  BY FS_Interval
<1>2. \A i \in 1..N : s[i] \in Int /\ s[i] >= a + 1 /\ s[i] <= a + N
  OBVIOUS
<1>3. \A i, k \in 1..N : i < k => s[i] # s[k]
  BY <1>2
<1>4. /\ \A e \in S : \E i \in 1..N : s[i] = e
      /\ \A i, k \in 1..N : s[i] = s[k] => i = k
  <2>1. s \in [1..Cardinality(S) -> S] /\ \A i, k \in 1..Cardinality(S) : i < k => s[i] # s[k]
    BY <1>1, <1>3
  <2> HIDE DEF S
  <2>2. /\ \A e \in S : \E i \in 1..Cardinality(S) : s[i] = e
        /\ \A i, k \in 1..Cardinality(S) : s[i] = s[k] => i = k
    BY <1>1, <2>1, OrderedOnce, Zenon
  <2> QED
    BY <1>1, <2>2
<1> DEFINE upTo == (a + 1)..s[j]
           f == [i \in 1..j |-> s[i]]
<1>5. \A i \in 1..N : i <= j <=> s[i] <= s[j]
  BY <1>2
<1>6. f \in [1..j -> upTo]
  BY <1>2, <1>5
<1>7. \A e \in upTo : \E i \in 1..j : f[i] = e
  <2> SUFFICES ASSUME NEW e \in upTo PROVE \E i \in 1..j : f[i] = e
    OBVIOUS
  <2>1. e \in S /\ e <= s[j]
    BY <1>2
  <2>2. PICK i \in 1..N : s[i] = e
    BY <1>4, <2>1
  <2>3. i \in 1..j
    BY <1>5, <2>1, <2>2
  <2> QED
    BY <2>2, <2>3
<1>8. \A i, k \in 1..j : f[i] = f[k] => i = k
  BY <1>4
<1>9. Cardinality(upTo) = s[j] - a
  <2>1. s[j] \in Int /\ s[j] >= a + 1 /\ a + 1 \in Int
    BY <1>2
  <2> QED
    BY <2>1, FS_Interval
<1>10. IsFiniteSet(1..j) /\ Cardinality(1..j) = j
  <2>1. j \in Nat
    OBVIOUS
  <2> QED
    BY <2>1, FromOne, Zenon
<1> HIDE DEF f, upTo
<1>11. f \in Surjection(1..j, upTo) /\ f \in Injection(1..j, upTo)
  BY <1>6, <1>7, <1>8 DEF Surjection, Injection, IsInjective
<1>12. Cardinality(upTo) = Cardinality(1..j)
  BY <1>10, <1>11, FS_Surjection, Zenon
<1>13. s[j] - a = j
  BY <1>9, <1>10, <1>12
<1>14. s[j] \in Int /\ j \in Int
  BY <1>2
<1> QED
  BY <1>13, <1>14

\* What passes are the events behind the number the client has, in their order.
LEMMA BacklogIs ==
  ASSUME Len(events) \in Nat, after \in Nat
  PROVE  /\ after <= Len(events) => DOMAIN Backlog = 1..(Len(events) - after)
         /\ after > Len(events) => DOMAIN Backlog = {}
         /\ \A j \in DOMAIN Backlog :
              Backlog[j] = [kind |-> "domain", sequence |-> after + j, event |-> events[after + j]]
<1> DEFINE S == {i \in 1..Len(events) : Passes(i, after)}
           N == Cardinality(S)
           passing == InOrder(S, <)
<1>1. S = (after + 1)..Len(events)
  BY DEF Passes
<1>2. /\ N \in Nat
      /\ after <= Len(events) => N = Len(events) - after /\ S = (after + 1)..(after + N)
      /\ after > Len(events) => N = 0 /\ S = {}
  <2>1. Cardinality((after + 1)..Len(events)) =
          IF after + 1 > Len(events) THEN 0 ELSE Len(events) - (after + 1) + 1
    <3>1. after + 1 \in Int /\ Len(events) \in Int
      OBVIOUS
    <3> QED
      BY <3>1, FS_Interval, Zenon
  <2>2. N = IF after + 1 > Len(events) THEN 0 ELSE Len(events) - (after + 1) + 1
    BY <1>1, <2>1
  <2> HIDE DEF S, N, passing
  <2>3. /\ after <= Len(events) => N \in Nat /\ N = Len(events) - after
        /\ after > Len(events) => N = 0
    BY <2>2
  <2> QED
    BY <1>1, <2>3
<1> HIDE DEF S
<1>3. passing = CHOOSE s \in [1..N -> S] : \A i, j \in 1..N : i < j => s[i] < s[j]
  BY DEF InOrder
<1>4. Backlog = [j \in DOMAIN passing |->
                   [kind |-> "domain", sequence |-> passing[j], event |-> events[passing[j]]]]
  BY DEF Backlog, S
<1> HIDE DEF passing, N
<1>5. S = (after + 1)..(after + N)
  BY <1>1, <1>2
<1>6. \E s \in [1..N -> S] : \A i, j \in 1..N : i < j => s[i] < s[j]
  <2>1. [j \in 1..N |-> after + j] \in [1..N -> S]
    BY <1>2, <1>5
  <2>2. \A i, j \in 1..N : i < j => [k \in 1..N |-> after + k][i] < [k \in 1..N |-> after + k][j]
    BY <1>2
  <2> QED
    BY <2>1, <2>2
<1>7. /\ passing \in [1..N -> S]
      /\ \A i, j \in 1..N : i < j => passing[i] < passing[j]
  BY <1>3, <1>6, Zenon
<1>8. \A j \in 1..N : passing[j] = after + j
  BY <1>2, <1>5, <1>7, IncreasingIs, Zenon
<1>9. DOMAIN passing = 1..N
  BY <1>7
<1>10. DOMAIN Backlog = 1..N
  BY <1>4, <1>9
<1> QED
  BY <1>2, <1>4, <1>8, <1>9, <1>10

-----------------------------------------------------------------------------
(* The invariant *)

Events == Projects \X Nat

Commands ==
  [pc : {"idle"}] \cup [pc : {"sent"}, project : Projects, view : Views]
    \cup [pc : {"queued"}, project : Projects, view : Views, expected : Nat]

Typed ==
  /\ logs \in [Projects -> Nat] /\ open \in SUBSET Projects
  /\ events \in Seq(Events) /\ Len(events) <= MaxEvents
  /\ hostUp \in BOOLEAN /\ link \in {"down", "open"} /\ (link = "open" <=> stream # None)
  /\ stream \in Streams \cup {None}
  /\ after \in 0..MaxEvents /\ restarts \in Nat
  /\ shown \in Views \cup {None} /\ answers \in Seq(Views)
  /\ command \in Commands /\ got \in Seq(Events)

ListedOnce(p, n) ==
  \E i \in 1..Len(events) : \A j \in 1..Len(events) : events[j] = <<p, n>> <=> j = i

\* A host that runs lists what is in the logs, and the events of the open projects once.
ListRight ==
  /\ \A i \in 1..Len(events) : 1 <= events[i][2] /\ events[i][2] <= logs[events[i][1]]
  /\ hostUp => \A p \in open : \A n \in 1..logs[p] : ListedOnce(p, n)

\* A host that does not run has forgotten its list, which would fit again.
DownRight ==
  ~hostUp =>
    /\ events = <<>> /\ stream = None /\ restarts > 0 /\ command.pc # "queued"
    /\ IsFiniteSet(Stored(logs, open)) /\ Cardinality(Stored(logs, open)) <= MaxEvents

\* The snapshot in front of the events that are on their way.
Lead(buffer) == IF buffer # <<>> /\ buffer[1].kind = "snapshot" THEN 1 ELSE 0

\* On their way are the events that the workbench does not have, in their order.
OnTheWay(buffer) ==
  LET lead == Lead(buffer)
  IN  /\ Len(buffer) = lead + Len(events) - after
      /\ \A i \in (lead + 1)..Len(buffer) :
           buffer[i] = [kind |-> "domain", sequence |-> after + i - lead,
                        event |-> events[after + i - lead]]

\* Until the first restart, what the workbench has and what is on its way to it is the list of the
\* host.
GapRight ==
  /\ stream # None => \A i \in 1..Len(stream.buffer) :
       stream.buffer[i].kind = "domain" => stream.buffer[i].sequence <= MaxEvents
  /\ restarts = 0 =>
       /\ after = Len(got) /\ Len(got) <= Len(events)
       /\ \A i \in 1..Len(got) : got[i] = events[i]
       /\ stream # None => stream.last = Len(events) /\ OnTheWay(stream.buffer)

\* A snapshot shows no more than there is, and while no project is removed its number says just how
\* many events it shows.
ViewRight(view) ==
  /\ \A p \in Projects : view.seen[p] <= logs[p]
  /\ open = Projects => view.sequence = Cardinality(Stored(view.seen, Projects))

ViewsRight ==
  /\ shown # None => ViewRight(shown)
  /\ \A i \in 1..Len(answers) : ViewRight(answers[i])
  /\ stream # None => \A i \in 1..Len(stream.buffer) :
       stream.buffer[i].kind = "snapshot" => ViewRight(stream.buffer[i].view)
  /\ command.pc # "idle" => ViewRight(command.view)

\* A command that the host let pass was given on the snapshot the host had then.
CommandRight ==
  command.pc = "queued" /\ open = Projects =>
    command.expected = command.view.seen[command.project]

IInv ==
  Typed /\ ListRight /\ DownRight /\ GapRight /\ ViewsRight /\ CommandRight

-----------------------------------------------------------------------------
(* The list and the logs *)

\* A list that names what is in the logs, the events of some projects once each, has at least so many
\* entries, and just so many if it names events of these only.
LEMMA Counted ==
  ASSUME NEW L \in [Projects -> Nat], NEW of \in SUBSET Projects,
         NEW s \in Seq(Events),
         \A i \in 1..Len(s) : 1 <= s[i][2] /\ s[i][2] <= L[s[i][1]],
         \A p \in of : \A n \in 1..L[p] :
           \E i \in 1..Len(s) : \A j \in 1..Len(s) : s[j] = <<p, n>> <=> j = i
  PROVE  /\ IsFiniteSet(Stored(L, of)) /\ Cardinality(Stored(L, of)) <= Len(s)
         /\ of = Projects => Cardinality(Stored(L, of)) = Len(s)
<1> DEFINE S == Stored(L, of)
           place == [e \in S |-> CHOOSE i \in 1..Len(s) : s[i] = e]
<1>1. \A e : e \in S <=> \E p \in of : \E n \in 1..L[p] : e = <<p, n>>
  BY DEF Stored
<1> HIDE DEF S
<1>2. \A e \in S : \E i \in 1..Len(s) : \A j \in 1..Len(s) : s[j] = e <=> j = i
  <2> SUFFICES ASSUME NEW e \in S
               PROVE  \E i \in 1..Len(s) : \A j \in 1..Len(s) : s[j] = e <=> j = i
    OBVIOUS
  <2>1. PICK p \in of : \E n \in 1..L[p] : e = <<p, n>>
    BY <1>1
  <2>2. PICK n \in 1..L[p] : e = <<p, n>>
    BY <2>1
  <2> QED
    BY <2>2
<1>3. \A e \in S : place[e] \in 1..Len(s) /\ s[place[e]] = e
  BY <1>2
<1>4. place \in [S -> 1..Len(s)]
  BY <1>3
<1> HIDE DEF place
<1>5. place \in Injection(S, 1..Len(s))
  BY <1>3, <1>4 DEF Injection, IsInjective
<1>6. Len(s) \in Nat /\ IsFiniteSet(1..Len(s)) /\ Cardinality(1..Len(s)) = Len(s)
  <2>1. Len(s) \in Nat
    OBVIOUS
  <2>2. IsFiniteSet(1..Len(s)) /\ Cardinality(1..Len(s)) = Len(s)
    BY <2>1, FromOne, Zenon
  <2> QED
    BY <2>1, <2>2
<1>7. /\ IsFiniteSet(S) /\ Cardinality(S) <= Cardinality(1..Len(s))
      /\ place \in Surjection(S, 1..Len(s)) => Cardinality(S) = Cardinality(1..Len(s))
  BY <1>5, <1>6, FS_Injection, Zenon
<1>8. ASSUME of = Projects
      PROVE  place \in Surjection(S, 1..Len(s))
  <2>1. ASSUME NEW i \in 1..Len(s)
        PROVE  \E e \in S : place[e] = i
    <3> DEFINE p == s[i][1]
               n == s[i][2]
    <3>1. s[i] \in Events
      OBVIOUS
    <3>2. p \in Projects /\ n \in Nat /\ s[i] = <<p, n>>
      BY <3>1 DEF Events
    <3>3. 1 <= n /\ n <= L[p] /\ L[p] \in Nat
      BY <3>2
    <3>4. n \in 1..L[p]
      BY <3>2, <3>3
    <3>5. s[i] \in S
      BY <1>1, <1>8, <3>2, <3>4
    <3>6. \A j \in 1..Len(s) : s[j] = s[i] => j = i
      BY <1>2, <3>5
    <3> QED
      BY <1>3, <3>5, <3>6
  <2> QED
    BY <1>4, <2>1 DEF Surjection
<1> QED
  BY <1>6, <1>7, <1>8 DEF S

LEMMA HostListed ==
  ASSUME Typed, ListRight, hostUp
  PROVE  /\ IsFiniteSet(Stored(logs, open)) /\ Cardinality(Stored(logs, open)) <= Len(events)
         /\ open = Projects => Cardinality(Stored(logs, Projects)) = Len(events)
<1>1. \A p \in open : \A n \in 1..logs[p] :
        \E i \in 1..Len(events) : \A j \in 1..Len(events) : events[j] = <<p, n>> <=> j = i
  BY DEF ListRight, ListedOnce
<1>2. /\ logs \in [Projects -> Nat] /\ open \in SUBSET Projects /\ events \in Seq(Events)
      /\ \A i \in 1..Len(events) : 1 <= events[i][2] /\ events[i][2] <= logs[events[i][1]]
  BY DEF Typed, ListRight
<1> QED
  BY <1>1, <1>2, Counted

\* The same of the step's result.
LEMMA HostListedNext ==
  ASSUME Typed', ListRight', hostUp'
  PROVE  open' = Projects => Cardinality(Stored(logs', Projects)) = Len(events')
<1>1. \A p \in open' : \A n \in 1..logs'[p] :
        \E i \in 1..Len(events') : \A j \in 1..Len(events') : events'[j] = <<p, n>> <=> j = i
  BY DEF ListRight, ListedOnce
<1>2. /\ logs' \in [Projects -> Nat] /\ open' \in SUBSET Projects /\ events' \in Seq(Events)
      /\ \A i \in 1..Len(events') : 1 <= events'[i][2] /\ events'[i][2] <= logs'[events'[i][1]]
  BY DEF Typed, ListRight
<1> QED
  BY <1>1, <1>2, Counted

\* A snapshot of a host that runs.
LEMMA SnapshotIs ==
  ASSUME Typed, ListRight
  PROVE  Snapshot \in Views /\ (hostUp => ViewRight(Snapshot))
<1>1. Len(events) \in Nat /\ [p \in Projects |-> IF p \in open THEN logs[p] ELSE 0] \in [Projects -> Nat]
  BY DEF Typed
<1>2. Snapshot \in Views
  BY <1>1 DEF Snapshot, Views
<1>3. \A p \in Projects : Snapshot.seen[p] <= logs[p]
  BY DEF Snapshot, Typed
<1>4. ASSUME hostUp, open = Projects
      PROVE  Snapshot.sequence = Cardinality(Stored(Snapshot.seen, Projects))
  <2>1. Snapshot.seen = logs
    BY <1>4 DEF Snapshot, Typed
  <2>2. Snapshot.sequence = Len(events)
    BY DEF Snapshot
  <2> QED
    BY <1>4, <2>1, <2>2, HostListed
<1> QED
  BY <1>2, <1>3, <1>4 DEF ViewRight

\* What a snapshot shows stays right: logs grow and projects are removed for good.
LEMMA ViewKept ==
  ASSUME Typed, Typed', NEW view \in Views, ViewRight(view),
         open' \subseteq open, \A p \in Projects : logs[p] <= logs'[p]
  PROVE  /\ \A p \in Projects : view.seen[p] <= logs'[p]
         /\ open' = Projects => view.sequence = Cardinality(Stored(view.seen, Projects))
<1>1. \A p \in Projects : view.seen[p] \in Nat /\ logs[p] \in Nat /\ logs'[p] \in Nat
  BY DEF Typed, Views
<1>2. \A p \in Projects : view.seen[p] <= logs'[p]
  BY <1>1 DEF ViewRight
<1>3. open' = Projects => open = Projects
  BY DEF Typed
<1> QED
  BY <1>2, <1>3 DEF ViewRight

\* A snapshot whose number is that of the list shows all there is.
LEMMA CurrentView ==
  ASSUME Typed, ListRight, hostUp, open = Projects, NEW view \in Views, ViewRight(view),
         view.sequence = Len(events)
  PROVE  view.seen = logs
<1> DEFINE S == Stored(logs, Projects)
           T == Stored(view.seen, Projects)
<1>1. \A p \in Projects : view.seen[p] \in Nat /\ logs[p] \in Nat /\ view.seen[p] <= logs[p]
  BY DEF Typed, Views, ViewRight
<1>2. \A p \in Projects : \A n \in 1..view.seen[p] : n \in 1..logs[p]
  BY <1>1
<1>3. T \in SUBSET S
  BY <1>2 DEF Stored
<1>4. IsFiniteSet(S) /\ Cardinality(S) = Len(events) /\ Cardinality(T) = Len(events)
  BY HostListed DEF ViewRight
<1>5. S = T
  BY <1>3, <1>4, FS_Subset, Zenon
<1>6. \A p \in Projects : \A n \in 1..logs[p] : n \in 1..view.seen[p]
  <2> SUFFICES ASSUME NEW p \in Projects, NEW n \in 1..logs[p]
               PROVE  n \in 1..view.seen[p]
    OBVIOUS
  <2>1. <<p, n>> \in S
    BY DEF Stored
  <2>2. <<p, n>> \in T
    BY <1>5, <2>1, Zenon
  <2>3. PICK q \in Projects : \E m \in 1..view.seen[q] : <<p, n>> = <<q, m>>
    BY <2>2 DEF Stored
  <2> QED
    BY <2>3
<1>7. \A p \in Projects : view.seen[p] = logs[p]
  <2> SUFFICES ASSUME NEW p \in Projects
               PROVE  view.seen[p] = logs[p]
    OBVIOUS
  <2>1. logs[p] # 0 => logs[p] \in 1..logs[p]
    BY <1>1
  <2>2. logs[p] # 0 => logs[p] \in 1..view.seen[p]
    BY <1>6, <2>1
  <2> QED
    BY <1>1, <2>2
<1> QED
  BY <1>7 DEF Typed, Views

-----------------------------------------------------------------------------
(* The host adds an event *)

LEMMA FramesAre ==
  ASSUME NEW f \in Frames
  PROVE  /\ f.kind \in {"snapshot", "domain"}
         /\ f.kind = "snapshot" => f.view \in Views
         /\ f.kind = "domain" => f.sequence \in Nat /\ f.event \in Events
BY DEF Frames, Events

LEMMA StreamIs ==
  ASSUME Typed, stream # None
  PROVE  /\ stream \in Streams /\ stream.last \in Nat /\ stream.buffer \in Seq(Frames)
         /\ stream = [last |-> stream.last, buffer |-> stream.buffer]
BY DEF Typed, Streams

\* What AppendEvent leaves alone for all who call it.
Appending(p) ==
  /\ p \in open /\ hostUp /\ Len(events) < MaxEvents
  /\ AppendEvent(p)
  /\ UNCHANGED <<open, hostUp, after, link, got, restarts>>

Appended(p) ==
  /\ p \in Projects /\ logs[p] \in Nat /\ Len(events) \in Nat
  /\ logs' \in [Projects -> Nat] /\ logs'[p] = logs[p] + 1
  /\ \A q \in Projects : q # p => logs'[q] = logs[q]
  /\ \A q \in Projects : logs[q] <= logs'[q]
  /\ events' \in Seq(Events) /\ Len(events') = Len(events) + 1 /\ Len(events') <= MaxEvents
  /\ \A i \in 1..Len(events) : events'[i] = events[i]
  /\ events'[Len(events) + 1] = <<p, logs[p] + 1>>

LEMMA AppendDoes ==
  ASSUME IInv, NEW p, Appending(p)
  PROVE  Appended(p)
<1>1. p \in Projects /\ logs \in [Projects -> Nat] /\ events \in Seq(Events)
  BY DEF IInv, Typed, Appending
<1>2. logs[p] \in Nat /\ <<p, logs[p] + 1>> \in Events
  BY <1>1 DEF Events
<1>3. /\ logs' = [logs EXCEPT ![p] = @ + 1] /\ events' = Append(events, <<p, logs[p] + 1>>)
      /\ Len(events) < MaxEvents /\ MaxEvents \in Nat
  BY StreamBounds DEF Appending, AppendEvent
<1>4. /\ events' \in Seq(Events) /\ Len(events') = Len(events) + 1
      /\ \A i \in 1..Len(events) : events'[i] = events[i]
      /\ events'[Len(events) + 1] = <<p, logs[p] + 1>>
  BY <1>1, <1>2, <1>3, AppendIs
<1>5. Len(events) \in Nat
  BY <1>1
<1>6. Len(events') <= MaxEvents
  BY <1>3, <1>4, <1>5
<1>7. logs' \in [Projects -> Nat] /\ logs'[p] = logs[p] + 1
  BY <1>1, <1>2, <1>3
<1>8. \A q \in Projects : q # p => logs'[q] = logs[q]
  BY <1>1, <1>3
<1>9. \A q \in Projects : logs[q] <= logs'[q]
  <2> SUFFICES ASSUME NEW q \in Projects PROVE logs[q] <= logs'[q]
    OBVIOUS
  <2>1. logs[q] \in Nat
    BY <1>1
  <2>2. CASE q = p
    BY <1>7, <2>1, <2>2
  <2>3. CASE q # p
    BY <1>8, <2>1, <2>3
  <2> QED
    BY <2>2, <2>3
<1> QED
  BY <1>1, <1>2, <1>4, <1>5, <1>6, <1>7, <1>8, <1>9 DEF Appended

LEMMA AppendLists ==
  ASSUME IInv, NEW p, Appending(p)
  PROVE  ListRight'
<1>0. Appended(p)
  BY AppendDoes
<1> USE <1>0 DEF Appended
<1>1. \A i \in 1..Len(events) : events[i][1] \in Projects /\ events[i][2] \in Nat
  <2> SUFFICES ASSUME NEW i \in 1..Len(events)
               PROVE  events[i][1] \in Projects /\ events[i][2] \in Nat
    OBVIOUS
  <2>1. events[i] \in Events
    BY DEF IInv, Typed
  <2> QED
    BY <2>1 DEF Events
<1>2. ASSUME NEW i \in 1..Len(events')
      PROVE  1 <= events'[i][2] /\ events'[i][2] <= logs'[events'[i][1]]
  <2>1. CASE i = Len(events) + 1
    BY <2>1
  <2>2. CASE i \in 1..Len(events)
    <3>1. events'[i] = events[i] /\ 1 <= events[i][2] /\ events[i][2] <= logs[events[i][1]]
      BY <2>2 DEF IInv, ListRight
    <3> DEFINE q == events[i][1]
    <3>2. logs[q] \in Nat /\ logs'[q] \in Nat /\ logs[q] <= logs'[q]
      <4>1. q \in Projects /\ logs \in [Projects -> Nat]
        BY <1>1, <2>2 DEF IInv, Typed
      <4> HIDE DEF q
      <4>2. CASE q = p
        BY <4>2
      <4>3. CASE q # p
        BY <4>1, <4>3
      <4> QED
        BY <4>2, <4>3
    <3> QED
      BY <1>1, <2>2, <3>1, <3>2
  <2> QED
    BY <2>1, <2>2
<1>3. ASSUME NEW q \in open, NEW n \in 1..logs'[q]
      PROVE  ListedOnce(q, n)'
  <2>1. q \in Projects /\ n \in Nat /\ 1 <= n
    BY DEF IInv, Typed
  <2>2. CASE q = p /\ n = logs[p] + 1
    <3>1. events'[Len(events) + 1] = <<q, n>>
      BY <2>2
    <3>2. \A j \in 1..Len(events) : events'[j] # <<q, n>>
      <4> SUFFICES ASSUME NEW j \in 1..Len(events), events'[j] = <<q, n>>
                   PROVE  FALSE
        OBVIOUS
      <4>1. events[j][1] = p /\ events[j][2] = logs[p] + 1
        BY <2>2
      <4>2. events[j][2] <= logs[events[j][1]]
        BY DEF IInv, ListRight
      <4> QED
        BY <4>1, <4>2
    <3>3. \A j \in 1..Len(events') : events'[j] = <<q, n>> <=> j = Len(events) + 1
      BY <3>1, <3>2
    <3>4. Len(events) + 1 \in 1..Len(events')
      OBVIOUS
    <3> QED
      BY <3>3, <3>4 DEF ListedOnce
  <2>3. CASE ~(q = p /\ n = logs[p] + 1)
    <3>1. n \in 1..logs[q]
      <4>1. CASE q = p
        BY <2>1, <2>3, <4>1
      <4>2. CASE q # p
        BY <2>1, <4>2
      <4> QED
        BY <4>1, <4>2
    <3>2. PICK i \in 1..Len(events) : \A j \in 1..Len(events) : events[j] = <<q, n>> <=> j = i
      BY <3>1 DEF IInv, ListRight, ListedOnce, Appending
    <3>3. events'[Len(events) + 1] # <<q, n>>
      BY <2>3
    <3>4. \A j \in 1..Len(events') : events'[j] = <<q, n>> <=> j = i
      <4> SUFFICES ASSUME NEW j \in 1..Len(events')
                   PROVE  events'[j] = <<q, n>> <=> j = i
        OBVIOUS
      <4>1. CASE j = Len(events) + 1
        BY <3>3, <4>1
      <4>2. CASE j \in 1..Len(events)
        BY <3>2, <4>2
      <4> QED
        BY <4>1, <4>2
    <3>5. i \in 1..Len(events')
      OBVIOUS
    <3> QED
      BY <3>4, <3>5 DEF ListedOnce
  <2> QED
    BY <2>2, <2>3
<1> QED
  BY <1>2, <1>3 DEF ListRight, Appending

\* The listener of the stream sends the event when its client does not have it.
LEMMA AppendStreams ==
  ASSUME IInv, NEW p, Appending(p)
  PROVE  /\ stream' \in Streams \cup {None} /\ (stream' # None <=> stream # None)
         /\ GapRight'
         /\ stream # None => \A i \in 1..Len(stream'.buffer) :
              \/ stream'.buffer[i].kind = "domain"
              \/ i \in 1..Len(stream.buffer) /\ stream'.buffer[i] = stream.buffer[i]
<1> DEFINE n == Len(events) + 1
           frame == [kind |-> "domain", sequence |-> n, event |-> <<p, logs[p] + 1>>]
<1>0. Appended(p)
  BY AppendDoes
<1> USE <1>0 DEF Appended
<1>1. n \in Nat /\ n <= MaxEvents /\ Domain(n) = frame
  BY DEF Domain
<1>2. frame \in Frames
  BY <1>1 DEF Frames
<1>3. ASSUME restarts' = 0
      PROVE  /\ after' = Len(got') /\ Len(got') <= Len(events')
             /\ \A i \in 1..Len(got') : got'[i] = events'[i]
  <2>1. /\ after = Len(got) /\ Len(got) <= Len(events)
        /\ \A i \in 1..Len(got) : got[i] = events[i]
    BY <1>3 DEF IInv, GapRight, Appending
  <2>2. got' = got /\ after' = after /\ Len(got) \in Nat
    BY DEF IInv, Typed, Appending
  <2> QED
    BY <2>1, <2>2
<1>4. CASE stream # None /\ Passes(n, stream.last)
  <2>1. stream' = [last |-> n, buffer |-> Append(stream.buffer, frame)]
    BY <1>1, <1>4 DEF Appending, AppendEvent
  <2>2. stream.buffer \in Seq(Frames) /\ stream.last \in Nat
    BY <1>4, StreamIs DEF IInv
  <2> DEFINE b == stream.buffer
             c == Append(b, frame)
  <2>3. /\ c \in Seq(Frames) /\ Len(c) = Len(b) + 1
        /\ \A i \in 1..Len(b) : c[i] = b[i]
        /\ c[Len(b) + 1] = frame /\ Len(b) \in Nat /\ c # <<>>
    <3>1. b \in Seq(Frames) /\ frame \in Frames
      BY <1>2, <2>2
    <3> HIDE DEF b, frame
    <3>2. Len(b) \in Nat
      BY <3>1
    <3>3. /\ c \in Seq(Frames) /\ Len(c) = Len(b) + 1
          /\ \A i \in 1..Len(b) : c[i] = b[i]
          /\ c[Len(b) + 1] = frame
      BY <3>1, AppendIs, Zenon
    <3> HIDE DEF c
    <3>4. c # <<>>
      BY <3>2, <3>3
    <3> QED
      BY <3>2, <3>3, <3>4
  <2>4. stream' \in Streams /\ stream'.buffer = c /\ stream'.last = n
    BY <1>1, <2>1, <2>3 DEF Streams
  <2>5. stream' # None
    BY <2>4, StreamNone
  <2> HIDE DEF c
  <2>6. \A i \in 1..Len(c) : i = Len(b) + 1 \/ i \in 1..Len(b)
    BY <2>3
  <2>7. \A i \in 1..Len(c) : c[i].kind = "domain" => c[i].sequence <= MaxEvents
    <3> SUFFICES ASSUME NEW i \in 1..Len(c), c[i].kind = "domain"
                 PROVE  c[i].sequence <= MaxEvents
      OBVIOUS
    <3>1. CASE i = Len(b) + 1
      BY <1>1, <2>3, <3>1
    <3>2. CASE i \in 1..Len(b)
      BY <1>4, <2>3, <3>2 DEF IInv, GapRight
    <3> QED
      BY <2>6, <3>1, <3>2
  <2>8. ASSUME restarts' = 0
        PROVE  OnTheWay(stream.buffer)'
    <3>1. restarts = 0 /\ OnTheWay(b) /\ after' = after /\ after \in Nat
      BY <1>4, <2>8 DEF IInv, GapRight, Appending, Typed
    <3>2. after <= Len(events)
      BY <2>8 DEF IInv, GapRight, Appending
    <3> DEFINE lead == Lead(b)
    <3>3. Lead(c) = lead /\ lead \in Nat
      <4>1. CASE b = <<>>
        <5>1. c[1] = frame
          BY <2>2, <2>3, <4>1
        <5> QED
          BY <4>1, <5>1 DEF Lead
      <4>2. CASE b # <<>>
        <5>1. c[1] = b[1]
          BY <2>2, <2>3, <4>2
        <5> QED
          BY <2>3, <4>2, <5>1 DEF Lead
      <4> QED
        BY <4>1, <4>2
    <3>4. /\ Len(b) = lead + Len(events) - after
          /\ \A i \in (lead + 1)..Len(b) :
               b[i] = [kind |-> "domain", sequence |-> after + i - lead,
                       event |-> events[after + i - lead]]
      BY <3>1 DEF OnTheWay
    <3> HIDE DEF lead
    <3>5. Len(c) = lead + Len(events') - after
      BY <2>3, <3>1, <3>3, <3>4
    <3>6. ASSUME NEW i \in (lead + 1)..Len(c)
          PROVE  c[i] = [kind |-> "domain", sequence |-> after + i - lead,
                         event |-> events'[after + i - lead]]
      <4>1. CASE i = Len(b) + 1
        <5>1. after + i - lead = n
          BY <3>1, <3>3, <3>4, <4>1
        <5> QED
          BY <2>3, <4>1, <5>1
      <4>2. CASE i # Len(b) + 1
        <5>1. i \in (lead + 1)..Len(b) /\ i \in 1..Len(b)
          BY <2>3, <3>3, <4>2
        <5>2. after + i - lead \in 1..Len(events)
          BY <3>1, <3>2, <3>3, <3>4, <5>1
        <5> QED
          BY <2>3, <3>4, <5>1, <5>2
      <4> QED
        BY <4>1, <4>2
    <3> QED
      BY <2>4, <3>1, <3>3, <3>5, <3>6 DEF OnTheWay, Lead
  <2>9. GapRight'
    BY <1>3, <2>4, <2>7, <2>8 DEF GapRight
  <2>10. \A i \in 1..Len(c) : c[i].kind = "domain" \/ (i \in 1..Len(b) /\ c[i] = b[i])
    BY <2>3, <2>6
  <2> QED
    BY <1>4, <2>4, <2>5, <2>9, <2>10
<1>5. CASE ~(stream # None /\ Passes(n, stream.last))
  <2>1. stream' = stream
    BY <1>5 DEF Appending, AppendEvent
  <2>2. restarts' = 0 => stream = None
    <3> SUFFICES ASSUME restarts' = 0, stream # None PROVE FALSE
      OBVIOUS
    <3>1. stream.last = Len(events)
      BY DEF IInv, GapRight, Appending
    <3> QED
      BY <1>5, <3>1 DEF Passes
  <2>3. GapRight'
    BY <1>3, <2>1, <2>2 DEF IInv, GapRight
  <2> QED
    BY <2>1, <2>3 DEF IInv, Typed
<1> QED
  BY <1>4, <1>5

-----------------------------------------------------------------------------
(* What steps leave right *)

\* A snapshot is right after the step.
ViewNext(view) ==
  /\ \A p \in Projects : view.seen[p] <= logs'[p]
  /\ open' = Projects => view.sequence = Cardinality(Stored(view.seen, Projects))

ViewsNext ==
  /\ shown # None => ViewNext(shown)
  /\ \A i \in 1..Len(answers) : ViewNext(answers[i])
  /\ stream # None => \A i \in 1..Len(stream.buffer) :
       stream.buffer[i].kind = "snapshot" => ViewNext(stream.buffer[i].view)
  /\ command.pc # "idle" => ViewNext(command.view)

\* The kinds of a command.
LEMMA CommandIs ==
  ASSUME Typed, command.pc # "idle"
  PROVE  command.view \in Views /\ command.project \in Projects
BY DEF Typed, Commands

LEMMA ViewsStay ==
  ASSUME IInv, Typed', open' \subseteq open, \A p \in Projects : logs[p] <= logs'[p]
  PROVE  ViewsNext
<1> USE DEF IInv
<1>1. \A view \in Views : ViewRight(view) => ViewNext(view)
  BY ViewKept, Zenon DEF ViewNext
<1>2. shown # None => ViewNext(shown)
  BY <1>1 DEF ViewsRight, Typed
<1>3. \A i \in 1..Len(answers) : ViewNext(answers[i])
  <2> SUFFICES ASSUME NEW i \in 1..Len(answers)
               PROVE  ViewNext(answers[i])
    OBVIOUS
  <2>1. answers[i] \in Views
    BY DEF Typed
  <2> QED
    BY <1>1, <2>1 DEF ViewsRight
<1>4. ASSUME stream # None, NEW i \in 1..Len(stream.buffer), stream.buffer[i].kind = "snapshot"
      PROVE  ViewNext(stream.buffer[i].view)
  <2>1. stream.buffer[i] \in Frames
    BY <1>4, StreamIs
  <2>2. stream.buffer[i].view \in Views
    BY <1>4, <2>1, FramesAre
  <2> QED
    BY <1>1, <1>4, <2>2 DEF ViewsRight
<1>5. command.pc # "idle" => ViewNext(command.view)
  BY <1>1, CommandIs DEF ViewsRight
<1> QED
  BY <1>2, <1>3, <1>4, <1>5 DEF ViewsNext

LEMMA SameViews ==
  ASSUME ViewsNext, UNCHANGED <<shown, answers, command>>,
         \/ stream' = None
         \/ stream' = stream
  PROVE  ViewsRight'
BY DEF ViewsNext, ViewNext, ViewsRight, ViewRight

LEMMA SameList ==
  ASSUME Typed, ListRight, UNCHANGED <<logs, events, hostUp>>, open' \subseteq open
  PROVE  ListRight'
BY DEF ListRight, ListedOnce

LEMMA SameGap ==
  ASSUME GapRight, UNCHANGED <<stream, restarts, after, got, events>>
  PROVE  GapRight'
BY DEF GapRight, OnTheWay, Lead

LEMMA SameDown ==
  ASSUME DownRight, UNCHANGED <<logs, events, hostUp, open, stream, restarts>>,
         hostUp \/ command'.pc # "queued"
  PROVE  DownRight'
BY DEF DownRight

LEMMA SameCommand ==
  ASSUME Typed, CommandRight, UNCHANGED command, Typed', open' \subseteq open
  PROVE  CommandRight'
<1>1. open' = Projects => open = Projects
  BY DEF Typed
<1> QED
  BY <1>1 DEF CommandRight

-----------------------------------------------------------------------------
(* The steps of the host *)

LEMMA InvInit == Init => IInv
<1> SUFFICES ASSUME Init PROVE IInv
  OBVIOUS
<1> USE DEF Init
<1>1. Typed
  BY StreamBounds DEF Typed, Idle, Commands
<1>2. ListRight /\ DownRight
  BY DEF ListRight, DownRight
<1>3. GapRight /\ ViewsRight /\ CommandRight
  BY DEF GapRight, ViewsRight, CommandRight, Idle
<1> QED
  BY <1>1, <1>2, <1>3 DEF IInv

LEMMA InvPublish ==
  ASSUME IInv, NEW p \in Projects, Publish(p)
  PROVE  IInv'
<1>1. /\ Appending(p) /\ UNCHANGED <<shown, asked, answers, command>>
  BY DEF Publish, Appending, client, screen, bounds
<1>2. Appended(p) /\ ListRight'
  BY <1>1, AppendDoes, AppendLists
<1>3. /\ stream' \in Streams \cup {None} /\ (stream' # None <=> stream # None)
      /\ GapRight'
      /\ stream # None => \A i \in 1..Len(stream'.buffer) :
           \/ stream'.buffer[i].kind = "domain"
           \/ i \in 1..Len(stream.buffer) /\ stream'.buffer[i] = stream.buffer[i]
  BY <1>1, AppendStreams
<1>4. Typed'
  BY <1>1, <1>2, <1>3 DEF IInv, Typed, Appending, Appended
<1>5. \A q \in Projects : logs[q] <= logs'[q]
  BY <1>2 DEF Appended
<1>6. ViewsNext
  BY <1>1, <1>4, <1>5, ViewsStay DEF Appending
<1>7. ViewsRight'
  BY <1>1, <1>3, <1>6 DEF ViewsNext, ViewNext, ViewsRight, ViewRight
<1>8. DownRight'
  BY <1>1 DEF Appending, DownRight
<1>9. CommandRight'
  BY <1>1, <1>4, SameCommand DEF IInv, Appending
<1> QED
  BY <1>2, <1>3, <1>4, <1>7, <1>8, <1>9 DEF IInv

LEMMA InvRemove ==
  ASSUME IInv, NEW p \in Projects, Remove(p)
  PROVE  IInv'
<1>1. /\ hostUp /\ open' = open \ {p}
      /\ UNCHANGED <<logs, events, hostUp, stream, after, link, shown, asked, answers, got, command,
                     breaks, restarts, given>>
  BY DEF Remove, client, screen, bounds
<1>2. Typed' /\ open' \subseteq open
  BY <1>1 DEF IInv, Typed
<1>3. \A q \in Projects : logs[q] <= logs'[q]
  BY <1>1 DEF IInv, Typed
<1>4. ViewsRight'
  BY <1>1, <1>2, <1>3, ViewsStay, SameViews
<1>5. ListRight' /\ GapRight' /\ CommandRight'
  BY <1>1, <1>2, SameList, SameGap, SameCommand DEF IInv
<1>6. DownRight'
  BY <1>1 DEF DownRight
<1> QED
  BY <1>2, <1>4, <1>5, <1>6 DEF IInv

LEMMA InvStop ==
  ASSUME IInv, Stop
  PROVE  IInv'
<1>1. /\ hostUp /\ hostUp' = FALSE /\ events' = <<>> /\ stream' = None /\ link' = "down"
      /\ command' = Idle /\ restarts' = restarts + 1
      /\ UNCHANGED <<logs, open, after, shown, answers, got>>
  BY DEF Stop, screen
<1>2. Typed' /\ restarts' > 0
  <2>1. Idle \in Commands
    BY DEF Idle, Commands
  <2>2. restarts' \in Nat /\ restarts' > 0
    BY <1>1 DEF IInv, Typed
  <2>3. events' \in Seq(Events) /\ Len(events') <= MaxEvents
    BY <1>1, StreamBounds
  <2> QED
    BY <1>1, <2>1, <2>2, <2>3 DEF IInv, Typed
<1>3. ListRight'
  BY <1>1 DEF ListRight
<1>4. DownRight'
  <2>1. IsFiniteSet(Stored(logs, open)) /\ Cardinality(Stored(logs, open)) <= Len(events)
    BY <1>1, HostListed DEF IInv
  <2>2. /\ Len(events) \in Nat /\ Len(events) <= MaxEvents /\ MaxEvents \in Nat
        /\ Cardinality(Stored(logs, open)) \in Nat
    BY <2>1, StreamBounds, FS_CardinalityType DEF IInv, Typed
  <2>3. Cardinality(Stored(logs, open)) <= MaxEvents
    BY <2>1, <2>2
  <2>4. UNCHANGED Stored(logs, open)
    BY <1>1 DEF Stored
  <2> QED
    BY <1>1, <1>2, <2>1, <2>3, <2>4 DEF DownRight, Idle
<1>5. GapRight'
  BY <1>1, <1>2 DEF GapRight
<1>6. \A p \in Projects : logs[p] <= logs'[p]
  BY <1>1 DEF IInv, Typed
<1>7. ViewsNext
  BY <1>1, <1>2, <1>6, ViewsStay
<1>8. ViewsRight'
  BY <1>1, <1>7 DEF ViewsNext, ViewNext, ViewsRight, ViewRight, Idle
<1>9. CommandRight'
  BY <1>1 DEF CommandRight, Idle
<1> QED
  BY <1>2, <1>3, <1>4, <1>5, <1>8, <1>9 DEF IInv

LEMMA InvStart ==
  ASSUME IInv, Start
  PROVE  IInv'
<1>1. /\ hostUp = FALSE /\ hostUp' = TRUE /\ events' = Numbered(open)
      /\ UNCHANGED <<logs, open, stream, after, link, shown, asked, answers, got, command, restarts>>
  BY DEF Start, client, screen, bounds, IInv, Typed
<1> DEFINE S == Stored(logs, open)
           N == Cardinality(S)
<1>2. /\ IsFiniteSet(S) /\ N <= MaxEvents /\ stream = None /\ restarts > 0
      /\ command.pc # "queued"
  BY <1>1 DEF IInv, DownRight
<1>3. logs \in [Projects -> Nat] /\ open \in SUBSET Projects
  BY DEF IInv, Typed
<1>4. /\ Numbered(open) \in [1..N -> S]
      /\ \A e \in S : \E i \in 1..N : Numbered(open)[i] = e
      /\ \A i, j \in 1..N : Numbered(open)[i] = Numbered(open)[j] => i = j
  BY <1>2, <1>3, NumberedIs
<1>5. N \in Nat
  BY <1>2, FS_CardinalityType
<1>6. \A e \in S : e \in Events /\ 1 <= e[2] /\ e[2] <= logs[e[1]]
  <2> SUFFICES ASSUME NEW e \in S
               PROVE  e \in Events /\ 1 <= e[2] /\ e[2] <= logs[e[1]]
    OBVIOUS
  <2>1. PICK q \in open : \E n \in 1..logs[q] : e = <<q, n>>
    BY DEF Stored
  <2>2. PICK n \in 1..logs[q] : e = <<q, n>>
    BY <2>1
  <2>3. q \in Projects /\ logs[q] \in Nat /\ n \in Nat /\ 1 <= n /\ n <= logs[q]
    BY <1>3
  <2> QED
    BY <2>2, <2>3 DEF Events
<1>7. \A q \in open : \A n \in 1..logs[q] : <<q, n>> \in S
  BY DEF Stored
<1> HIDE DEF S, N
<1>8. events' \in [1..N -> Events]
  BY <1>1, <1>4, <1>6
<1>9. events' \in Seq(Events) /\ Len(events') = N
  BY <1>5, <1>8
<1>10. Typed'
  BY <1>1, <1>2, <1>9 DEF IInv, Typed
<1>11. ListRight'
  <2>1. ASSUME NEW i \in 1..Len(events')
        PROVE  1 <= events'[i][2] /\ events'[i][2] <= logs'[events'[i][1]]
    <3>1. events'[i] \in S
      BY <1>1, <1>4, <1>9
    <3> QED
      BY <1>1, <1>6, <3>1
  <2>2. ASSUME NEW q \in open, NEW n \in 1..logs[q]
        PROVE  ListedOnce(q, n)'
    <3>1. PICK i \in 1..N : Numbered(open)[i] = <<q, n>>
      BY <1>4, <1>7
    <3>2. \A j \in 1..N : Numbered(open)[j] = <<q, n>> <=> j = i
      BY <1>4, <3>1
    <3> QED
      BY <1>1, <1>9, <3>2 DEF ListedOnce
  <2> QED
    BY <1>1, <2>1, <2>2 DEF ListRight
<1>12. \A q \in Projects : logs[q] <= logs'[q]
  BY <1>1, <1>3
<1>13. ViewsRight'
  BY <1>1, <1>10, <1>12, ViewsStay, SameViews
<1>14. DownRight' /\ GapRight'
  BY <1>1, <1>2 DEF DownRight, GapRight
<1>15. CommandRight'
  BY <1>1, <1>10, SameCommand DEF IInv
<1> QED
  BY <1>10, <1>11, <1>13, <1>14, <1>15 DEF IInv

-----------------------------------------------------------------------------
(* The steps of the stream *)

LEMMA ConcatIs ==
  ASSUME NEW S, NEW e \in S, NEW t \in Seq(S)
  PROVE  /\ <<e>> \o t \in Seq(S) /\ Len(<<e>> \o t) = Len(t) + 1
         /\ (<<e>> \o t)[1] = e /\ Len(t) \in Nat
         /\ \A i \in 2..(Len(t) + 1) : (<<e>> \o t)[i] = t[i - 1]
OBVIOUS

LEMMA InvConnect ==
  ASSUME IInv, Connect
  PROVE  IInv'
<1> DEFINE first == [kind |-> "snapshot", view |-> Snapshot]
           b == <<first>> \o Backlog
           n == Len(events)
<1>1. /\ hostUp /\ link' = "open"
      /\ stream' = [last |-> IF Backlog = <<>> THEN after ELSE n, buffer |-> b]
      /\ UNCHANGED <<logs, open, events, hostUp, after, shown, asked, answers, got, command,
                     breaks, restarts, given>>
  BY DEF Connect, screen, host, bounds
<1>2. n \in Nat /\ after \in Nat /\ events \in Seq(Events) /\ n <= MaxEvents
  BY StreamBounds DEF IInv, Typed
<1>3. Snapshot \in Views /\ ViewRight(Snapshot)
  BY <1>1, SnapshotIs DEF IInv
<1>4. first \in Frames
  BY <1>3 DEF Frames
<1> DEFINE N == IF after <= n THEN n - after ELSE 0
<1>5. /\ N \in Nat
      /\ DOMAIN Backlog = 1..N
      /\ \A j \in 1..N :
           Backlog[j] = [kind |-> "domain", sequence |-> after + j, event |-> events[after + j]]
  <2>1. /\ after <= n => DOMAIN Backlog = 1..(n - after)
        /\ after > n => DOMAIN Backlog = {}
        /\ \A j \in DOMAIN Backlog :
             Backlog[j] = [kind |-> "domain", sequence |-> after + j, event |-> events[after + j]]
    BY <1>2, BacklogIs
  <2> QED
    BY <1>2, <2>1
<1>6. Backlog = [j \in DOMAIN Backlog |-> Backlog[j]]
  BY DEF Backlog
<1>7. after > n \/ (after <= n /\ N = n - after)
  BY <1>2
<1> HIDE DEF N, first, n
<1>8. \A j \in 1..N : after + j \in Nat /\ after + j <= n /\ after + j >= 1
  BY <1>2, <1>5, <1>7 DEF N
<1>9. \A j \in 1..N : Backlog[j] \in Frames
  <2> SUFFICES ASSUME NEW j \in 1..N PROVE Backlog[j] \in Frames
    OBVIOUS
  <2>1. after + j \in 1..Len(events)
    BY <1>2, <1>8 DEF n
  <2>2. events[after + j] \in Projects \X Nat /\ after + j \in Nat
    BY <1>2, <2>1 DEF Events
  <2> QED
    BY <1>5, <2>2 DEF Frames
<1>10. Backlog \in [1..N -> Frames]
  BY <1>5, <1>6, <1>9
<1>11. Backlog \in Seq(Frames) /\ Len(Backlog) = N /\ (Backlog = <<>> => N = 0)
  <2> DEFINE t == Backlog
  <2>1. t \in [1..N -> Frames]
    BY <1>10
  <2> HIDE DEF t
  <2>2. t \in Seq(Frames) /\ Len(t) = N /\ (t = <<>> => N = 0)
    BY <1>5, <2>1
  <2> QED
    BY <2>2 DEF t
<1>12. /\ b \in Seq(Frames) /\ Len(b) = N + 1 /\ b[1] = first
       /\ \A i \in 2..(N + 1) : b[i] = Backlog[i - 1]
  <2>1. /\ b \in Seq(Frames) /\ Len(b) = Len(Backlog) + 1 /\ b[1] = first
        /\ \A i \in 2..(Len(Backlog) + 1) : b[i] = Backlog[i - 1]
    <3> DEFINE t == Backlog
    <3>1. t \in Seq(Frames)
      BY <1>11
    <3> HIDE DEF t
    <3>2. /\ <<first>> \o t \in Seq(Frames) /\ Len(<<first>> \o t) = Len(t) + 1
          /\ (<<first>> \o t)[1] = first
          /\ \A i \in 2..(Len(t) + 1) : (<<first>> \o t)[i] = t[i - 1]
      BY <1>4, <3>1, ConcatIs
    <3> QED
      BY <3>2 DEF t
  <2> HIDE DEF b
  <2> QED
    BY <1>11, <2>1
<1>13. stream'.last \in Nat /\ stream'.buffer = b /\ stream' = [last |-> stream'.last, buffer |-> b]
  BY <1>1, <1>2
<1> HIDE DEF b
<1>14. stream' \in Streams
  BY <1>12, <1>13 DEF Streams
<1>15. stream' # None
  BY <1>14, StreamNone
<1>16. Typed'
  BY <1>1, <1>14, <1>15 DEF IInv, Typed
<1>17. ListRight' /\ DownRight' /\ CommandRight'
  BY <1>1, <1>16, SameList, SameCommand DEF IInv, DownRight
<1>18. \A i \in 1..Len(b) : i = 1 \/ (i \in 2..(N + 1) /\ i - 1 \in 1..N)
  BY <1>5, <1>12
<1>19. ViewsRight'
  <2>1. \A p \in Projects : logs[p] <= logs'[p]
    BY <1>1 DEF IInv, Typed
  <2>2. ViewsNext
    BY <1>1, <1>16, <2>1, ViewsStay
  <2>3. ASSUME NEW i \in 1..Len(b), b[i].kind = "snapshot"
        PROVE  b[i].view = Snapshot
    <3>1. i = 1
      BY <1>5, <1>12, <1>18, <2>3
    <3> QED
      BY <1>12, <3>1 DEF first
  <2>4. ViewNext(Snapshot)
    BY <1>1, <1>3 DEF ViewNext, ViewRight
  <2>5. \A i \in 1..Len(b) : b[i].kind = "snapshot" => ViewNext(b[i].view)
    BY <2>3, <2>4
  <2> QED
    BY <1>1, <1>13, <2>2, <2>5 DEF ViewsNext, ViewNext, ViewsRight, ViewRight
<1>20. GapRight'
  <2>1. ASSUME NEW i \in 1..Len(b), b[i].kind = "domain"
        PROVE  b[i].sequence <= MaxEvents
    <3>1. i # 1
      BY <1>12, <2>1 DEF first
    <3>2. b[i].sequence = after + (i - 1) /\ i - 1 \in 1..N
      BY <1>5, <1>12, <1>18, <3>1
    <3>3. after + (i - 1) <= n
      BY <1>8, <3>2
    <3> QED
      BY <1>2, <1>8, <3>2, <3>3, StreamBounds
  <2>2. ASSUME restarts' = 0
        PROVE  /\ after' = Len(got') /\ Len(got') <= Len(events')
               /\ \A i \in 1..Len(got') : got'[i] = events'[i]
               /\ stream'.last = Len(events') /\ OnTheWay(stream.buffer)'
    <3>1. after = Len(got) /\ Len(got) <= n /\ \A i \in 1..Len(got) : got[i] = events[i]
      BY <1>1, <2>2 DEF IInv, GapRight, n
    <3>2. after <= n /\ N = n - after
      BY <1>2, <1>7, <3>1
    <3>3. stream'.last = n
      BY <1>1, <1>2, <1>11, <3>2
    <3>4. Lead(b) = 1
      <4>1. b # <<>>
        BY <1>5, <1>12
      <4> QED
        BY <1>12, <4>1 DEF Lead, first
    <3>5. Len(b) = 1 + n - after
      BY <1>2, <1>5, <1>12, <3>2
    <3>6. \A i \in 2..Len(b) : b[i] = [kind |-> "domain", sequence |-> after + i - 1,
                                       event |-> events[after + i - 1]]
      <4> SUFFICES ASSUME NEW i \in 2..Len(b)
                   PROVE  b[i] = [kind |-> "domain", sequence |-> after + i - 1,
                                  event |-> events[after + i - 1]]
        OBVIOUS
      <4>1. i \in 2..(N + 1) /\ i - 1 \in 1..N /\ after + (i - 1) = after + i - 1
        BY <1>2, <1>5, <1>12
      <4> QED
        BY <1>5, <1>12, <4>1
    <3>7. OnTheWay(stream.buffer)'
      BY <1>1, <1>13, <3>4, <3>5, <3>6 DEF OnTheWay, Lead, n
    <3> QED
      BY <1>1, <3>1, <3>3, <3>7 DEF n
  <2> QED
    BY <1>13, <2>1, <2>2 DEF GapRight
<1> QED
  BY <1>16, <1>17, <1>19, <1>20 DEF IInv

LEMMA InvBreak ==
  ASSUME IInv, Break
  PROVE  IInv'
<1>1. /\ link' = "down" /\ stream' = None
      /\ UNCHANGED <<logs, open, events, hostUp, after, shown, asked, answers, got, command,
                     restarts, given>>
  BY DEF Break, screen, host
<1>2. Typed'
  BY <1>1 DEF IInv, Typed
<1>3. ListRight' /\ DownRight' /\ CommandRight' /\ GapRight'
  BY <1>1, <1>2, SameList, SameCommand DEF IInv, DownRight, GapRight
<1>4. \A p \in Projects : logs[p] <= logs'[p]
  BY <1>1 DEF IInv, Typed
<1>5. ViewsRight'
  BY <1>1, <1>2, <1>4, ViewsStay, SameViews
<1> QED
  BY <1>2, <1>3, <1>5 DEF IInv

\* A frame that arrives is the first of those on their way.
LEMMA InvDeliver ==
  ASSUME IInv, Deliver
  PROVE  IInv'
<1> DEFINE b == stream.buffer
           c == Tail(stream.buffer)
           frame == Head(stream.buffer)
<1>1. stream # None /\ b # <<>>
  BY DEF Deliver
<1>2. /\ stream \in Streams /\ stream.last \in Nat /\ b \in Seq(Frames)
      /\ stream = [last |-> stream.last, buffer |-> stream.buffer]
  BY <1>1, StreamIs DEF IInv
<1>3. /\ stream' = [stream EXCEPT !.buffer = c]
      /\ UNCHANGED <<logs, open, events, hostUp, link, answers, command, breaks, restarts, given>>
  BY DEF Deliver, host, bounds
<1>4. stream' = [last |-> stream.last, buffer |-> c]
  BY <1>2, <1>3
<1>5. /\ c \in Seq(Frames) /\ Len(c) = Len(b) - 1 /\ Len(b) >= 1
      /\ \A i \in 1..(Len(b) - 1) : c[i] = b[i + 1]
      /\ frame = b[1] /\ frame \in Frames
  BY <1>1, <1>2, TailIs
<1>6. Len(b) \in Nat /\ Len(c) \in Nat /\ 1 \in 1..Len(b)
  BY <1>2, <1>5
<1>7. frame.kind = "snapshot" =>
        shown' = frame.view /\ UNCHANGED <<after, asked, got>>
  BY DEF Deliver, SetSnapshot
<1>8. frame.kind # "snapshot" =>
        /\ after' = IF frame.sequence > after THEN frame.sequence ELSE after
        /\ got' = Append(got, frame.event) /\ shown' = shown
  BY DEF Deliver, screen
<1>9. stream'.last = stream.last /\ stream'.buffer = c
  BY <1>4
<1>10. stream' \in Streams
  BY <1>2, <1>4, <1>5 DEF Streams
<1>11. stream' # None
  BY <1>10, StreamNone
<1>12. /\ frame.kind \in {"snapshot", "domain"}
       /\ frame.kind = "snapshot" => frame.view \in Views
       /\ frame.kind = "domain" => frame.sequence \in Nat /\ frame.event \in Events
  BY <1>5, FramesAre
<1>13. \A i \in 1..Len(b) : b[i].kind = "domain" => b[i].sequence <= MaxEvents
  BY <1>1 DEF IInv, GapRight
<1> HIDE DEF b, c, frame
<1>14. after' \in 0..MaxEvents
  <2>1. after \in 0..MaxEvents /\ MaxEvents \in Nat
    BY StreamBounds DEF IInv, Typed
  <2>2. frame.kind = "domain" => frame.sequence \in 0..MaxEvents
    BY <1>5, <1>6, <1>12, <1>13, <2>1
  <2> QED
    BY <1>7, <1>8, <1>12, <2>1, <2>2
<1>15. got' \in Seq(Events)
  <2>1. got \in Seq(Events)
    BY DEF IInv, Typed
  <2>2. CASE frame.kind = "snapshot"
    BY <1>7, <2>1, <2>2
  <2>3. CASE frame.kind = "domain"
    <3>1. frame.event \in Events /\ got' = Append(got, frame.event)
      BY <1>8, <1>12, <2>3
    <3> QED
      BY <2>1, <3>1, AppendIs
  <2> QED
    BY <1>12, <2>2, <2>3
<1>16. shown' \in Views \cup {None}
  BY <1>7, <1>8, <1>12 DEF IInv, Typed
<1>17. Typed'
  BY <1>1, <1>3, <1>10, <1>11, <1>14, <1>15, <1>16 DEF IInv, Typed
<1>18. ListRight' /\ DownRight' /\ CommandRight'
  BY <1>1, <1>3, <1>17, SameList, SameCommand DEF IInv, DownRight
<1>19. ViewsRight'
  <2>1. \A p \in Projects : logs[p] <= logs'[p]
    BY <1>3 DEF IInv, Typed
  <2>2. ViewsNext
    BY <1>3, <1>17, <2>1, ViewsStay
  <2>3. \A i \in 1..Len(b) : b[i].kind = "snapshot" => ViewNext(b[i].view)
    BY <1>1, <2>2 DEF ViewsNext, b
  <2>4. \A i \in 1..Len(c) : c[i].kind = "snapshot" => ViewNext(c[i].view)
    <3> SUFFICES ASSUME NEW i \in 1..Len(c) PROVE c[i].kind = "snapshot" => ViewNext(c[i].view)
      OBVIOUS
    <3>1. i \in 1..(Len(b) - 1) /\ i + 1 \in 1..Len(b)
      BY <1>5, <1>6
    <3> QED
      BY <1>5, <2>3, <3>1
  <2>5. shown' # None => ViewNext(shown')
    <3>1. frame.kind = "snapshot" => ViewNext(frame.view)
      BY <1>5, <1>6, <2>3
    <3> QED
      BY <1>7, <1>8, <2>2, <3>1 DEF ViewsNext
  <2> QED
    BY <1>3, <1>9, <2>2, <2>4, <2>5 DEF ViewsNext, ViewNext, ViewsRight, ViewRight
<1>20. \A i \in 1..Len(c) : c[i].kind = "domain" => c[i].sequence <= MaxEvents
  <2> SUFFICES ASSUME NEW i \in 1..Len(c) PROVE c[i].kind = "domain" => c[i].sequence <= MaxEvents
    OBVIOUS
  <2>1. i \in 1..(Len(b) - 1) /\ i + 1 \in 1..Len(b)
    BY <1>5, <1>6
  <2> QED
    BY <1>5, <1>13, <2>1
<1>21. ASSUME restarts' = 0
       PROVE  /\ after' = Len(got') /\ Len(got') <= Len(events')
              /\ \A i \in 1..Len(got') : got'[i] = events'[i]
              /\ stream'.last = Len(events') /\ OnTheWay(stream.buffer)'
  <2> DEFINE lead == Lead(b)
  <2>1. /\ after = Len(got) /\ Len(got) <= Len(events)
        /\ \A i \in 1..Len(got) : got[i] = events[i]
        /\ stream.last = Len(events) /\ OnTheWay(b)
    BY <1>1, <1>3, <1>21 DEF IInv, GapRight, b
  <2>2. /\ Len(b) = lead + Len(events) - after
        /\ \A i \in (lead + 1)..Len(b) :
             b[i] = [kind |-> "domain", sequence |-> after + i - lead,
                     event |-> events[after + i - lead]]
    BY <2>1 DEF OnTheWay
  <2>3. lead = IF frame.kind = "snapshot" THEN 1 ELSE 0
    BY <1>1, <1>5 DEF Lead, b
  <2> HIDE DEF lead
  <2>4. after \in Nat /\ Len(events) \in Nat /\ got \in Seq(Events) /\ Len(got) \in Nat
    BY StreamBounds DEF IInv, Typed
  <2>5. Lead(c) = 0
    <3>1. c # <<>> => Len(c) >= 1
      BY <1>5, <1>6
    <3>2. c # <<>> => c[1] = b[2] /\ 2 \in (lead + 1)..Len(b)
      BY <1>5, <1>6, <2>3, <3>1
    <3>3. c # <<>> => c[1].kind = "domain"
      <4> SUFFICES ASSUME c # <<>> PROVE c[1].kind = "domain"
        OBVIOUS
      <4>1. b[2] = [kind |-> "domain", sequence |-> after + 2 - lead,
                    event |-> events[after + 2 - lead]]
        BY <2>2, <3>2
      <4> QED
        BY <3>2, <4>1
    <3> QED
      BY <3>3 DEF Lead
  <2>6. CASE frame.kind = "snapshot"
    <3>1. lead = 1 /\ after' = after /\ got' = got
      BY <1>7, <2>3, <2>6
    <3>2. Len(c) = Len(events) - after
      BY <1>5, <2>2, <2>4, <3>1
    <3>3. ASSUME NEW i \in 1..Len(c)
          PROVE  c[i] = [kind |-> "domain", sequence |-> after + i, event |-> events[after + i]]
      <4>1. /\ i \in 1..(Len(b) - 1) /\ i + 1 \in (lead + 1)..Len(b)
            /\ after + (i + 1) - lead = after + i
        BY <1>5, <1>6, <2>4, <3>1
      <4> QED
        BY <1>5, <2>2, <4>1
    <3>4. OnTheWay(stream.buffer)'
      BY <1>3, <1>9, <2>4, <2>5, <3>1, <3>2, <3>3 DEF OnTheWay, Lead
    <3> QED
      BY <1>3, <1>9, <2>1, <3>1, <3>4
  <2>7. CASE frame.kind # "snapshot"
    <3>1. lead = 0
      BY <2>3, <2>7
    <3>2. Len(b) = Len(events) - after
      BY <2>2, <2>4, <3>1
    <3>3. frame = [kind |-> "domain", sequence |-> after + 1, event |-> events[after + 1]]
      <4>1. 1 \in (lead + 1)..Len(b) /\ after + 1 - lead = after + 1
        BY <1>6, <2>4, <3>1
      <4> QED
        BY <1>5, <2>2, <4>1
    <3>4. after' = after + 1 /\ got' = Append(got, events[after + 1])
      BY <1>8, <2>4, <2>7, <3>3
    <3>5. after + 1 <= Len(events) /\ events[after + 1] \in Events
      <4>1. after + 1 <= Len(events)
        BY <1>5, <1>6, <2>4, <3>2
      <4> QED
        BY <2>4, <4>1 DEF IInv, Typed
    <3>6. /\ Len(got') = Len(got) + 1
          /\ \A i \in 1..Len(got) : got'[i] = got[i]
          /\ got'[Len(got) + 1] = events[after + 1]
      BY <2>4, <3>4, <3>5, AppendIs
    <3>7. \A i \in 1..Len(got') : got'[i] = events[i]
      <4> SUFFICES ASSUME NEW i \in 1..Len(got') PROVE got'[i] = events[i]
        OBVIOUS
      <4>1. CASE i = Len(got) + 1
        BY <2>1, <3>6, <4>1
      <4>2. CASE i # Len(got) + 1
        <5>1. i \in 1..Len(got)
          BY <2>4, <3>6, <4>2
        <5> QED
          BY <2>1, <3>6, <5>1
      <4> QED
        BY <4>1, <4>2
    <3>8. Len(c) = Len(events) - after'
      BY <1>5, <1>6, <2>4, <3>2, <3>4
    <3>9. ASSUME NEW i \in 1..Len(c)
          PROVE  c[i] = [kind |-> "domain", sequence |-> after' + i, event |-> events[after' + i]]
      <4>1. /\ i \in 1..(Len(b) - 1) /\ i + 1 \in (lead + 1)..Len(b)
            /\ after + (i + 1) - lead = after' + i
        BY <1>5, <1>6, <2>4, <3>1, <3>4
      <4> QED
        BY <1>5, <2>2, <4>1
    <3>10. OnTheWay(stream.buffer)'
      <4>1. after' \in Nat
        BY <2>4, <3>4
      <4> QED
        BY <1>3, <1>9, <2>5, <3>8, <3>9, <4>1 DEF OnTheWay, Lead
    <3>11. after' = Len(got') /\ Len(got') <= Len(events)
      BY <2>1, <3>4, <3>5, <3>6
    <3> QED
      BY <1>3, <1>9, <2>1, <3>7, <3>10, <3>11
  <2> QED
    BY <2>6, <2>7
<1>22. GapRight'
  BY <1>9, <1>20, <1>21 DEF GapRight
<1> QED
  BY <1>17, <1>18, <1>19, <1>22 DEF IInv

-----------------------------------------------------------------------------
(* The steps of refreshes and commands *)

LEMMA InvServe ==
  ASSUME IInv, Serve
  PROVE  IInv'
<1>1. /\ hostUp /\ answers' = Append(answers, Snapshot)
      /\ UNCHANGED <<logs, open, events, hostUp, stream, after, link, shown, got, command,
                     breaks, restarts, given>>
  BY DEF Serve, host, bounds, screen
<1>2. Snapshot \in Views /\ ViewRight(Snapshot) /\ answers \in Seq(Views)
  BY <1>1, SnapshotIs DEF IInv, Typed
<1>3. /\ answers' \in Seq(Views) /\ Len(answers') = Len(answers) + 1
      /\ \A i \in 1..Len(answers) : answers'[i] = answers[i]
      /\ answers'[Len(answers) + 1] = Snapshot /\ Len(answers) \in Nat
  BY <1>1, <1>2, AppendIs
<1>4. Typed'
  BY <1>1, <1>3 DEF IInv, Typed
<1>5. ListRight' /\ GapRight' /\ DownRight' /\ CommandRight'
  BY <1>1, <1>4, SameList, SameGap, SameCommand DEF IInv, DownRight
<1>6. ViewsRight'
  <2>1. \A p \in Projects : logs[p] <= logs'[p]
    BY <1>1 DEF IInv, Typed
  <2>2. ViewsNext
    BY <1>1, <1>4, <2>1, ViewsStay
  <2>3. ViewNext(Snapshot)
    BY <1>1, <1>2 DEF ViewNext, ViewRight
  <2>4. \A i \in 1..Len(answers') : ViewNext(answers'[i])
    <3> SUFFICES ASSUME NEW i \in 1..Len(answers') PROVE ViewNext(answers'[i])
      OBVIOUS
    <3>1. i = Len(answers) + 1 \/ i \in 1..Len(answers)
      BY <1>3
    <3> QED
      BY <1>3, <2>2, <2>3, <3>1 DEF ViewsNext
  <2> QED
    BY <1>1, <2>2, <2>4 DEF ViewsNext, ViewNext, ViewsRight, ViewRight
<1> QED
  BY <1>4, <1>5, <1>6 DEF IInv

LEMMA InvAnswered ==
  ASSUME IInv, NEW k \in DOMAIN answers, Answered(k)
  PROVE  IInv'
<1>1. /\ shown' = answers[k] /\ answers' = Others(answers, k)
      /\ UNCHANGED <<logs, open, events, hostUp, stream, after, link, got, command,
                     breaks, restarts, given>>
  BY DEF Answered, SetSnapshot, host, bounds
<1>2. answers \in Seq(Views)
  BY DEF IInv, Typed
<1>3. k \in 1..Len(answers) /\ Len(answers) \in Nat /\ answers[k] \in Views
  BY <1>2
<1>4. /\ answers' \in Seq(Views) /\ Len(answers') = Len(answers) - 1
      /\ \A i \in 1..(Len(answers) - 1) :
           answers'[i] = IF i < k THEN answers[i] ELSE answers[i + 1]
  <2> DEFINE n == Len(answers) - 1
  <2>1. n \in Nat
    BY <1>3
  <2>2. \A i \in 1..n : (IF i < k THEN answers[i] ELSE answers[i + 1]) \in Views
    BY <1>2, <1>3
  <2>3. answers' = [i \in 1..n |-> IF i < k THEN answers[i] ELSE answers[i + 1]]
    BY <1>1 DEF Others
  <2>4. answers' \in [1..n -> Views]
    BY <2>2, <2>3
  <2> QED
    BY <2>1, <2>3, <2>4
<1>5. Typed'
  BY <1>1, <1>3, <1>4 DEF IInv, Typed
<1>6. ListRight' /\ GapRight' /\ DownRight' /\ CommandRight'
  BY <1>1, <1>5, SameList, SameGap, SameCommand DEF IInv, DownRight
<1>7. ViewsRight'
  <2>1. \A p \in Projects : logs[p] <= logs'[p]
    BY <1>1 DEF IInv, Typed
  <2>2. ViewsNext
    BY <1>1, <1>5, <2>1, ViewsStay
  <2>3. ViewNext(shown')
    BY <1>1, <1>3, <2>2 DEF ViewsNext
  <2>4. \A i \in 1..Len(answers') : ViewNext(answers'[i])
    <3> SUFFICES ASSUME NEW i \in 1..Len(answers') PROVE ViewNext(answers'[i])
      OBVIOUS
    <3>1. i \in 1..(Len(answers) - 1) /\ i \in 1..Len(answers) /\ i + 1 \in 1..Len(answers)
      BY <1>3, <1>4
    <3> QED
      BY <1>4, <2>2, <3>1 DEF ViewsNext
  <2> QED
    BY <1>1, <2>2, <2>3, <2>4 DEF ViewsNext, ViewNext, ViewsRight, ViewRight
<1> QED
  BY <1>5, <1>6, <1>7 DEF IInv

LEMMA InvSend ==
  ASSUME IInv, NEW p \in Projects, Send(p)
  PROVE  IInv'
<1>1. /\ command.pc = "idle" /\ shown # None
      /\ command' = [pc |-> "sent", project |-> p, view |-> shown]
      /\ UNCHANGED <<logs, open, events, hostUp, stream, after, link, shown, answers, got,
                     breaks, restarts>>
  BY DEF Send, host, client, screen
<1>2. shown \in Views /\ command' \in Commands
  BY <1>1 DEF IInv, Typed, Commands
<1>3. Typed'
  BY <1>1, <1>2 DEF IInv, Typed
<1>4. command'.pc = "sent" /\ command'.view = shown
  BY <1>1
<1>5. ListRight' /\ GapRight' /\ DownRight' /\ CommandRight'
  BY <1>1, <1>4, SameList, SameGap DEF IInv, DownRight, CommandRight
<1>6. ViewsRight'
  <2>1. \A q \in Projects : logs[q] <= logs'[q]
    BY <1>1 DEF IInv, Typed
  <2>2. ViewsNext
    BY <1>1, <1>3, <2>1, ViewsStay
  <2> QED
    BY <1>1, <1>4, <2>2 DEF ViewsNext, ViewNext, ViewsRight, ViewRight
<1> QED
  BY <1>3, <1>5, <1>6 DEF IInv

LEMMA InvExecute ==
  ASSUME IInv, Execute
  PROVE  IInv'
<1>1. /\ command.pc = "sent" /\ hostUp
      /\ UNCHANGED <<logs, open, events, hostUp, stream, after, link, shown, answers, got,
                     breaks, restarts>>
  BY DEF Execute, host, client, screen, bounds
<1>2. /\ command.view \in Views /\ command.project \in Projects
      /\ command.pc # "idle" /\ ViewRight(command.view) /\ logs[command.project] \in Nat
  BY <1>1, CommandIs DEF IInv, ViewsRight, Typed
<1>3. \/ command' = Idle
      \/ /\ command.view.sequence = Len(events)
         /\ command' = [pc |-> "queued", project |-> command.project, view |-> command.view,
                        expected |-> logs[command.project]]
  BY DEF Execute
<1>4. command' \in Commands /\ (command'.pc # "idle" => command'.view = command.view)
  <2>1. Idle \in Commands /\ Idle.pc = "idle"
    BY DEF Idle, Commands
  <2>2. [pc |-> "queued", project |-> command.project, view |-> command.view,
         expected |-> logs[command.project]] \in Commands
    BY <1>2 DEF Commands
  <2> QED
    BY <1>3, <2>1, <2>2
<1>5. Typed'
  BY <1>1, <1>4 DEF IInv, Typed
<1>6. ListRight' /\ GapRight' /\ DownRight'
  BY <1>1, SameList, SameGap DEF IInv, DownRight
<1>7. ViewsRight'
  <2>1. \A q \in Projects : logs[q] <= logs'[q]
    BY <1>1 DEF IInv, Typed
  <2>2. ViewsNext
    BY <1>1, <1>5, <2>1, ViewsStay
  <2> QED
    BY <1>1, <1>2, <1>4, <2>2 DEF ViewsNext, ViewNext, ViewsRight, ViewRight
<1>8. CommandRight'
  <2> SUFFICES ASSUME command'.pc = "queued", open' = Projects
               PROVE  command'.expected = command'.view.seen[command'.project]
    BY DEF CommandRight
  <2>1. /\ command.view.sequence = Len(events)
        /\ command' = [pc |-> "queued", project |-> command.project, view |-> command.view,
                       expected |-> logs[command.project]]
    BY <1>3 DEF Idle
  <2>2. command.view.seen = logs
    BY <1>1, <1>2, <2>1, CurrentView DEF IInv
  <2> QED
    BY <2>1, <2>2
<1> QED
  BY <1>5, <1>6, <1>7, <1>8 DEF IInv

\* Committing appends, for a project that is open.
LEMMA CommitAppends ==
  ASSUME IInv, Commit
  PROVE  \/ /\ Appending(command.project) /\ UnchangedSince
            /\ answers' = Append(answers, [seen |-> [Snapshot.seen EXCEPT ![command.project] = @ + 1],
                                           sequence |-> Len(events) + 1])
         \/ UNCHANGED <<logs, events, stream, answers, open, hostUp, after, link, got, restarts>>
BY DEF Commit, Appending, bounds

LEMMA InvCommit ==
  ASSUME IInv, Commit
  PROVE  IInv'
<1>1. /\ command.pc = "queued" /\ hostUp /\ command' = Idle
      /\ UNCHANGED <<open, hostUp, after, link, shown, got, restarts>>
  BY DEF Commit, screen, bounds
<1>2. Idle \in Commands /\ Idle.pc = "idle"
  BY DEF Idle, Commands
<1>3. CommandRight' /\ DownRight'
  BY <1>1, <1>2 DEF CommandRight, DownRight
<1>4. CASE UNCHANGED <<logs, events, stream, answers, open, hostUp, after, link, got, restarts>>
  <2>1. Typed'
    BY <1>1, <1>2, <1>4 DEF IInv, Typed
  <2>2. ListRight' /\ GapRight'
    BY <1>4, SameList, SameGap DEF IInv
  <2>3. \A q \in Projects : logs[q] <= logs'[q]
    BY <1>4 DEF IInv, Typed
  <2>4. ViewsNext
    BY <1>1, <2>1, <2>3, ViewsStay
  <2>5. ViewsRight'
    BY <1>1, <1>2, <1>4, <2>4 DEF ViewsNext, ViewNext, ViewsRight, ViewRight
  <2> QED
    BY <1>3, <2>1, <2>2, <2>5 DEF IInv
<1>5. CASE /\ Appending(command.project)
           /\ answers' = Append(answers, [seen |-> [Snapshot.seen EXCEPT ![command.project] = @ + 1],
                                          sequence |-> Len(events) + 1])
  <2> DEFINE p == command.project
             reply == [seen |-> [Snapshot.seen EXCEPT ![p] = @ + 1], sequence |-> Len(events) + 1]
  <2>1. Appended(p) /\ ListRight'
    BY <1>5, AppendDoes, AppendLists
  <2>2. /\ stream' \in Streams \cup {None} /\ (stream' # None <=> stream # None)
        /\ GapRight'
        /\ stream # None => \A i \in 1..Len(stream'.buffer) :
             \/ stream'.buffer[i].kind = "domain"
             \/ i \in 1..Len(stream.buffer) /\ stream'.buffer[i] = stream.buffer[i]
    BY <1>5, AppendStreams
  <2>3. /\ p \in Projects /\ p \in open /\ Len(events) \in Nat
        /\ logs \in [Projects -> Nat] /\ open \in SUBSET Projects
        /\ Snapshot.seen = [q \in Projects |-> IF q \in open THEN logs[q] ELSE 0]
    BY <1>5, <2>1 DEF Appended, Appending, IInv, Typed, Snapshot
  <2> HIDE DEF p
  <2>4. reply.seen = [q \in Projects |-> IF q = p THEN logs[q] + 1
                                        ELSE IF q \in open THEN logs[q] ELSE 0]
    BY <2>3
  <2>5. reply \in Views
    <3>1. reply.seen \in [Projects -> Nat] /\ reply.sequence \in Nat
      BY <2>3, <2>4
    <3> QED
      BY <3>1 DEF Views
  <2>6. answers \in Seq(Views) /\ answers' = Append(answers, reply)
    BY <1>5 DEF IInv, Typed, p
  <2> HIDE DEF reply
  <2>7. /\ answers' \in Seq(Views) /\ Len(answers') = Len(answers) + 1
        /\ \A i \in 1..Len(answers) : answers'[i] = answers[i]
        /\ answers'[Len(answers) + 1] = reply /\ Len(answers) \in Nat
    BY <2>5, <2>6, AppendIs
  <2>8. Typed'
    BY <1>1, <1>2, <2>1, <2>2, <2>7 DEF IInv, Typed, Appended
  <2>9. \A q \in Projects : logs[q] <= logs'[q]
    BY <2>1 DEF Appended
  <2>10. ViewsNext
    BY <1>1, <2>8, <2>9, ViewsStay
  <2>11. ViewNext(reply)
    <3>1. \A q \in Projects : reply.seen[q] <= logs'[q]
      <4> SUFFICES ASSUME NEW q \in Projects PROVE reply.seen[q] <= logs'[q]
        OBVIOUS
      <4>1. logs[q] \in Nat /\ logs'[q] \in Nat
        BY <2>3, <2>8 DEF Typed
      <4>2. CASE q = p
        <5>1. logs'[q] = logs[q] + 1 /\ reply.seen[q] = logs[q] + 1
          BY <2>1, <2>4, <4>2 DEF Appended
        <5> QED
          BY <4>1, <5>1
      <4>3. CASE q # p
        <5>1. logs'[q] = logs[q] /\ reply.seen[q] \in {logs[q], 0}
          BY <2>1, <2>4, <4>3 DEF Appended
        <5> QED
          BY <4>1, <5>1
      <4> QED
        BY <4>2, <4>3
    <3>2. ASSUME open' = Projects
          PROVE  reply.sequence = Cardinality(Stored(reply.seen, Projects))
      <4>1. \A q \in Projects : reply.seen[q] = logs'[q]
        BY <1>1, <2>1, <2>3, <2>4, <3>2 DEF Appended
      <4>2. reply.seen = logs'
        BY <2>5, <2>8, <4>1 DEF Views, Typed
      <4>3. Cardinality(Stored(logs', Projects)) = Len(events')
        BY <1>1, <2>1, <2>8, <3>2, HostListedNext
      <4> QED
        BY <2>1, <4>2, <4>3 DEF Appended, reply
    <3> QED
      BY <3>1, <3>2 DEF ViewNext
  <2>12. \A i \in 1..Len(answers') : ViewNext(answers'[i])
    <3> SUFFICES ASSUME NEW i \in 1..Len(answers') PROVE ViewNext(answers'[i])
      OBVIOUS
    <3>1. i = Len(answers) + 1 \/ i \in 1..Len(answers)
      BY <2>7
    <3> QED
      BY <2>7, <2>10, <2>11, <3>1 DEF ViewsNext
  <2>13. ViewsRight'
    BY <1>1, <1>2, <2>2, <2>10, <2>12 DEF ViewsNext, ViewNext, ViewsRight, ViewRight
  <2> QED
    BY <1>3, <2>1, <2>2, <2>8, <2>13 DEF IInv
<1> QED
  BY <1>4, <1>5, CommitAppends

-----------------------------------------------------------------------------
(* The theorems *)

LEMMA InvNext ==
  ASSUME IInv, [Next]_vars
  PROVE  IInv'
<1>1. CASE UNCHANGED vars
  <2>1. UNCHANGED <<logs, open, events, hostUp, stream, after, link, shown, answers, got, command,
                    restarts>>
    BY <1>1 DEF vars, host, client, screen, bounds
  <2>2. Typed'
    BY <2>1 DEF IInv, Typed
  <2>3. \A p \in Projects : logs[p] <= logs'[p]
    BY <2>1 DEF IInv, Typed
  <2>4. ViewsRight'
    BY <2>1, <2>2, <2>3, ViewsStay, SameViews
  <2>5. ListRight' /\ GapRight' /\ DownRight' /\ CommandRight'
    BY <2>1, <2>2, SameList, SameGap, SameCommand DEF IInv, DownRight
  <2> QED
    BY <2>2, <2>4, <2>5 DEF IInv
<1>2. CASE Connect \/ Break \/ Stop \/ Start \/ Deliver
  BY <1>2, InvConnect, InvBreak, InvStop, InvStart, InvDeliver
<1>3. CASE Serve \/ Execute \/ Commit
  BY <1>3, InvServe, InvExecute, InvCommit
<1>4. ASSUME NEW p \in Projects, Publish(p) \/ Remove(p) \/ Send(p)
      PROVE  IInv'
  BY <1>4, InvPublish, InvRemove, InvSend
<1>5. ASSUME NEW k \in DOMAIN answers, Answered(k)
      PROVE  IInv'
  BY <1>5, InvAnswered
<1> QED
  BY <1>1, <1>2, <1>3, <1>4, <1>5 DEF Next

LEMMA Invariance == Spec => []IInv
BY InvInit, InvNext, PTL DEF Spec

LEMMA EachOnceHolds == IInv => EachOnce
<1> SUFFICES ASSUME IInv PROVE EachOnce
  OBVIOUS
<1>1. Typed /\ Len(events) \in Nat
  BY DEF IInv, Typed
<1>2. ASSUME hostUp, NEW p \in open, NEW n \in 1..logs[p]
      PROVE  Cardinality({i \in 1..Len(events) : events[i] = <<p, n>>}) = 1
  <2>1. PICK i \in 1..Len(events) : \A j \in 1..Len(events) : events[j] = <<p, n>> <=> j = i
    BY <1>2 DEF IInv, ListRight, ListedOnce
  <2>2. {j \in 1..Len(events) : events[j] = <<p, n>>} = {i}
    BY <2>1
  <2> QED
    BY <2>2, FS_Singleton
<1>3. TypeOK
  BY <1>1, <1>2 DEF TypeOK, Typed
<1>4. GapFree
  <2> SUFFICES ASSUME restarts = 0
               PROVE  Len(got) <= Len(events) /\ got = SubSeq(events, 1, Len(got))
    BY DEF GapFree
  <2>1. Len(got) <= Len(events) /\ \A i \in 1..Len(got) : got[i] = events[i]
    BY DEF IInv, GapRight
  <2>2. got \in Seq(Events) /\ events \in Seq(Events) /\ Len(got) \in Nat
    BY DEF IInv, Typed
  <2>3. SubSeq(events, 1, Len(got)) = [i \in 1..Len(got) |-> events[i]]
    BY <1>1, <2>1, <2>2
  <2>4. got = [i \in 1..Len(got) |-> got[i]]
    BY <2>2
  <2> QED
    BY <2>1, <2>3, <2>4
<1> QED
  BY <1>3, <1>4 DEF EachOnce

\* A host that runs lists each event of its projects once, also after it has read them back; and
\* until the first restart the workbench receives each once and in order, however often the
\* connection breaks.
THEOREM EventsArriveOnce == Spec => []EachOnce
BY Invariance, EachOnceHolds, PTL

LEMMA CommitIsCurrent ==
  ASSUME IInv, Commit, logs' # logs, open = Projects
  PROVE  command.view.seen[command.project] = logs[command.project]
<1>1. command.pc = "queued" /\ UnchangedSince
  BY DEF Commit
<1>2. command.expected = command.view.seen[command.project]
  BY <1>1 DEF IInv, CommandRight
<1> QED
  BY <1>1, <1>2 DEF UnchangedSince

\* A command changes a project only if the snapshot the person had shows all its events: numbers of
\* the list stand for what is in the logs, also after a restart has numbered the events anew.
THEOREM CommandsSeeTheCurrent == Spec => CommandSeesCurrent
<1>1. IInv /\ [Next]_vars =>
        [Commit /\ logs' # logs /\ open = Projects
           => command.view.seen[command.project] = logs[command.project]]_vars
  BY CommitIsCurrent
<1> QED
  BY <1>1, Invariance, PTL DEF Spec, CommandSeesCurrent

=============================================================================
