------------------------------ MODULE Assistant -------------------------------
(***************************************************************************)
(* One session of the Assistant (assistant/service.ts): runs, approvals of *)
(* tools that change something, the stored conversation, and its repair    *)
(* after an interruption.                                                  *)
(*                                                                         *)
(* The Agent is a library: it works through a prompt, calls tools one      *)
(* after the other and tells its listeners of every message and of its     *)
(* end. Of the conversation only the tool calls and their results matter.  *)
(***************************************************************************)
EXTENDS Integers, Sequences, FiniteSets, SequencesExt

CONSTANTS
  MaxRequests,  \* bound: requests of clients
  MaxTools,     \* bound: calls of tools
  MaxFaults,    \* bound: a message that is not stored, a credential that is not found
  MaxCrashes    \* bound: ends of the process

VARIABLES
  exists,      \* the session is in the repository
  transcript,  \* tool call -> "none", "called", "answered", "twice": what is stored of it
  starting,    \* the session is in #startingRuns
  running,     \* the request in #runs, or 0
  agent,       \* the agent in #agents, or 0
  agents,      \* all agents: [busy, aborted, tool, step, heard, writes, failed]
  requests,    \* all requests: [kind, step, agent, pending]
  approvals,   \* #approvals: the tool calls that wait for a person
  owner,       \* tool calls: the agent of each
  approved,    \* history: what a person approved
  executed,    \* history: how often a tool call changed something
  faults, crashes

ASSUME AssistantBounds == {MaxRequests, MaxTools, MaxFaults, MaxCrashes} \subseteq Nat

history == <<approved, executed>>
maps == <<starting, running, agent>>
vars == <<exists, transcript, maps, agents, requests, approvals, owner, history, faults, crashes>>

Tools == 1..MaxTools
Unanswered == {c \in Tools : transcript[c] = "called"}
NewAgent == [busy |-> FALSE, aborted |-> FALSE, tool |-> 0, step |-> "idle", heard |-> TRUE, writes |-> <<>>, failed |-> FALSE]
At(q, kind, step) == q \in DOMAIN requests /\ requests[q].kind = kind /\ requests[q].step = step
Some(kinds, step) == \E q \in DOMAIN requests : requests[q].kind \in kinds /\ requests[q].step = step
Goes(q, step) == requests' = [requests EXCEPT ![q].step = step]

\* MUTANT: they leave the list and are told nothing.
RefuseLost(set, as) == as

\* MUTANT: their agents leave them without a result.
RefuseIdle(set, as) ==
  [a \in DOMAIN as |-> IF as[a].step = "waiting" /\ as[a].tool \in set THEN [as[a] EXCEPT !.step = "idle"] ELSE as[a]]

\* Tool calls that wait are told no; so their agents go on.
Refuse(set, as) ==
  [a \in DOMAIN as |-> IF as[a].step = "waiting" /\ as[a].tool \in set THEN [as[a] EXCEPT !.step = "refused"] ELSE as[a]]

\* MUTANT: what expires is taken for approved.
ExpiredBug(set, as) ==
  [a \in DOMAIN as |-> IF as[a].step = "waiting" /\ as[a].tool \in set THEN [as[a] EXCEPT !.step = "granted"] ELSE as[a]]

\* #expireApprovals
Expired(set, as) == Refuse(set, as)

\* MUTANT: the wait does not listen to the signal.
AbortedBug(a, as) == IF a \in DOMAIN as /\ as[a].busy THEN [as EXCEPT ![a].aborted = TRUE] ELSE as

\* The signal of an agent: its waiting tool call ends.
Aborted(a, as) ==
  IF a \in DOMAIN as /\ as[a].busy THEN Refuse({as[a].tool}, [as EXCEPT ![a].aborted = TRUE]) ELSE as

WaitingOf(as) == {as[a].tool : a \in {x \in DOMAIN as : as[x].step = "waiting"}}

-----------------------------------------------------------------------------
(* The agent *)

\* A message is on its way to the store, unless the session stopped to listen to the agent.
Told(a, call, to) == IF agents[a].heard THEN Append(agents[a].writes, [call |-> call, to |-> to]) ELSE agents[a].writes

\* It asks for a tool.
CallTool(a) ==
  /\ a \in DOMAIN agents /\ agents[a].busy /\ agents[a].step = "idle" /\ ~agents[a].aborted
  /\ Len(owner) < MaxTools /\ owner' = Append(owner, a)
  /\ agents' = [agents EXCEPT ![a].tool = Len(owner'), ![a].step = "prepare",
                              ![a].writes = Told(a, Len(owner'), "called")]
  /\ UNCHANGED <<exists, transcript, maps, requests, approvals, history, faults, crashes>>

\* #waitForApproval: without a run, or after an abort, there is nobody to ask.
AskApproval(a) ==
  /\ a \in DOMAIN agents /\ agents[a].step = "prepare"
  /\ IF running # 0 /\ ~agents[a].aborted
     THEN agents' = [agents EXCEPT ![a].step = "waiting"] /\ approvals' = approvals \cup {agents[a].tool}
     ELSE agents' = [agents EXCEPT ![a].step = "refused"] /\ UNCHANGED approvals
  /\ UNCHANGED <<exists, transcript, maps, requests, owner, history, faults, crashes>>

\* respondApproval
RespondApproval(c, yes) ==
  /\ c \in approvals /\ approvals' = approvals \ {c}
  /\ approved' = IF yes THEN approved \cup {c} ELSE approved
  /\ agents' = [agents EXCEPT ![owner[c]].step = IF yes THEN "granted" ELSE "refused"]
  /\ UNCHANGED <<exists, transcript, maps, requests, owner, executed, faults, crashes>>

\* The tool runs or fails.
ToolEnds(a) ==
  /\ a \in DOMAIN agents /\ agents[a].step \in {"granted", "refused"}
  /\ executed' = IF agents[a].step = "granted" THEN [executed EXCEPT ![agents[a].tool] = @ + 1] ELSE executed
  /\ agents' = [agents EXCEPT ![a].step = "idle", ![a].tool = 0,
                              ![a].writes = Told(a, agents[a].tool, "answered")]
  /\ UNCHANGED <<exists, transcript, maps, requests, approvals, owner, approved, faults, crashes>>

\* agent_end: its listener starts to finish the run.
Tells(q, a) == requests[q].agent = a /\ requests[q].step = "streaming"

AgentEnds(a) ==
  /\ a \in DOMAIN agents /\ agents[a].busy /\ agents[a].step = "idle"
  /\ agents' = [agents EXCEPT ![a].busy = FALSE]
  /\ requests' = [q \in DOMAIN requests |-> IF Tells(q, a) THEN [requests[q] EXCEPT !.step = "finishing"] ELSE requests[q]]
  /\ UNCHANGED <<exists, transcript, maps, approvals, owner, history, faults, crashes>>

\* A close that has ended: the repository was closed, and the next one who needs it opens it again.
Closed == {q \in DOMAIN requests : requests[q].kind = "close" /\ requests[q].step = "ended"}

\* The session is found if it exists; a step that still has a closed repository may fail, which counts as a fault.
Finds(found) ==
  /\ found => exists
  /\ exists /\ ~found => Closed # {}
  /\ faults' = (IF exists /\ ~found THEN faults + 1 ELSE faults) /\ faults' <= MaxFaults

\* A second result of a tool call.
Stored(now, to) == IF to = "answered" /\ now = "answered" THEN "twice" ELSE to

\* The next message is stored, or that fails and is remembered for good.
Persist(a) ==
  /\ a \in DOMAIN agents /\ agents[a].writes # <<>>
  /\ LET write == Head(agents[a].writes)
         rest == [agents EXCEPT ![a].writes = Tail(@)]
     IN  \/ /\ exists /\ agents' = rest /\ UNCHANGED faults
            /\ transcript' = [transcript EXCEPT ![write.call] = Stored(@, write.to)]
         \/ /\ faults' = IF exists THEN faults + 1 ELSE faults
            /\ faults' <= MaxFaults
            /\ agents' = [rest EXCEPT ![a].failed = TRUE] /\ UNCHANGED transcript
  /\ UNCHANGED <<exists, maps, requests, approvals, owner, history, crashes>>

-----------------------------------------------------------------------------
(* Requests *)

\* waitForIdle and flushPersistence
Flushed(a) == a # 0 => ~agents[a].busy /\ agents[a].writes = <<>>

\* deleteSession or close goes on at once: what waits for a resolved promise comes before a new request.
Ready(q) == requests[q].kind \in {"delete", "close"} /\ requests[q].step = "wait" /\ Flushed(requests[q].agent)

\* The server listens until the Assistant and then the Runtime are closed, so also during a close and after it.
Listening == Len(requests) < MaxRequests /\ ~\E q \in DOMAIN requests : Ready(q)

Asked(kind, step, a, pending) ==
  Listening /\ requests' = Append(requests, [kind |-> kind, step |-> step, agent |-> a, pending |-> pending])

\* MUTANT: only #runs is looked at.
MayRunBug == running = 0

MayRun == ~starting /\ running = 0

\* run: the agent of the session is there, or it has to be made.
Run ==
  /\ MayRun /\ Asked("run", IF agent # 0 THEN "credential" ELSE "load", agent, {})
  /\ starting' = TRUE
  /\ UNCHANGED <<exists, transcript, running, agent, agents, approvals, owner, history, faults, crashes>>

\* #agent: the stored conversation is read, and what was interrupted is found.
RunLoads(q) ==
  /\ At(q, "run", "load")
  /\ \E found \in BOOLEAN :
       /\ Finds(found)
       /\ requests' = [requests EXCEPT ![q].step = IF found THEN "repair" ELSE "refused", ![q].pending = Unanswered]
       /\ starting' = (found /\ starting)
  /\ UNCHANGED <<exists, transcript, running, agent, agents, approvals, owner, history, crashes>>

\* MUTANT: only the last call is repaired.
RepairedBug(set) == [c \in Tools |-> IF c \in set /\ \A d \in set : d <= c THEN Stored(transcript[c], "answered") ELSE transcript[c]]

\* repairInterruptedToolCalls: each of them gets a result.
Repaired(set) == [c \in Tools |-> IF c \in set THEN Stored(transcript[c], "answered") ELSE transcript[c]]

RunRepairs(q) ==
  /\ At(q, "run", "repair")
  /\ \E found \in BOOLEAN :
       /\ Finds(found)
       /\ IF found \/ requests[q].pending = {}
          THEN /\ transcript' = IF found THEN Repaired(requests[q].pending) ELSE transcript
               /\ agents' = Append(agents, NewAgent)
               /\ requests' = [requests EXCEPT ![q].step = "credential", ![q].agent = Len(agents) + 1]
               /\ agent' = Len(agents) + 1 /\ UNCHANGED starting
          ELSE Goes(q, "refused") /\ starting' = FALSE /\ UNCHANGED <<transcript, agents, agent>>
  /\ UNCHANGED <<exists, running, approvals, owner, history, crashes>>

\* The run is registered and the agent prompted, which it refuses while it is busy.
RunPrompts(q) ==
  /\ At(q, "run", "credential")
  /\ running' = q /\ starting' = FALSE
  /\ IF agents[requests[q].agent].busy
     THEN Goes(q, "finishing") /\ UNCHANGED agents
     ELSE Goes(q, "streaming") /\ agents' = [agents EXCEPT ![requests[q].agent].busy = TRUE, ![requests[q].agent].aborted = FALSE]
  /\ UNCHANGED <<exists, transcript, agent, approvals, owner, history, faults, crashes>>

\* #credential fails outside of the try: the session stays in #startingRuns.
NoCredential(q) ==
  /\ At(q, "run", "credential")
  /\ faults < MaxFaults /\ faults' = faults + 1 /\ Goes(q, "refused")
  /\ UNCHANGED <<exists, transcript, maps, agents, approvals, owner, history, crashes>>

\* finish, after the messages are stored: the stream ends and the run is over.
RunFinishes(q) ==
  /\ At(q, "run", "finishing") /\ (agent # 0 => agents[agent].writes = <<>>)
  /\ Goes(q, "ended") /\ running' = 0
  /\ approvals' = {} /\ agents' = Expired(approvals, agents)
  /\ UNCHANGED <<exists, transcript, starting, agent, owner, history, faults, crashes>>

\* abort, also when the client of the stream goes away.
Abort ==
  /\ running # 0
  /\ agents' = Expired(approvals, Aborted(requests[running].agent, agents)) /\ approvals' = {}
  /\ UNCHANGED <<exists, transcript, maps, requests, owner, history, faults, crashes>>

\* openSession: first it reads, then it looks whether somebody works, then it repairs.
OpenSession ==
  /\ exists /\ Asked("open", "read", 0, Unanswered)
  /\ UNCHANGED <<exists, transcript, maps, agents, approvals, owner, history, faults, crashes>>

OpenLooks(q) ==
  /\ At(q, "open", "read")
  /\ Goes(q, IF starting \/ running # 0 \/ requests[q].pending = {} THEN "ended" ELSE "repair")
  /\ UNCHANGED <<exists, transcript, maps, agents, approvals, owner, history, faults, crashes>>

OpenRepairs(q) ==
  /\ At(q, "open", "repair") /\ Goes(q, "ended")
  /\ \E found \in BOOLEAN :
       Finds(found) /\ transcript' = IF found THEN Repaired(requests[q].pending) ELSE transcript
  /\ UNCHANGED <<exists, maps, agents, approvals, owner, history, crashes>>

\* deleteSession and close: the agent is told to end.
EndAgents(kind) ==
  /\ Asked(kind, "wait", agent, {})
  /\ agents' = Aborted(agent, agents) /\ approvals' = WaitingOf(agents')
  /\ UNCHANGED <<exists, transcript, maps, owner, history, faults, crashes>>

DeleteSession == exists /\ EndAgents("delete")

\* The first signal closes; the handler ignores a second one.
Close == (\A q \in DOMAIN requests : requests[q].kind = "close" => requests[q].step = "over") /\ EndAgents("close")

\* unsubscribePersistence
Unheard(b, as) == [a \in DOMAIN as |-> [as[a] EXCEPT !.heard = @ /\ a # b]]

\* What the agent that was told to end says is no longer stored, and the session has no agent.
Forget(q) ==
  /\ agent' = 0 /\ running' = 0 /\ approvals' = {}
  /\ agents' = Unheard(requests[q].agent, Expired(approvals, agents))

\* A message that was not stored ends deleteSession here.
Deletes(q) ==
  /\ At(q, "delete", "wait") /\ Flushed(requests[q].agent)
  /\ IF requests[q].agent # 0 /\ agents[requests[q].agent].failed
     THEN Goes(q, "refused") /\ UNCHANGED <<agent, running, approvals, agents>>
     ELSE Goes(q, "drop") /\ Forget(q)
  /\ UNCHANGED <<exists, transcript, starting, owner, history, faults, crashes>>

\* The repository forgets the session with its messages, unless it was closed first.
Drops(q) ==
  /\ At(q, "delete", "drop") /\ Goes(q, "ended")
  /\ \E found \in BOOLEAN :
       /\ Finds(found) /\ exists' = (exists /\ ~found)
       /\ transcript' = IF found THEN [c \in Tools |-> "none"] ELSE transcript
  /\ UNCHANGED <<maps, agents, approvals, owner, history, crashes>>

Closes(q) ==
  /\ At(q, "close", "wait") /\ Flushed(requests[q].agent)
  /\ Goes(q, "ended") /\ Forget(q) /\ starting' = FALSE
  /\ UNCHANGED <<exists, transcript, owner, history, faults, crashes>>

-----------------------------------------------------------------------------
\* What is left of a request of an earlier process: nothing but its number.
Gone == [kind |-> "open", step |-> "over", agent |-> 0, pending |-> {}]

\* The process ends and another one starts: what is stored stays.
Restart ==
  /\ crashes < MaxCrashes /\ crashes' = crashes + 1
  /\ starting' = FALSE /\ running' = 0 /\ agent' = 0 /\ approvals' = {}
  /\ agents' = [a \in DOMAIN agents |-> NewAgent]
  /\ requests' = [q \in DOMAIN requests |-> Gone]
  /\ UNCHANGED <<exists, transcript, owner, history, faults>>

Init ==
  /\ exists = TRUE /\ transcript = [c \in Tools |-> "none"]
  /\ starting = FALSE /\ running = 0 /\ agent = 0 /\ agents = <<>> /\ requests = <<>>
  /\ approvals = {} /\ owner = <<>> /\ approved = {} /\ executed = [c \in Tools |-> 0]
  /\ faults = 0 /\ crashes = 0

Works(a) == AskApproval(a) \/ ToolEnds(a) \/ Persist(a)

Steps(q) ==
  \/ Deletes(q) \/ Closes(q)
  \/ /\ ~\E d \in DOMAIN requests : Ready(d)
     /\ RunLoads(q) \/ RunRepairs(q) \/ RunPrompts(q) \/ RunFinishes(q) \/ OpenLooks(q) \/ OpenRepairs(q) \/ Drops(q)

Next ==
  \/ Run \/ Abort \/ OpenSession \/ DeleteSession \/ Close \/ Restart
  \/ \E q \in DOMAIN requests : Steps(q) \/ NoCredential(q)
  \/ \E a \in DOMAIN agents : Works(a) \/ CallTool(a) \/ AgentEnds(a)
  \/ \E c \in Tools, yes \in BOOLEAN : RespondApproval(c, yes)

\* An agent ends, because its provider answers or it was aborted; promises go on. No person must answer.
Fairness ==
  /\ WF_vars(\E a \in DOMAIN agents : Works(a)) /\ WF_vars(\E a \in DOMAIN agents : AgentEnds(a))
  /\ WF_vars(\E q \in DOMAIN requests : Steps(q))

Spec == Init /\ [][Next]_vars /\ Fairness

-----------------------------------------------------------------------------
(* Properties *)

\* Every variable keeps its type; only existing agents and requests are referred to.
TypeOK ==
  /\ exists \in BOOLEAN /\ starting \in BOOLEAN
  /\ transcript \in [Tools -> {"none", "called", "answered", "twice"}]
  /\ agent \in 0..Len(agents) /\ running \in 0..Len(requests)
  /\ \A a \in DOMAIN agents :
       /\ agents[a].step \in {"idle", "prepare", "waiting", "granted", "refused"}
       /\ (agents[a].step = "idle") = (agents[a].tool = 0)
       /\ agents[a].tool # 0 => agents[a].busy /\ owner[agents[a].tool] = a
  /\ approvals \subseteq DOMAIN owner /\ faults \in 0..MaxFaults

\* Nothing is changed without a person: a tool call runs at most once, and only one that was
\* approved, whatever aborts, deletions, ends of runs and new runs come between.
OnlyApproved == \A c \in Tools : executed[c] <= IF c \in approved THEN 1 ELSE 0

\* What waits for a person can be answered, and nothing else can: no tool call waits for an approval
\* that has expired, and none is offered whose agent has gone on.
WaitersListed == approvals = WaitingOf(agents)

\* A session has one run at a time, however requests overlap while its agent is being made and while a
\* deletion or a close waits for it. Two deletions, or a close that has ended (the server still listens), make
\* the session forget a run that starts or streams: each of them makes room for one stream more, not for many.
Streaming == {q \in DOMAIN requests : requests[q].step = "streaming"}
Deleting == {q \in DOMAIN requests : requests[q].kind = "delete" /\ requests[q].step # "over"}
Forgotten == Closed \cup {q \in DOMAIN requests : requests[q].kind = "delete" /\ requests[q].step \in {"drop", "ended"}}

OneRun ==
  /\ Cardinality(Streaming) <= 1 + Cardinality(Forgotten)
  /\ Cardinality(Deleting) <= 1 /\ Closed = {} => Cardinality(Streaming) <= 1

\* No prompt goes out over a conversation with a call that an earlier agent left without a result,
\* also after a crash: only calls of the agent itself are unanswered while it works
\* (in a session that is not being deleted, until a close has ended; the next process starts anew).
NothingInterrupted ==
  exists /\ ~Some({"delete"}, "drop") /\ Closed = {} =>
    \A a \in DOMAIN agents : agents[a].busy => \A c \in Unanswered : owner[c] = a

\* A stream ends or waits for a person: an abort, a deletion or an error is not forgotten by it.
StreamsClose == Some({"run"}, "streaming") ~> ~Some({"run"}, "streaming") \/ approvals # {}

\* A deletion and a close are answered, also when a tool waits for a person.
EndsReturn == Some({"delete", "close"}, "wait") ~> ~Some({"delete", "close"}, "wait")

\* A person decides: no tool call runs unapproved or twice, and what waits is what is offered.
PeopleDecide == TypeOK /\ OnlyApproved /\ WaitersListed

\* Runs, deletions and close end, also when they wait for each other or for a person.
RunsEnd == StreamsClose /\ EndsReturn

=============================================================================
