---------------------------- MODULE AssistantProofs ----------------------------
(***************************************************************************)
(* A person decides (PeopleDecide of Assistant), a session streams one run *)
(* at a time (OneRun) and prompts nothing over an interrupted call         *)
(* (NothingInterrupted), for any number of requests, tool calls, faults    *)
(* and restarts.                                                           *)
(*                                                                         *)
(* The first is not inductive: a granted call must not have run before, so *)
(* a waiting one must not have either, and an answer must reach the agent  *)
(* that waits, so the agent of a call is its owner. Valid says this of     *)
(* each agent; what an agent does not know of (requests, the stored        *)
(* conversation) only keeps its type.                                      *)
(*                                                                         *)
(* The second says nothing of which agent a stream has, and that decides:  *)
(* until a close has ended RunsRight says that only one request starts,    *)
(* that a stream is the one of a working agent, and, as long as one        *)
(* deletion is under way, that all of them belong to the agent that the    *)
(* session still knows. What several deletions or a close make possible    *)
(* is counted: Counted says that the session knows of one run, and that    *)
(* each run it does not know has a deletion or a close that forgot it.     *)
(*                                                                         *)
(* The third needs that nobody else stores: CallsRight says that one agent *)
(* at most works or has messages to store, that they are about its own     *)
(* calls, and that a repair knows all that is unanswered.                  *)
(***************************************************************************)
EXTENDS Assistant, TLAPS, FiniteSetTheorems

AgentSteps == {"idle", "prepare", "waiting", "granted", "refused"}
Write == [call : Tools, to : {"called", "answered"}]
AgentState ==
  [busy : BOOLEAN, aborted : BOOLEAN, tool : Nat, step : AgentSteps, heard : BOOLEAN, writes : Seq(Write), failed : BOOLEAN]
Kinds == {"run", "open", "delete", "close"}
RequestSteps ==
  {"load", "repair", "credential", "streaming", "finishing", "read", "wait", "drop", "ended", "refused", "over"}
Request == [kind : Kinds, step : RequestSteps, agent : Nat, pending : SUBSET Tools]

\* The call an agent works at is its own, has not run, and runs only if it was approved.
Valid(x, a, own, done, yes) ==
  /\ x.step = "idle" <=> x.tool = 0
  /\ x.tool # 0 => x.busy /\ x.tool \in DOMAIN own /\ own[x.tool] = a
  /\ x.step \in {"prepare", "waiting", "granted"} => done[x.tool] = 0
  /\ x.step = "granted" => x.tool \in yes

AllValid(as, own, done, yes) ==
  as \in Seq(AgentState) /\ \A a \in DOMAIN as : Valid(as[a], a, own, done, yes)

\* What belongs to people: agents, calls, approvals.
Decided ==
  /\ AllValid(agents, owner, executed, approved)
  /\ owner \in Seq(Nat) /\ Len(owner) <= MaxTools
  /\ approved \subseteq DOMAIN owner
  /\ executed \in [Tools -> Nat]
  /\ OnlyApproved
  /\ WaitersListed

\* What requests and the repository change.
Typed ==
  /\ exists \in BOOLEAN /\ starting \in BOOLEAN
  /\ transcript \in [Tools -> {"none", "called", "answered", "twice"}]
  /\ requests \in Seq(Request)
  /\ agent \in 0..Len(agents) /\ running \in 0..Len(requests)
  /\ faults \in 0..MaxFaults

IInv == Decided /\ Typed

-----------------------------------------------------------------------------
(* Sequences and agents *)

\* A sequence changed at its indices only is a sequence of the same length.
LEMMA SameLength ==
  ASSUME NEW S, NEW s \in Seq(S), NEW T, NEW f, f = [i \in DOMAIN s |-> f[i]], \A i \in DOMAIN s : f[i] \in T
  PROVE  f \in Seq(T) /\ Len(f) = Len(s) /\ DOMAIN f = DOMAIN s
<1>1. DOMAIN s = 1..Len(s) /\ Len(s) \in Nat
  OBVIOUS
<1>2. f \in [1..Len(s) -> T] /\ DOMAIN f = 1..Len(s)
  BY <1>1
<1>3. f \in Seq(T)
  BY <1>1, <1>2
<1>4. Len(f) = Len(s)
  BY <1>1, <1>2, <1>3
<1> QED
  BY <1>1, <1>2, <1>3, <1>4

LEMMA Elements ==
  ASSUME NEW S, NEW s \in Seq(S)
  PROVE  \A i \in DOMAIN s : s[i] \in S
OBVIOUS

\* Calls that are told no leave the waiting ones, and every agent stays valid.
LEMMA RefuseKeeps ==
  ASSUME NEW set, NEW as, NEW own, NEW done, NEW yes, AllValid(as, own, done, yes)
  PROVE  /\ AllValid(Refuse(set, as), own, done, yes)
         /\ Len(Refuse(set, as)) = Len(as)
         /\ WaitingOf(Refuse(set, as)) = WaitingOf(as) \ set
<1> DEFINE new == Refuse(set, as)
<1>1. as \in Seq(AgentState) /\ \A a \in DOMAIN as : Valid(as[a], a, own, done, yes) /\ as[a] \in AgentState
  BY Elements DEF AllValid
<1>2. DOMAIN new = DOMAIN as /\ new = [a \in DOMAIN as |-> new[a]]
  BY DEF Refuse
<1>3. ASSUME NEW a \in DOMAIN as
      PROVE  /\ new[a] \in AgentState
             /\ Valid(new[a], a, own, done, yes)
             /\ new[a].step = "waiting" <=> as[a].step = "waiting" /\ as[a].tool \notin set
             /\ new[a].tool = as[a].tool
  BY <1>1, <1>3 DEF Refuse, AgentState, AgentSteps, Valid
<1>4. new \in Seq(AgentState) /\ Len(new) = Len(as)
  BY <1>1, <1>2, <1>3, SameLength
<1>5. WaitingOf(new) = WaitingOf(as) \ set
  <2> HIDE DEF new
  <2> QED
    BY <1>2, <1>3 DEF WaitingOf
<1> QED
  BY <1>2, <1>3, <1>4, <1>5 DEF AllValid

\* So does the signal of an agent.
LEMMA AbortedKeeps ==
  ASSUME NEW b, NEW as, NEW own, NEW done, NEW yes, AllValid(as, own, done, yes)
  PROVE  /\ AllValid(Aborted(b, as), own, done, yes)
         /\ Len(Aborted(b, as)) = Len(as)
         /\ WaitingOf(Aborted(b, as)) \subseteq WaitingOf(as)
<1> DEFINE told == [as EXCEPT ![b].aborted = TRUE]
<1>1. as \in Seq(AgentState) /\ \A a \in DOMAIN as : Valid(as[a], a, own, done, yes) /\ as[a] \in AgentState
  BY Elements DEF AllValid
<1>2. told = [a \in DOMAIN as |-> told[a]] /\ DOMAIN told = DOMAIN as
  OBVIOUS
<1>3. \A a \in DOMAIN as : told[a] \in AgentState /\ Valid(told[a], a, own, done, yes)
  BY <1>1 DEF AgentState, Valid
<1>4. told \in Seq(AgentState) /\ Len(told) = Len(as)
  <2> HIDE DEF told
  <2> QED
    BY <1>1, <1>2, <1>3, SameLength
<1>5. AllValid(told, own, done, yes)
  BY <1>2, <1>3, <1>4 DEF AllValid
<1>6. CASE b \in DOMAIN as /\ as[b].busy
  <2>1. \A a \in DOMAIN as : told[a].step = as[a].step /\ told[a].tool = as[a].tool
    BY <1>1 DEF AgentState
  <2>2. Aborted(b, as) = Refuse({as[b].tool}, told)
    BY <1>6 DEF Aborted
  <2> HIDE DEF told
  <2>3. WaitingOf(told) = WaitingOf(as)
    BY <1>2, <2>1 DEF WaitingOf
  <2>4. /\ AllValid(Refuse({as[b].tool}, told), own, done, yes)
        /\ Len(Refuse({as[b].tool}, told)) = Len(told)
        /\ WaitingOf(Refuse({as[b].tool}, told)) = WaitingOf(told) \ {as[b].tool}
    BY <1>5, RefuseKeeps
  <2> QED
    BY <1>4, <2>2, <2>3, <2>4
<1>7. CASE ~(b \in DOMAIN as /\ as[b].busy)
  BY <1>7 DEF Aborted
<1> QED
  BY <1>6, <1>7

\* So does the end of its subscription.
LEMMA UnheardKeeps ==
  ASSUME NEW b, NEW as, NEW own, NEW done, NEW yes, AllValid(as, own, done, yes)
  PROVE  /\ AllValid(Unheard(b, as), own, done, yes)
         /\ Len(Unheard(b, as)) = Len(as)
         /\ WaitingOf(Unheard(b, as)) = WaitingOf(as)
<1> DEFINE new == Unheard(b, as)
<1>1. as \in Seq(AgentState) /\ \A a \in DOMAIN as : Valid(as[a], a, own, done, yes) /\ as[a] \in AgentState
  BY Elements DEF AllValid
<1>2. DOMAIN new = DOMAIN as /\ new = [a \in DOMAIN as |-> new[a]]
  BY DEF Unheard
<1>3. ASSUME NEW a \in DOMAIN as
      PROVE  /\ new[a] \in AgentState
             /\ Valid(new[a], a, own, done, yes)
             /\ new[a].step = as[a].step /\ new[a].tool = as[a].tool
  <2>1. new[a] = [as[a] EXCEPT !.heard = as[a].heard /\ a # b]
    BY <1>3 DEF Unheard
  <2>2. (as[a].heard /\ a # b) \in BOOLEAN
    OBVIOUS
  <2> QED
    BY <1>1, <1>3, <2>1, <2>2 DEF AgentState, Valid
<1>4. new \in Seq(AgentState) /\ Len(new) = Len(as)
  BY <1>1, <1>2, <1>3, SameLength
<1>5. WaitingOf(new) = WaitingOf(as)
  <2> HIDE DEF new
  <2> QED
    BY <1>2, <1>3 DEF WaitingOf
<1> QED
  BY <1>2, <1>3, <1>4, <1>5 DEF AllValid

\* A message for the store is one more or none.
LEMMA ToldTyped ==
  ASSUME NEW a, agents[a] \in AgentState, NEW call \in Tools, NEW to \in {"called", "answered"}
  PROVE  Told(a, call, to) \in Seq(Write)
<1>1. [call |-> call, to |-> to] \in Write /\ agents[a].writes \in Seq(Write)
  BY DEF Write, AgentState
<1>2. Append(agents[a].writes, [call |-> call, to |-> to]) \in Seq(Write)
  BY <1>1
<1> QED
  BY <1>1, <1>2 DEF Told

\* One agent changes.
LEMMA OneAgent ==
  ASSUME NEW as, NEW own, NEW done, NEW yes, AllValid(as, own, done, yes),
         NEW b \in DOMAIN as, NEW x \in AgentState,
         NEW own2, NEW done2, NEW yes2, Valid(x, b, own2, done2, yes2),
         \A a \in DOMAIN as \ {b} : Valid(as[a], a, own2, done2, yes2)
  PROVE  AllValid([as EXCEPT ![b] = x], own2, done2, yes2) /\ Len([as EXCEPT ![b] = x]) = Len(as)
<1> DEFINE new == [as EXCEPT ![b] = x]
<1>1. as \in Seq(AgentState) /\ \A a \in DOMAIN as : as[a] \in AgentState
  BY Elements DEF AllValid
<1>2. new = [a \in DOMAIN as |-> new[a]] /\ DOMAIN new = DOMAIN as
  OBVIOUS
<1>3. \A a \in DOMAIN as : new[a] \in AgentState /\ Valid(new[a], a, own2, done2, yes2)
  BY <1>1
<1> HIDE DEF new
<1>4. new \in Seq(AgentState) /\ Len(new) = Len(as)
  BY <1>1, <1>2, <1>3, SameLength
<1>5. AllValid(new, own2, done2, yes2)
  BY <1>2, <1>3, <1>4 DEF AllValid
<1> QED
  BY <1>4, <1>5 DEF new

-----------------------------------------------------------------------------
(* Requests *)

LEMMA GoesTyped ==
  ASSUME requests \in Seq(Request), NEW q, NEW step \in RequestSteps, Goes(q, step)
  PROVE  requests' \in Seq(Request) /\ Len(requests') = Len(requests)
<1>1. \A i \in DOMAIN requests : requests[i] \in Request
  BY Elements
<1>2. requests' = [i \in DOMAIN requests |-> requests'[i]]
  BY DEF Goes
<1>3. \A i \in DOMAIN requests : requests'[i] \in Request
  BY <1>1 DEF Goes, Request
<1> QED
  BY <1>2, <1>3, SameLength

LEMMA AskedTyped ==
  ASSUME requests \in Seq(Request), NEW kind \in Kinds, NEW step \in RequestSteps, NEW a \in Nat, NEW pending \in SUBSET Tools,
         Asked(kind, step, a, pending)
  PROVE  requests' \in Seq(Request) /\ Len(requests') = Len(requests) + 1
<1>1. [kind |-> kind, step |-> step, agent |-> a, pending |-> pending] \in Request
  BY DEF Request
<1> QED
  BY <1>1 DEF Asked

LEMMA StoredTyped ==
  ASSUME NEW now \in {"none", "called", "answered", "twice"}, NEW to \in {"called", "answered"}
  PROVE  Stored(now, to) \in {"none", "called", "answered", "twice"}
BY DEF Stored

LEMMA RepairedTyped ==
  ASSUME transcript \in [Tools -> {"none", "called", "answered", "twice"}], NEW set
  PROVE  Repaired(set) \in [Tools -> {"none", "called", "answered", "twice"}]
BY StoredTyped DEF Repaired

LEMMA FindsTyped ==
  ASSUME faults \in 0..MaxFaults, MaxFaults \in Nat, NEW found, Finds(found)
  PROVE  faults' \in 0..MaxFaults
BY DEF Finds

\* A step that touches neither agents nor approvals decides nothing.
LEMMA QuietDecided ==
  ASSUME Decided, UNCHANGED <<agents, approvals, owner, history>>
  PROVE  Decided'
BY DEF Decided, AllValid, OnlyApproved, WaitersListed, history

\* Everything that waits is told no.
LEMMA ExpiryDecided ==
  ASSUME Decided, NEW as, AllValid(as, owner, executed, approved), WaitingOf(as) \subseteq approvals,
         agents' = Expired(approvals, as), approvals' = {}, UNCHANGED <<owner, history>>
  PROVE  Decided' /\ Len(agents') = Len(as)
<1>1. /\ AllValid(Refuse(approvals, as), owner, executed, approved)
      /\ Len(Refuse(approvals, as)) = Len(as)
      /\ WaitingOf(Refuse(approvals, as)) = WaitingOf(as) \ approvals
  BY RefuseKeeps
<1>2. AllValid(agents', owner, executed, approved) /\ Len(agents') = Len(as) /\ WaitingOf(agents') = {}
  BY <1>1 DEF Expired
<1> QED
  BY <1>2 DEF Decided, OnlyApproved, WaitersListed, history

LEMMA AbortDecided ==
  ASSUME Decided, NEW b, agents' = Expired(approvals, Aborted(b, agents)), approvals' = {}, UNCHANGED <<owner, history>>
  PROVE  Decided' /\ Len(agents') = Len(agents)
<1>1. /\ AllValid(Aborted(b, agents), owner, executed, approved)
      /\ Len(Aborted(b, agents)) = Len(agents)
      /\ WaitingOf(Aborted(b, agents)) \subseteq approvals
  BY AbortedKeeps DEF Decided, WaitersListed
<1> QED
  BY <1>1, ExpiryDecided

LEMMA FinishDecided ==
  ASSUME Decided, agents' = Expired(approvals, agents), approvals' = {}, UNCHANGED <<owner, history>>
  PROVE  Decided' /\ Len(agents') = Len(agents)
BY ExpiryDecided DEF Decided, WaitersListed

LEMMA ForgetDecided ==
  ASSUME Decided, NEW q, Forget(q), UNCHANGED <<owner, history>>
  PROVE  Decided' /\ Len(agents') = Len(agents)
<1> DEFINE told == Refuse(approvals, agents)
<1>1. /\ AllValid(told, owner, executed, approved) /\ Len(told) = Len(agents)
      /\ WaitingOf(told) = WaitingOf(agents) \ approvals
  BY RefuseKeeps DEF Decided
<1>2. WaitingOf(told) = {} /\ agents' = Unheard(requests[q].agent, told) /\ approvals' = {}
  BY <1>1 DEF Decided, WaitersListed, Forget, Expired
<1> HIDE DEF told
<1>3. AllValid(agents', owner, executed, approved) /\ Len(agents') = Len(agents) /\ WaitingOf(agents') = {}
  BY <1>1, <1>2, UnheardKeeps
<1> QED
  BY <1>2, <1>3 DEF Decided, OnlyApproved, WaitersListed, history

\* What waits after one agent changed.
LEMMA OneWaits ==
  ASSUME NEW as, NEW own, NEW done, NEW yes, AllValid(as, own, done, yes), NEW b \in DOMAIN as, NEW x
  PROVE  LET new == [as EXCEPT ![b] = x]
         IN  /\ as[b].step # "waiting" /\ x.step # "waiting" => WaitingOf(new) = WaitingOf(as)
             /\ as[b].step # "waiting" /\ x.step = "waiting" => WaitingOf(new) = WaitingOf(as) \cup {x.tool}
             /\ as[b].step = "waiting" /\ x.step # "waiting" => WaitingOf(new) = WaitingOf(as) \ {as[b].tool}
             /\ as[b].step = x.step /\ as[b].tool = x.tool => WaitingOf(new) = WaitingOf(as)
<1> DEFINE new == [as EXCEPT ![b] = x]
<1>1. b \in DOMAIN as /\ DOMAIN new = DOMAIN as /\ new[b] = x /\ \A a \in DOMAIN as \ {b} : new[a] = as[a]
  OBVIOUS
<1>2. \A a \in DOMAIN as : as[a].step = "waiting" => as[a].tool # 0 /\ own[as[a].tool] = a
  BY DEF AllValid, Valid
<1>3. \A a \in DOMAIN as \ {b} : as[a].step = "waiting" /\ as[b].step = "waiting" => as[a].tool # as[b].tool
  BY <1>2
<1> HIDE DEF new
<1> DEFINE Others(c) == \E a \in DOMAIN as \ {b} : as[a].step = "waiting" /\ as[a].tool = c
<1>4. \A c : c \in WaitingOf(as) <=> Others(c) \/ (as[b].step = "waiting" /\ as[b].tool = c)
  BY ONLY <1>1 DEF WaitingOf
<1>5. \A c : c \in WaitingOf(new) <=> Others(c) \/ (x.step = "waiting" /\ x.tool = c)
  BY ONLY <1>1 DEF WaitingOf
<1>6. as[b].step = "waiting" => ~Others(as[b].tool)
  BY ONLY <1>3
<1> HIDE DEF Others
<1>7. as[b].step # "waiting" /\ x.step # "waiting" => WaitingOf(new) = WaitingOf(as)
  BY ONLY <1>4, <1>5
<1>8. as[b].step # "waiting" /\ x.step = "waiting" => WaitingOf(new) = WaitingOf(as) \cup {x.tool}
  BY ONLY <1>4, <1>5
<1>9. as[b].step = "waiting" /\ x.step # "waiting" => WaitingOf(new) = WaitingOf(as) \ {as[b].tool}
  BY ONLY <1>4, <1>5, <1>6
<1>10. as[b].step = x.step /\ as[b].tool = x.tool => WaitingOf(new) = WaitingOf(as)
  BY ONLY <1>4, <1>5
<1> QED
  BY <1>7, <1>8, <1>9, <1>10 DEF new

-----------------------------------------------------------------------------
(* The agent: one lemma for each of its steps *)

LEMMA CallToolDecided ==
  ASSUME Decided, MaxTools \in Nat, NEW a, CallTool(a)
  PROVE  Decided' /\ Len(agents') = Len(agents)
<1> DEFINE n == Len(owner) + 1
           x == [agents[a] EXCEPT !.tool = n, !.step = "prepare", !.writes = Told(a, n, "called")]
<1>1. a \in DOMAIN agents /\ agents[a].busy /\ agents[a].step = "idle" /\ agents[a] \in AgentState
  BY Elements DEF CallTool, Decided, AllValid
<1>2. owner' = Append(owner, a) /\ owner \in Seq(Nat) /\ Len(owner) < MaxTools /\ a \in Nat
  BY <1>1 DEF CallTool, Decided, AllValid
<1>3. /\ owner' \in Seq(Nat) /\ Len(owner') = n /\ n \in Tools /\ n # 0 /\ n \in Nat
      /\ DOMAIN owner = 1..Len(owner) /\ DOMAIN owner' = 1..n /\ owner'[n] = a
      /\ \A c \in DOMAIN owner : c \in DOMAIN owner' /\ owner'[c] = owner[c]
  BY <1>2 DEF Tools
<1>4. n \notin approved /\ executed[n] = 0
  <2>1. n \notin DOMAIN owner
    BY <1>2, <1>3
  <2> HIDE DEF n
  <2> QED
    BY <2>1, <1>3 DEF Decided, OnlyApproved
<1>5. agents' = [agents EXCEPT ![a] = x]
  BY <1>1, <1>3 DEF CallTool
<1>6. x \in AgentState /\ x.step = "prepare" /\ x.tool = n /\ x.busy
  <2>2. Told(a, n, "called") \in Seq(Write)
    BY <1>1, <1>3, ToldTyped
  <2> HIDE DEF n
  <2> QED
    BY <1>1, <1>3, <2>2 DEF AgentState, AgentSteps
<1> HIDE DEF n, x
<1>7. Valid(x, a, owner', executed, approved)
  BY <1>3, <1>4, <1>6 DEF Valid
<1>8. ASSUME NEW b \in DOMAIN agents \ {a} PROVE Valid(agents[b], b, owner', executed, approved)
  <2>1. Valid(agents[b], b, owner, executed, approved)
    BY DEF Decided, AllValid
  <2> QED
    BY <2>1, <1>3 DEF Valid
<1> DEFINE new == [agents EXCEPT ![a] = x]
<1>9. AllValid(new, owner', executed, approved) /\ Len(new) = Len(agents)
  BY <1>1, <1>6, <1>7, <1>8, OneAgent DEF Decided
<1>10. WaitingOf(new) = WaitingOf(agents)
  BY <1>1, <1>6, OneWaits DEF Decided
<1>11. UNCHANGED <<approvals, approved, executed>>
  BY DEF CallTool, history
<1> QED
  BY <1>2, <1>3, <1>5, <1>9, <1>10, <1>11 DEF Decided, OnlyApproved, WaitersListed

\* One agent changes, and nothing people decided.
LEMMA OneDecided ==
  ASSUME Decided, NEW a \in DOMAIN agents, NEW x \in AgentState, Valid(x, a, owner, executed, approved),
         agents' = [agents EXCEPT ![a] = x], UNCHANGED <<owner, history>>,
         approvals' = WaitingOf([agents EXCEPT ![a] = x])
  PROVE  Decided' /\ Len(agents') = Len(agents)
<1> DEFINE new == [agents EXCEPT ![a] = x]
<1>1. \A b \in DOMAIN agents : Valid(agents[b], b, owner, executed, approved)
  BY DEF Decided, AllValid
<1>2. AllValid(new, owner, executed, approved) /\ Len(new) = Len(agents)
  BY <1>1, OneAgent DEF Decided
<1> QED
  BY <1>2 DEF Decided, OnlyApproved, WaitersListed, history

LEMMA AskApprovalDecided ==
  ASSUME Decided, NEW a, AskApproval(a)
  PROVE  Decided' /\ Len(agents') = Len(agents)
<1>1. a \in DOMAIN agents /\ agents[a].step = "prepare" /\ agents[a] \in AgentState
  BY Elements DEF AskApproval, Decided, AllValid
<1>2. Valid(agents[a], a, owner, executed, approved) /\ WaitingOf(agents) = approvals
  BY <1>1 DEF Decided, AllValid, WaitersListed
<1>3. UNCHANGED <<owner, history>>
  BY DEF AskApproval
<1>4. CASE running # 0 /\ ~agents[a].aborted
  <2> DEFINE x == [agents[a] EXCEPT !.step = "waiting"]
  <2>1. agents' = [agents EXCEPT ![a] = x] /\ approvals' = approvals \cup {agents[a].tool}
    BY <1>4 DEF AskApproval
  <2>2. x \in AgentState /\ Valid(x, a, owner, executed, approved) /\ x.step = "waiting" /\ x.tool = agents[a].tool
    BY <1>1, <1>2 DEF AgentState, AgentSteps, Valid
  <2> HIDE DEF x
  <2>3. WaitingOf([agents EXCEPT ![a] = x]) = WaitingOf(agents) \cup {x.tool}
    BY <1>1, <2>2, OneWaits DEF Decided
  <2> QED
    BY <1>1, <1>2, <1>3, <2>1, <2>2, <2>3, OneDecided
<1>5. CASE ~(running # 0 /\ ~agents[a].aborted)
  <2> DEFINE x == [agents[a] EXCEPT !.step = "refused"]
  <2>1. agents' = [agents EXCEPT ![a] = x] /\ approvals' = approvals
    BY <1>5 DEF AskApproval
  <2>2. x \in AgentState /\ Valid(x, a, owner, executed, approved) /\ x.step = "refused"
    BY <1>1, <1>2 DEF AgentState, AgentSteps, Valid
  <2> HIDE DEF x
  <2>3. WaitingOf([agents EXCEPT ![a] = x]) = WaitingOf(agents)
    BY <1>1, <2>2, OneWaits DEF Decided
  <2> QED
    BY <1>1, <1>2, <1>3, <2>1, <2>2, <2>3, OneDecided
<1> QED
  BY <1>4, <1>5

LEMMA AgentEndsDecided ==
  ASSUME Decided, NEW a, AgentEnds(a)
  PROVE  Decided' /\ Len(agents') = Len(agents)
<1> DEFINE x == [agents[a] EXCEPT !.busy = FALSE]
<1>1. a \in DOMAIN agents /\ agents[a].step = "idle" /\ agents[a] \in AgentState
  BY Elements DEF AgentEnds, Decided, AllValid
<1>2. Valid(agents[a], a, owner, executed, approved) /\ WaitingOf(agents) = approvals
  BY <1>1 DEF Decided, AllValid, WaitersListed
<1>3. agents' = [agents EXCEPT ![a] = x] /\ UNCHANGED <<approvals, owner, history>>
  BY DEF AgentEnds
<1>4. x \in AgentState /\ Valid(x, a, owner, executed, approved) /\ x.step = "idle"
  BY <1>1, <1>2 DEF AgentState, AgentSteps, Valid
<1> HIDE DEF x
<1>5. WaitingOf([agents EXCEPT ![a] = x]) = WaitingOf(agents)
  BY <1>1, <1>4, OneWaits DEF Decided
<1> QED
  BY <1>1, <1>2, <1>3, <1>4, <1>5, OneDecided

LEMMA PersistDecided ==
  ASSUME Decided, NEW a, Persist(a)
  PROVE  Decided' /\ Len(agents') = Len(agents)
<1>1. a \in DOMAIN agents /\ agents[a].writes # <<>> /\ agents[a] \in AgentState
  BY Elements DEF Persist, Decided, AllValid
<1>2. Valid(agents[a], a, owner, executed, approved) /\ WaitingOf(agents) = approvals
  BY <1>1 DEF Decided, AllValid, WaitersListed
<1>3. UNCHANGED <<approvals, owner, history>>
  BY DEF Persist
<1>4. PICK failed \in BOOLEAN : agents' = [agents EXCEPT ![a] = [agents[a] EXCEPT !.writes = Tail(agents[a].writes), !.failed = failed]]
  <2>1. agents[a].failed \in BOOLEAN
    BY <1>1 DEF AgentState
  <2>2. CASE agents' = [agents EXCEPT ![a].writes = Tail(@)]
    <3>1. agents' = [agents EXCEPT ![a] = [agents[a] EXCEPT !.writes = Tail(agents[a].writes), !.failed = agents[a].failed]]
      BY <1>1, <2>2 DEF AgentState
    <3> QED
      BY <2>1, <3>1
  <2>3. CASE agents' = [[agents EXCEPT ![a].writes = Tail(@)] EXCEPT ![a].failed = TRUE]
    <3>1. agents' = [agents EXCEPT ![a] = [agents[a] EXCEPT !.writes = Tail(agents[a].writes), !.failed = TRUE]]
      BY <1>1, <2>3 DEF AgentState
    <3> QED
      BY <3>1
  <2> QED
    BY <2>2, <2>3 DEF Persist
<1> DEFINE x == [agents[a] EXCEPT !.writes = Tail(agents[a].writes), !.failed = failed]
<1>5. agents' = [agents EXCEPT ![a] = x]
  BY <1>4
<1>6. x \in AgentState /\ x.step = agents[a].step /\ x.tool = agents[a].tool /\ x.busy = agents[a].busy
  <2>1. agents[a].writes \in Seq(Write) /\ Tail(agents[a].writes) \in Seq(Write)
    BY <1>1 DEF AgentState
  <2> QED
    BY <1>1, <2>1 DEF AgentState
<1>7. Valid(x, a, owner, executed, approved)
  BY <1>2, <1>6 DEF Valid
<1> HIDE DEF x
<1>8. WaitingOf([agents EXCEPT ![a] = x]) = WaitingOf(agents)
  BY <1>1, <1>6, OneWaits DEF Decided
<1> QED
  BY <1>1, <1>2, <1>3, <1>5, <1>6, <1>7, <1>8, OneDecided

\* The answer reaches the agent that waits, because the call is its own.
LEMMA RespondDecided ==
  ASSUME Decided, NEW c, NEW yes \in BOOLEAN, RespondApproval(c, yes)
  PROVE  Decided' /\ Len(agents') = Len(agents)
<1>1. PICK a \in DOMAIN agents : agents[a].step = "waiting" /\ agents[a].tool = c
  BY DEF RespondApproval, Decided, WaitersListed, WaitingOf
<1>2. agents[a] \in AgentState /\ Valid(agents[a], a, owner, executed, approved) /\ WaitingOf(agents) = approvals
  BY Elements DEF Decided, AllValid, WaitersListed
<1>3. c # 0 /\ c \in DOMAIN owner /\ owner[c] = a /\ executed[c] = 0
  BY <1>1, <1>2 DEF Valid, AgentState, AgentSteps
<1> DEFINE x == [agents[a] EXCEPT !.step = IF yes THEN "granted" ELSE "refused"]
<1>4. /\ agents' = [agents EXCEPT ![a] = x] /\ approvals' = approvals \ {c}
      /\ approved' = (IF yes THEN approved \cup {c} ELSE approved) /\ UNCHANGED <<owner, executed>>
  BY <1>1, <1>3 DEF RespondApproval
<1>5. x \in AgentState /\ x.step # "waiting" /\ Valid(x, a, owner, executed, approved')
  BY <1>1, <1>2, <1>3, <1>4 DEF AgentState, AgentSteps, Valid
<1> HIDE DEF x
<1>6. ASSUME NEW b \in DOMAIN agents \ {a} PROVE Valid(agents[b], b, owner, executed, approved')
  <2>1. Valid(agents[b], b, owner, executed, approved)
    BY DEF Decided, AllValid
  <2> QED
    BY <1>4, <2>1 DEF Valid
<1> DEFINE new == [agents EXCEPT ![a] = x]
<1>7. AllValid(new, owner, executed, approved') /\ Len(new) = Len(agents)
  BY <1>5, <1>6, OneAgent DEF Decided
<1>8. WaitingOf(new) = WaitingOf(agents) \ {c}
  BY <1>1, <1>5, OneWaits DEF Decided
<1>9. approved' \subseteq DOMAIN owner /\ OnlyApproved'
  BY <1>3, <1>4 DEF Decided, OnlyApproved
<1> QED
  BY <1>2, <1>4, <1>7, <1>8, <1>9 DEF Decided, WaitersListed

LEMMA ToolEndsDecided ==
  ASSUME Decided, NEW a, ToolEnds(a), MaxTools \in Nat
  PROVE  Decided' /\ Len(agents') = Len(agents)
<1> DEFINE c == agents[a].tool
           x == [agents[a] EXCEPT !.step = "idle", !.tool = 0, !.writes = Told(a, c, "answered")]
<1>1. a \in DOMAIN agents /\ agents[a].step \in {"granted", "refused"} /\ agents[a] \in AgentState
  BY Elements DEF ToolEnds, Decided, AllValid
<1>2. Valid(agents[a], a, owner, executed, approved) /\ WaitingOf(agents) = approvals
  BY <1>1 DEF Decided, AllValid, WaitersListed
<1>3. c # 0 /\ c \in DOMAIN owner /\ owner[c] = a /\ c \in Tools
  BY <1>1, <1>2 DEF Valid, Decided, Tools
<1>4. /\ agents' = [agents EXCEPT ![a] = x] /\ UNCHANGED <<approvals, approved, owner>>
      /\ executed' = (IF agents[a].step = "granted" THEN [executed EXCEPT ![c] = @ + 1] ELSE executed)
  BY <1>1 DEF ToolEnds
<1>5. x \in AgentState /\ x.step = "idle" /\ x.tool = 0
  <2>2. Told(a, c, "answered") \in Seq(Write)
    BY <1>1, <1>3, ToldTyped
  <2> QED
    BY <1>1, <2>2 DEF AgentState, AgentSteps
<1> HIDE DEF x
<1>6. Valid(x, a, owner, executed', approved)
  BY <1>5 DEF Valid
<1>7. ASSUME NEW b \in DOMAIN agents \ {a} PROVE Valid(agents[b], b, owner, executed', approved)
  <2>1. Valid(agents[b], b, owner, executed, approved)
    BY DEF Decided, AllValid
  <2>2. agents[b].step \in {"prepare", "waiting", "granted"} =>
          agents[b].tool \in DOMAIN owner /\ agents[b].tool # c /\ executed[agents[b].tool] = 0
    BY <1>3, <2>1 DEF Valid
  <2>3. agents[b].step \in {"prepare", "waiting", "granted"} => executed'[agents[b].tool] = 0
    BY <1>4, <2>2 DEF Decided
  <2> QED
    BY <2>1, <2>3 DEF Valid
<1> DEFINE new == [agents EXCEPT ![a] = x]
<1>8. AllValid(new, owner, executed', approved) /\ Len(new) = Len(agents)
  BY <1>1, <1>5, <1>6, <1>7, OneAgent DEF Decided
<1>9. WaitingOf(new) = WaitingOf(agents)
  BY <1>1, <1>5, OneWaits DEF Decided
<1>10. executed' \in [Tools -> Nat] /\ OnlyApproved'
  <2>1. agents[a].step = "granted" => executed[c] = 0 /\ c \in approved
    BY <1>2 DEF Valid
  <2> HIDE DEF c
  <2> QED
    BY <1>3, <1>4, <2>1 DEF Decided, OnlyApproved
<1> QED
  BY <1>2, <1>4, <1>8, <1>9, <1>10 DEF Decided, WaitersListed

-----------------------------------------------------------------------------
(* Requests that change agents *)

LEMMA RunPromptsDecided ==
  ASSUME Decided, NEW q, RunPrompts(q)
  PROVE  Decided' /\ Len(agents') = Len(agents)
<1> DEFINE a == requests[q].agent
           x == [agents[a] EXCEPT !.busy = TRUE, !.aborted = FALSE]
<1>1. UNCHANGED <<approvals, owner, history>>
  BY DEF RunPrompts
<1>2. CASE agents' = agents
  BY <1>1, <1>2, QuietDecided
<1>3. CASE a \in DOMAIN agents /\ agents' = [agents EXCEPT ![a].busy = TRUE, ![a].aborted = FALSE]
  <2>1. agents[a] \in AgentState /\ Valid(agents[a], a, owner, executed, approved) /\ WaitingOf(agents) = approvals
    BY <1>3, Elements DEF Decided, AllValid, WaitersListed
  <2>2. agents' = [agents EXCEPT ![a] = x]
    BY <1>3
  <2>3. x \in AgentState /\ Valid(x, a, owner, executed, approved) /\ x.step = agents[a].step /\ x.tool = agents[a].tool
    BY <2>1 DEF AgentState, AgentSteps, Valid
  <2> HIDE DEF x
  <2>4. WaitingOf([agents EXCEPT ![a] = x]) = WaitingOf(agents)
    BY <1>3, <2>3, OneWaits DEF Decided
  <2> HIDE DEF a
  <2> QED
    BY <1>1, <1>3, <2>1, <2>2, <2>3, <2>4, OneDecided
<1>4. agents' = agents \/ agents' = [agents EXCEPT ![a].busy = TRUE, ![a].aborted = FALSE]
  BY DEF RunPrompts
<1>5. a \notin DOMAIN agents => [agents EXCEPT ![a].busy = TRUE, ![a].aborted = FALSE] = agents
  BY DEF Decided, AllValid
<1> QED
  BY <1>2, <1>3, <1>4, <1>5

\* A new agent knows of no call.
LEMMA NewAgentValid ==
  NewAgent \in AgentState /\ \A a, own, done, yes : Valid(NewAgent, a, own, done, yes)
BY DEF NewAgent, AgentState, AgentSteps, Valid

LEMMA RunRepairsDecided ==
  ASSUME Decided, NEW q, RunRepairs(q)
  PROVE  Decided' /\ Len(agents') \in {Len(agents), Len(agents) + 1}
<1>1. UNCHANGED <<approvals, owner, history>>
  BY DEF RunRepairs
<1>2. CASE agents' = agents
  BY <1>1, <1>2, QuietDecided
<1>3. CASE agents' = Append(agents, NewAgent)
  <2>1. agents \in Seq(AgentState) /\ WaitingOf(agents) = approvals
    BY DEF Decided, AllValid, WaitersListed
  <2>2. /\ agents' \in Seq(AgentState) /\ Len(agents') = Len(agents) + 1
        /\ DOMAIN agents = 1..Len(agents) /\ DOMAIN agents' = 1..(Len(agents) + 1) /\ Len(agents) \in Nat
        /\ agents'[Len(agents) + 1] = NewAgent
        /\ \A a \in DOMAIN agents : agents'[a] = agents[a]
    BY <1>3, <2>1, NewAgentValid
  <2>3. ASSUME NEW a \in DOMAIN agents' PROVE Valid(agents'[a], a, owner, executed, approved)
    <3>1. CASE a \in DOMAIN agents
      BY <2>2, <3>1 DEF Decided, AllValid
    <3>2. CASE a \notin DOMAIN agents
      <4>1. a = Len(agents) + 1
        BY <2>2, <3>2
      <4> QED
        BY <2>2, <4>1, NewAgentValid
    <3> QED
      BY <3>1, <3>2
  <2>4. DOMAIN agents' = DOMAIN agents \cup {Len(agents) + 1} /\ agents'[Len(agents) + 1].step = "idle"
    BY <2>2 DEF NewAgent
  <2>5. WaitingOf(agents') = WaitingOf(agents)
    BY <2>2, <2>4 DEF WaitingOf
  <2> QED
    BY <1>1, <2>1, <2>2, <2>3, <2>5 DEF Decided, AllValid, OnlyApproved, WaitersListed, history
<1> QED
  BY <1>2, <1>3 DEF RunRepairs

LEMMA EndAgentsDecided ==
  ASSUME Decided, NEW kind, EndAgents(kind)
  PROVE  Decided' /\ Len(agents') = Len(agents)
<1>1. AllValid(Aborted(agent, agents), owner, executed, approved) /\ Len(Aborted(agent, agents)) = Len(agents)
  BY AbortedKeeps DEF Decided
<1> QED
  BY <1>1 DEF EndAgents, Decided, OnlyApproved, WaitersListed, history

LEMMA RestartDecided ==
  ASSUME Decided, Restart
  PROVE  Decided' /\ Len(agents') = Len(agents)
<1>1. agents \in Seq(AgentState) /\ agents' = [a \in DOMAIN agents |-> NewAgent] /\ UNCHANGED <<owner, history>> /\ approvals' = {}
  BY DEF Decided, AllValid, Restart
<1>2. DOMAIN agents' = DOMAIN agents /\ \A a \in DOMAIN agents : agents'[a] = NewAgent
  BY <1>1
<1>3. agents' \in Seq(AgentState) /\ Len(agents') = Len(agents)
  BY <1>1, <1>2, NewAgentValid, SameLength
<1>4. AllValid(agents', owner, executed, approved)
  BY <1>2, <1>3, NewAgentValid DEF AllValid
<1>5. WaitingOf(agents') = {}
  BY <1>2 DEF WaitingOf, NewAgent
<1> QED
  BY <1>1, <1>3, <1>4, <1>5 DEF Decided, OnlyApproved, WaitersListed, history

-----------------------------------------------------------------------------
(* The invariant: one lemma for the steps of an agent, of requests, of asking *)

LEMMA OneRequestTyped ==
  ASSUME requests \in Seq(Request), NEW q, NEW r \in Request, requests' = [requests EXCEPT ![q] = r]
  PROVE  requests' \in Seq(Request) /\ Len(requests') = Len(requests)
<1>1. \A i \in DOMAIN requests : requests[i] \in Request
  BY Elements
<1>2. requests' = [i \in DOMAIN requests |-> requests'[i]] /\ \A i \in DOMAIN requests : requests'[i] \in Request
  BY <1>1
<1>3. requests \in Seq(Request)
  OBVIOUS
<1> QED
  BY ONLY <1>2, <1>3, SameLength

LEMMA InvAgent ==
  ASSUME IInv, AssistantBounds, NEW a, Works(a) \/ CallTool(a) \/ AgentEnds(a)
  PROVE  IInv'
<1>0. MaxTools \in Nat /\ MaxFaults \in Nat /\ Decided /\ Typed
  BY DEF IInv, AssistantBounds
<1>1. CASE AskApproval(a)
  BY <1>0, <1>1, AskApprovalDecided DEF AskApproval, maps, IInv, Typed
<1>2. CASE ToolEnds(a)
  BY <1>0, <1>2, ToolEndsDecided DEF ToolEnds, maps, IInv, Typed
<1>3. CASE Persist(a)
  <2>1. Decided' /\ Len(agents') = Len(agents)
    BY <1>0, <1>3, PersistDecided
  <2>2. faults' \in 0..MaxFaults
    BY <1>0, <1>3 DEF Persist, Typed
  <2>3. transcript' \in [Tools -> {"none", "called", "answered", "twice"}]
    <3> DEFINE write == Head(agents[a].writes)
    <3>1. agents[a] \in AgentState /\ agents[a].writes # <<>>
      BY <1>0, <1>3, Elements DEF Persist, Decided, AllValid
    <3>2. write \in Write
      BY <3>1 DEF AgentState
    <3>3. write.call \in Tools /\ write.to \in {"called", "answered"}
      BY <3>2 DEF Write
    <3>4. transcript[write.call] \in {"none", "called", "answered", "twice"}
      BY <1>0, <3>3 DEF Typed
    <3>5. transcript' = transcript \/ transcript' = [transcript EXCEPT ![write.call] = Stored(transcript[write.call], write.to)]
      BY <1>3 DEF Persist
    <3> HIDE DEF write
    <3> QED
      BY <1>0, <3>3, <3>4, <3>5, StoredTyped DEF Typed
  <2> QED
    BY <1>0, <1>3, <2>1, <2>2, <2>3 DEF Persist, maps, IInv, Typed
<1>4. CASE CallTool(a)
  BY <1>0, <1>4, CallToolDecided DEF CallTool, maps, IInv, Typed
<1>5. CASE AgentEnds(a)
  <2>1. Decided' /\ Len(agents') = Len(agents)
    BY <1>0, <1>5, AgentEndsDecided
  <2>2. \A i \in DOMAIN requests : requests[i] \in Request
    BY <1>0, Elements DEF Typed
  <2>3. requests' = [i \in DOMAIN requests |-> requests'[i]] /\ \A i \in DOMAIN requests : requests'[i] \in Request
    BY <1>5, <2>2 DEF AgentEnds, Request, RequestSteps
  <2>4. requests' \in Seq(Request) /\ Len(requests') = Len(requests)
    BY <1>0, <2>3, SameLength DEF Typed
  <2> QED
    BY <1>0, <1>5, <2>1, <2>4 DEF AgentEnds, maps, IInv, Typed
<1> QED
  BY <1>1, <1>2, <1>3, <1>4, <1>5 DEF Works

LEMMA InvSteps ==
  ASSUME IInv, AssistantBounds, NEW q, Steps(q) \/ NoCredential(q)
  PROVE  IInv'
<1>0. MaxTools \in Nat /\ MaxFaults \in Nat /\ Decided /\ Typed /\ requests \in Seq(Request)
  BY DEF IInv, AssistantBounds, Typed
<1>1. CASE RunLoads(q)
  <2>1. Decided'
    BY <1>0, <1>1, QuietDecided DEF RunLoads
  <2>2. q \in DOMAIN requests /\ requests[q] \in Request /\ Unanswered \in SUBSET Tools
    BY <1>0, <1>1, Elements DEF RunLoads, At, Unanswered
  <2>3. PICK r \in Request : requests' = [requests EXCEPT ![q] = r]
    <3>1. PICK found \in BOOLEAN :
            requests' = [requests EXCEPT ![q].step = IF found THEN "repair" ELSE "refused", ![q].pending = Unanswered]
      BY <1>1 DEF RunLoads
    <3> DEFINE r == [requests[q] EXCEPT !.step = IF found THEN "repair" ELSE "refused", !.pending = Unanswered]
    <3>2. r \in Request /\ requests' = [requests EXCEPT ![q] = r]
      BY <2>2, <3>1 DEF Request, RequestSteps
    <3> QED
      BY <3>2
  <2>4. requests' \in Seq(Request) /\ Len(requests') = Len(requests)
    BY <1>0, <2>3, OneRequestTyped
  <2>5. faults' \in 0..MaxFaults /\ starting' \in BOOLEAN /\ UNCHANGED <<exists, transcript, running, agent, agents>>
    BY <1>0, <1>1, FindsTyped DEF RunLoads, Typed
  <2> QED
    BY <1>0, <2>1, <2>4, <2>5 DEF IInv, Typed
<1>2. CASE RunRepairs(q)
  <2>1. Decided' /\ Len(agents') \in {Len(agents), Len(agents) + 1} /\ Len(agents) \in Nat
    BY <1>0, <1>2, RunRepairsDecided DEF Decided, AllValid
  <2>2. q \in DOMAIN requests /\ requests[q] \in Request
    BY <1>0, <1>2, Elements DEF RunRepairs, At
  <2>3. PICK found \in BOOLEAN :
          /\ Finds(found)
          /\ IF found \/ requests[q].pending = {}
             THEN /\ transcript' = IF found THEN Repaired(requests[q].pending) ELSE transcript
                  /\ agents' = Append(agents, NewAgent)
                  /\ requests' = [requests EXCEPT ![q].step = "credential", ![q].agent = Len(agents) + 1]
                  /\ agent' = Len(agents) + 1 /\ UNCHANGED starting
             ELSE Goes(q, "refused") /\ starting' = FALSE /\ UNCHANGED <<transcript, agents, agent>>
    BY <1>2 DEF RunRepairs
  <2>4. faults' \in 0..MaxFaults /\ UNCHANGED <<exists, running>>
    BY <1>0, <1>2, <2>3, FindsTyped DEF RunRepairs, Typed
  <2>5. CASE found \/ requests[q].pending = {}
    <3> DEFINE r == [requests[q] EXCEPT !.step = "credential", !.agent = Len(agents) + 1]
    <3>1. r \in Request /\ requests' = [requests EXCEPT ![q] = r]
      BY <2>1, <2>2, <2>3, <2>5 DEF Request, RequestSteps
    <3> HIDE DEF r
    <3>2. requests' \in Seq(Request) /\ Len(requests') = Len(requests)
      BY <1>0, <3>1, OneRequestTyped
    <3>3. agent' = Len(agents) + 1 /\ Len(agents') = Len(agents) + 1
      BY <1>0, <2>3, <2>5 DEF Decided, AllValid
    <3>4. transcript' \in [Tools -> {"none", "called", "answered", "twice"}]
      BY <1>0, <2>3, <2>5, RepairedTyped DEF Typed
    <3> QED
      BY <1>0, <2>1, <2>3, <2>4, <2>5, <3>2, <3>3, <3>4 DEF IInv, Typed
  <2>6. CASE ~(found \/ requests[q].pending = {})
    <3>1. requests' \in Seq(Request) /\ Len(requests') = Len(requests)
      BY <1>0, <2>3, <2>6, GoesTyped DEF RequestSteps
    <3> QED
      BY <1>0, <2>1, <2>3, <2>4, <2>6, <3>1 DEF IInv, Typed
  <2> QED
    BY <2>5, <2>6
<1>3. CASE RunPrompts(q)
  <2>1. requests' \in Seq(Request) /\ Len(requests') = Len(requests) /\ q \in 1..Len(requests)
    BY <1>0, <1>3, GoesTyped DEF RunPrompts, At, RequestSteps
  <2>2. Decided' /\ Len(agents') = Len(agents)
    BY <1>0, <1>3, RunPromptsDecided
  <2>3. running' = q /\ starting' = FALSE /\ UNCHANGED <<exists, transcript, agent, faults>>
    BY <1>3 DEF RunPrompts
  <2>4. running' \in 0..Len(requests')
    BY <1>0, <2>1, <2>3
  <2> QED
    BY <1>0, <2>1, <2>2, <2>3, <2>4 DEF IInv, Typed
<1>4. CASE RunFinishes(q)
  <2>1. requests' \in Seq(Request) /\ Len(requests') = Len(requests)
    BY <1>0, <1>4, GoesTyped DEF RunFinishes, RequestSteps
  <2>2. Decided' /\ Len(agents') = Len(agents)
    BY <1>0, <1>4, FinishDecided DEF RunFinishes
  <2> QED
    BY <1>0, <1>4, <2>1, <2>2 DEF RunFinishes, IInv, Typed
<1>5. CASE OpenLooks(q)
  <2>1. requests' \in Seq(Request) /\ Len(requests') = Len(requests)
    BY <1>0, <1>5, GoesTyped DEF OpenLooks, RequestSteps
  <2> QED
    BY <1>0, <1>5, <2>1, QuietDecided DEF OpenLooks, maps, IInv, Typed
<1>6. CASE OpenRepairs(q)
  <2>1. requests' \in Seq(Request) /\ Len(requests') = Len(requests)
    BY <1>0, <1>6, GoesTyped DEF OpenRepairs, RequestSteps
  <2>2. transcript' \in [Tools -> {"none", "called", "answered", "twice"}] /\ faults' \in 0..MaxFaults
    BY <1>0, <1>6, RepairedTyped, FindsTyped DEF OpenRepairs, Typed
  <2> QED
    BY <1>0, <1>6, <2>1, <2>2, QuietDecided DEF OpenRepairs, maps, IInv, Typed
<1>7. CASE Drops(q)
  <2>1. requests' \in Seq(Request) /\ Len(requests') = Len(requests)
    BY <1>0, <1>7, GoesTyped DEF Drops, RequestSteps
  <2>2. transcript' \in [Tools -> {"none", "called", "answered", "twice"}] /\ exists' \in BOOLEAN /\ faults' \in 0..MaxFaults
    BY <1>0, <1>7, FindsTyped DEF Drops, Typed
  <2> QED
    BY <1>0, <1>7, <2>1, <2>2, QuietDecided DEF Drops, maps, IInv, Typed
<1>8. CASE Deletes(q)
  <2>1. requests' \in Seq(Request) /\ Len(requests') = Len(requests)
    BY <1>0, <1>8, GoesTyped DEF Deletes, RequestSteps
  <2>2. Decided' /\ Len(agents') = Len(agents)
    BY <1>0, <1>8, QuietDecided, ForgetDecided DEF Deletes
  <2>3. agent' \in {0, agent} /\ running' \in {0, running}
    BY <1>8 DEF Deletes, Forget
  <2> QED
    BY <1>0, <1>8, <2>1, <2>2, <2>3 DEF Deletes, IInv, Typed
<1>9. CASE Closes(q)
  <2>1. requests' \in Seq(Request) /\ Len(requests') = Len(requests)
    BY <1>0, <1>9, GoesTyped DEF Closes, RequestSteps
  <2>2. Decided' /\ Len(agents') = Len(agents)
    BY <1>0, <1>9, ForgetDecided DEF Closes
  <2>3. Len(agents) \in Nat /\ agent' = 0 /\ running' = 0 /\ starting' = FALSE /\ UNCHANGED <<exists, transcript, faults>>
    BY <1>0, <1>9 DEF Closes, Forget, Decided, AllValid
  <2>4. 0 \in 0..Len(agents) /\ 0 \in 0..Len(requests)
    BY <1>0, <2>3
  <2> QED
    BY <1>0, <2>1, <2>2, <2>3, <2>4 DEF IInv, Typed
<1>10. CASE NoCredential(q)
  <2>1. requests' \in Seq(Request) /\ Len(requests') = Len(requests)
    BY <1>0, <1>10, GoesTyped DEF NoCredential, RequestSteps
  <2> QED
    BY <1>0, <1>10, <2>1, QuietDecided DEF NoCredential, maps, IInv, Typed
<1> QED
  BY <1>1, <1>2, <1>3, <1>4, <1>5, <1>6, <1>7, <1>8, <1>9, <1>10 DEF Steps

LEMMA InvAsked ==
  ASSUME IInv, AssistantBounds, Run \/ Abort \/ OpenSession \/ DeleteSession \/ Close \/ Restart
  PROVE  IInv'
<1>0. MaxTools \in Nat /\ MaxFaults \in Nat /\ Decided /\ Typed /\ requests \in Seq(Request) /\ agent \in Nat
  BY DEF IInv, AssistantBounds, Typed
<1>1. CASE Run
  <2>1. requests' \in Seq(Request) /\ Len(requests') = Len(requests) + 1
    <3>1. CASE agent # 0
      BY <1>0, <1>1, <3>1, AskedTyped DEF Run, Kinds, RequestSteps
    <3>2. CASE agent = 0
      BY <1>0, <1>1, <3>2, AskedTyped DEF Run, Kinds, RequestSteps
    <3> QED
      BY <3>1, <3>2
  <2> QED
    BY <1>0, <1>1, <2>1, QuietDecided DEF Run, IInv, Typed
<1>2. CASE Abort
  BY <1>0, <1>2, AbortDecided DEF Abort, maps, IInv, Typed
<1>3. CASE OpenSession
  <2>1. requests' \in Seq(Request) /\ Len(requests') = Len(requests) + 1
    BY <1>0, <1>3, AskedTyped DEF OpenSession, Unanswered, Kinds, RequestSteps
  <2> QED
    BY <1>0, <1>3, <2>1, QuietDecided DEF OpenSession, maps, IInv, Typed
<1>4. ASSUME NEW kind \in Kinds, EndAgents(kind) PROVE IInv'
  <2>1. requests' \in Seq(Request) /\ Len(requests') = Len(requests) + 1
    BY <1>0, <1>4, AskedTyped DEF EndAgents, RequestSteps
  <2>2. Decided' /\ Len(agents') = Len(agents)
    BY <1>0, <1>4, EndAgentsDecided
  <2> QED
    BY <1>0, <1>4, <2>1, <2>2 DEF EndAgents, maps, IInv, Typed
<1>5. CASE Restart
  <2>1. \A i \in DOMAIN requests : requests[i] \in Request
    BY <1>0, Elements
  <2>2. requests' = [i \in DOMAIN requests |-> requests'[i]] /\ \A i \in DOMAIN requests : requests'[i] \in Request
    BY <1>5, <2>1 DEF Restart, Gone, Request, RequestSteps, Kinds
  <2>3. requests' \in Seq(Request) /\ Len(requests') = Len(requests)
    BY <1>0, <2>2, SameLength
  <2>4. Len(agents) \in Nat
    BY <1>0 DEF Decided, AllValid
  <2>5. Decided' /\ Len(agents') = Len(agents)
    BY <1>0, <1>5, RestartDecided
  <2>6. agent' = 0 /\ running' = 0 /\ starting' = FALSE /\ UNCHANGED <<exists, transcript, faults>>
    BY <1>5 DEF Restart
  <2>7. 0 \in 0..Len(agents) /\ 0 \in 0..Len(requests)
    BY <1>0, <2>4
  <2> QED
    BY <1>0, <2>3, <2>5, <2>6, <2>7 DEF IInv, Typed
<1> QED
  BY <1>1, <1>2, <1>3, <1>4, <1>5 DEF DeleteSession, Close, Kinds

LEMMA InvInit ==
  ASSUME AssistantBounds, Init
  PROVE  IInv
<1>1. MaxTools \in Nat /\ MaxFaults \in Nat
  BY DEF AssistantBounds
<1>2. DOMAIN agents = {} /\ agents \in Seq(AgentState) /\ owner \in Seq(Nat) /\ Len(owner) = 0 /\ Len(agents) = 0
  BY DEF Init
<1>3. requests \in Seq(Request) /\ Len(requests) = 0
  BY DEF Init
<1>4. WaitingOf(agents) = {}
  BY <1>2 DEF WaitingOf
<1>5. Decided
  BY <1>1, <1>2, <1>4 DEF Init, Decided, AllValid, OnlyApproved, WaitersListed
<1>6. Typed
  <2>1. 0 \in 0..MaxFaults /\ 0 \in 0..0
    BY <1>1
  <2>2. transcript \in [Tools -> {"none", "called", "answered", "twice"}]
    BY DEF Init
  <2> QED
    BY <1>2, <1>3, <2>1, <2>2 DEF Init, Typed
<1> QED
  BY <1>5, <1>6 DEF IInv

LEMMA InvNext ==
  ASSUME IInv, AssistantBounds, [Next]_vars
  PROVE  IInv'
<1>1. CASE UNCHANGED vars
  BY <1>1, QuietDecided DEF vars, maps, IInv, Typed
<1>2. CASE \E c \in Tools, yes \in BOOLEAN : RespondApproval(c, yes)
  BY <1>2, RespondDecided DEF RespondApproval, maps, IInv, Typed
<1> QED
  BY <1>1, <1>2, InvAgent, InvSteps, InvAsked DEF Next

\* What the runs check follows: the type invariant speaks of agents that Valid describes.
LEMMA InvDecides ==
  ASSUME IInv
  PROVE  PeopleDecide
<1>1. \A a \in DOMAIN agents : agents[a] \in AgentState /\ Valid(agents[a], a, owner, executed, approved)
  BY Elements DEF IInv, Decided, AllValid
<1>2. approvals \subseteq DOMAIN owner
  BY <1>1 DEF IInv, Decided, WaitersListed, WaitingOf, Valid
<1> QED
  BY <1>1, <1>2 DEF IInv, Decided, Typed, PeopleDecide, TypeOK, Valid, AgentState, AgentSteps

\* No tool call of the Assistant that changes something runs without the approval of a person, or twice,
\* and a call waits exactly as long as it is offered, however runs, aborts, deletions, failures and
\* restarts interleave.
THEOREM OnlyPeopleDecide == Spec => []PeopleDecide
<1>1. Init => IInv
  BY InvInit, AssistantBounds
<1>2. IInv /\ [Next]_vars => IInv'
  BY InvNext, AssistantBounds
<1>3. IInv => PeopleDecide
  BY InvDecides
<1> QED
  BY <1>1, <1>2, <1>3, PTL DEF Spec

-----------------------------------------------------------------------------
(* One run at a time *)

In(kind, steps) == {q \in DOMAIN requests : requests[q].kind = kind /\ requests[q].step \in steps}
Of(q) == requests[q].agent
Busy(a) == agents[a].busy

Loading == In("run", {"load"})
Repairing == In("run", {"repair"})
Prompting == In("run", {"credential"})
Starts == Loading \cup Repairing \cup Prompting
Streams == In("run", {"streaming"})
Strays == {q \in DOMAIN requests : requests[q].step = "streaming"} \ Streams
Ends == In("run", {"finishing"})
Deletions == In("delete", RequestSteps \ {"over"})
Waits == In("delete", {"wait"})
Forgetting == In("delete", {"drop", "ended"})
Dropping == In("delete", {"drop"})

\* One request starts at a time; until it has an agent the session has none.
StartRight ==
  /\ \A p, q \in Starts : p = q
  /\ Starts # {} => starting
  /\ \A q \in Loading \cup Repairing : agent = 0 /\ Of(q) = 0
  /\ \A q \in Prompting : Of(q) \in DOMAIN agents

\* A stream is the one of a working agent.
StreamRight ==
  /\ Strays = {}
  /\ \A q \in Streams : Of(q) \in DOMAIN agents /\ Busy(Of(q))
  /\ \A p, q \in Streams : Of(p) = Of(q) => p = q

\* All streams are of one agent, and it is the one of the request that starts.
Together ==
  /\ \A p, q \in Streams : Of(p) = Of(q)
  /\ \A q \in Starts, p \in Streams : Of(q) = Of(p)

\* It is the agent of the session, or the run of the session that nobody can end but its agent.
Known ==
  /\ Starts # {} => \A p \in Streams : Of(p) = agent
  /\ \A p \in Streams : Of(p) = agent \/ (running = p /\ Ends = {})
  /\ \A q \in Prompting : Of(q) = agent \/ Ends = {}

\* Before a deletion makes the session forget its agent there is one request at work.
Single ==
  Forgetting = {} =>
    /\ \A p, q \in Starts \cup Streams \cup Ends : p = q
    /\ \A q \in Streams \cup Ends : running = q
    /\ \A q \in Streams \cup Prompting : Of(q) = agent
    /\ \A d \in Waits : Of(d) = agent

OneDeletion == \A d, e \in Deletions : d = e

RunsRight == StartRight /\ StreamRight /\ (OneDeletion => Together /\ Known /\ Single)

LEMMA ClosedIn == Closed = In("close", {"ended"}) /\ Closed' = In("close", {"ended"})'
  BY DEF Closed, In

\* The requests at a step, when one of them goes on.
LEMMA OneGoes ==
  ASSUME requests \in Seq(Request), NEW q \in DOMAIN requests, NEW r \in Request,
         r.kind = requests[q].kind, requests' = [requests EXCEPT ![q] = r]
  PROVE  /\ DOMAIN requests' = DOMAIN requests
         /\ \A k, s : In(k, s)' = IF r.kind = k /\ r.step \in s THEN In(k, s) \cup {q} ELSE In(k, s) \ {q}
         /\ Strays' = IF r.kind # "run" /\ r.step = "streaming" THEN Strays \cup {q} ELSE Strays \ {q}
         /\ \A i \in DOMAIN requests \ {q} : Of(i)' = Of(i)
         /\ Of(q)' = r.agent
<1>1. DOMAIN requests' = DOMAIN requests /\ requests'[q] = r /\ \A i \in DOMAIN requests \ {q} : requests'[i] = requests[i]
  OBVIOUS
<1>2. ASSUME NEW k, NEW s
      PROVE  In(k, s)' = IF r.kind = k /\ r.step \in s THEN In(k, s) \cup {q} ELSE In(k, s) \ {q}
  BY <1>1 DEF In
<1>3. Strays' = IF r.kind # "run" /\ r.step = "streaming" THEN Strays \cup {q} ELSE Strays \ {q}
  BY <1>1 DEF Strays, Streams, In
<1> QED
  BY <1>1, <1>2, <1>3 DEF Of

\* The same when one comes.
LEMMA OneComes ==
  ASSUME requests \in Seq(Request), NEW r \in Request, requests' = Append(requests, r),
         NEW n, n = Len(requests) + 1
  PROVE  /\ n \notin DOMAIN requests /\ DOMAIN requests' = DOMAIN requests \cup {n} /\ n # 0
         /\ \A k, s : In(k, s)' = In(k, s) \cup {i \in {n} : r.kind = k /\ r.step \in s}
         /\ Strays' = IF r.kind # "run" /\ r.step = "streaming" THEN Strays \cup {n} ELSE Strays \ {n}
         /\ \A i \in DOMAIN requests : Of(i)' = Of(i)
         /\ Of(n)' = r.agent
<1>1. /\ n \notin DOMAIN requests /\ DOMAIN requests' = DOMAIN requests \cup {n} /\ requests'[n] = r /\ n # 0
      /\ \A i \in DOMAIN requests : requests'[i] = requests[i]
  OBVIOUS
<1>2. ASSUME NEW k, NEW s
      PROVE  In(k, s)' = In(k, s) \cup {i \in {n} : r.kind = k /\ r.step \in s}
  BY <1>1 DEF In
<1>3. Strays' = IF r.kind # "run" /\ r.step = "streaming" THEN Strays \cup {n} ELSE Strays \ {n}
  BY <1>1 DEF Strays, Streams, In
<1> QED
  BY <1>1, <1>2, <1>3 DEF Of

LEMMA InSub == \A k, s : In(k, s) \subseteq DOMAIN requests
  BY DEF In

LEMMA SetsSub ==
  /\ Starts \subseteq DOMAIN requests /\ Streams \subseteq DOMAIN requests /\ Ends \subseteq DOMAIN requests
  /\ Closed \subseteq DOMAIN requests /\ Deletions \subseteq DOMAIN requests /\ Waits \subseteq DOMAIN requests
  /\ Forgetting \subseteq DOMAIN requests /\ Loading \subseteq Starts /\ Repairing \subseteq Starts
  /\ Prompting \subseteq Starts /\ Strays \subseteq DOMAIN requests /\ Starts = Loading \cup Repairing \cup Prompting
  BY DEF Starts, Strays, Streams, Ends, Closed, Deletions, Waits, Forgetting, Loading, Repairing, Prompting, In

\* In which sets a request is after its step.
Sets(q, kind, step) ==
  /\ Loading' = IF kind = "run" /\ step = "load" THEN Loading \cup {q} ELSE Loading \ {q}
  /\ Repairing' = IF kind = "run" /\ step = "repair" THEN Repairing \cup {q} ELSE Repairing \ {q}
  /\ Prompting' = IF kind = "run" /\ step = "credential" THEN Prompting \cup {q} ELSE Prompting \ {q}
  /\ Starts' = IF kind = "run" /\ step \in {"load", "repair", "credential"} THEN Starts \cup {q} ELSE Starts \ {q}
  /\ Streams' = IF kind = "run" /\ step = "streaming" THEN Streams \cup {q} ELSE Streams \ {q}
  /\ Strays' = IF kind # "run" /\ step = "streaming" THEN Strays \cup {q} ELSE Strays \ {q}
  /\ Ends' = IF kind = "run" /\ step = "finishing" THEN Ends \cup {q} ELSE Ends \ {q}
  /\ Closed' = IF kind = "close" /\ step = "ended" THEN Closed \cup {q} ELSE Closed \ {q}
  /\ Deletions' = IF kind = "delete" /\ step # "over" THEN Deletions \cup {q} ELSE Deletions \ {q}
  /\ Waits' = IF kind = "delete" /\ step = "wait" THEN Waits \cup {q} ELSE Waits \ {q}
  /\ Forgetting' = IF kind = "delete" /\ step \in {"drop", "ended"} THEN Forgetting \cup {q} ELSE Forgetting \ {q}
  /\ Dropping' = IF kind = "delete" /\ step = "drop" THEN Dropping \cup {q} ELSE Dropping \ {q}

LEMMA GoesSets ==
  ASSUME requests \in Seq(Request), NEW q \in DOMAIN requests, NEW r \in Request,
         r.kind = requests[q].kind, requests' = [requests EXCEPT ![q] = r]
  PROVE  Sets(q, r.kind, r.step) /\ (\A i \in DOMAIN requests \ {q} : Of(i)' = Of(i)) /\ Of(q)' = r.agent
<1>1. r.step \in RequestSteps
  BY DEF Request
<1>2. \A k, s : In(k, s)' = IF r.kind = k /\ r.step \in s THEN In(k, s) \cup {q} ELSE In(k, s) \ {q}
  BY OneGoes
<1>3. Strays' = IF r.kind # "run" /\ r.step = "streaming" THEN Strays \cup {q} ELSE Strays \ {q}
  BY OneGoes
<1>4. /\ Loading' = IF r.kind = "run" /\ r.step = "load" THEN Loading \cup {q} ELSE Loading \ {q}
      /\ Repairing' = IF r.kind = "run" /\ r.step = "repair" THEN Repairing \cup {q} ELSE Repairing \ {q}
      /\ Prompting' = IF r.kind = "run" /\ r.step = "credential" THEN Prompting \cup {q} ELSE Prompting \ {q}
      /\ Streams' = IF r.kind = "run" /\ r.step = "streaming" THEN Streams \cup {q} ELSE Streams \ {q}
      /\ Ends' = IF r.kind = "run" /\ r.step = "finishing" THEN Ends \cup {q} ELSE Ends \ {q}
      /\ Waits' = IF r.kind = "delete" /\ r.step = "wait" THEN Waits \cup {q} ELSE Waits \ {q}
      /\ Forgetting' = IF r.kind = "delete" /\ r.step \in {"drop", "ended"} THEN Forgetting \cup {q} ELSE Forgetting \ {q}
      /\ Dropping' = IF r.kind = "delete" /\ r.step = "drop" THEN Dropping \cup {q} ELSE Dropping \ {q}
  BY <1>2 DEF Loading, Repairing, Prompting, Streams, Ends, Waits, Forgetting, Dropping
<1>5. Starts' = IF r.kind = "run" /\ r.step \in {"load", "repair", "credential"} THEN Starts \cup {q} ELSE Starts \ {q}
  BY <1>4 DEF Starts
<1>6. /\ Closed' = IF r.kind = "close" /\ r.step = "ended" THEN Closed \cup {q} ELSE Closed \ {q}
      /\ Deletions' = IF r.kind = "delete" /\ r.step # "over" THEN Deletions \cup {q} ELSE Deletions \ {q}
  BY <1>1, <1>2, ClosedIn DEF Deletions
<1> QED
  BY <1>3, <1>4, <1>5, <1>6, OneGoes DEF Sets

LEMMA ComesSets ==
  ASSUME requests \in Seq(Request), NEW r \in Request, requests' = Append(requests, r),
         NEW n, n = Len(requests) + 1
  PROVE  /\ Sets(n, r.kind, r.step) /\ (\A i \in DOMAIN requests : Of(i)' = Of(i)) /\ Of(n)' = r.agent
         /\ n \notin DOMAIN requests /\ n # 0
<1>1. r.step \in RequestSteps
  BY DEF Request
<1>0. n \notin DOMAIN requests /\ n # 0
  BY OneComes
<1>2. \A k, s : In(k, s)' = IF r.kind = k /\ r.step \in s THEN In(k, s) \cup {n} ELSE In(k, s) \ {n}
  <2>1. \A k, s : n \notin In(k, s)
    BY <1>0, InSub
  <2> QED
    BY <2>1, OneComes
<1>3. Strays' = IF r.kind # "run" /\ r.step = "streaming" THEN Strays \cup {n} ELSE Strays \ {n}
  BY OneComes
<1>4. /\ Loading' = IF r.kind = "run" /\ r.step = "load" THEN Loading \cup {n} ELSE Loading \ {n}
      /\ Repairing' = IF r.kind = "run" /\ r.step = "repair" THEN Repairing \cup {n} ELSE Repairing \ {n}
      /\ Prompting' = IF r.kind = "run" /\ r.step = "credential" THEN Prompting \cup {n} ELSE Prompting \ {n}
      /\ Streams' = IF r.kind = "run" /\ r.step = "streaming" THEN Streams \cup {n} ELSE Streams \ {n}
      /\ Ends' = IF r.kind = "run" /\ r.step = "finishing" THEN Ends \cup {n} ELSE Ends \ {n}
      /\ Waits' = IF r.kind = "delete" /\ r.step = "wait" THEN Waits \cup {n} ELSE Waits \ {n}
      /\ Forgetting' = IF r.kind = "delete" /\ r.step \in {"drop", "ended"} THEN Forgetting \cup {n} ELSE Forgetting \ {n}
      /\ Dropping' = IF r.kind = "delete" /\ r.step = "drop" THEN Dropping \cup {n} ELSE Dropping \ {n}
  BY <1>2 DEF Loading, Repairing, Prompting, Streams, Ends, Waits, Forgetting, Dropping
<1>5. Starts' = IF r.kind = "run" /\ r.step \in {"load", "repair", "credential"} THEN Starts \cup {n} ELSE Starts \ {n}
  BY <1>4 DEF Starts
<1>6. /\ Closed' = IF r.kind = "close" /\ r.step = "ended" THEN Closed \cup {n} ELSE Closed \ {n}
      /\ Deletions' = IF r.kind = "delete" /\ r.step # "over" THEN Deletions \cup {n} ELSE Deletions \ {n}
  BY <1>1, <1>2, ClosedIn DEF Deletions
<1> QED
  BY <1>0, <1>3, <1>4, <1>5, <1>6, OneComes DEF Sets

\* Steps of agents leave requests; what is busy stays busy.
LEMMA QuietRuns ==
  ASSUME RunsRight, UNCHANGED <<requests, agent, running, starting>>,
         DOMAIN agents \subseteq DOMAIN agents', \A a \in DOMAIN agents : agents[a].busy => agents'[a].busy
  PROVE  RunsRight'
<1>1. UNCHANGED <<Starts, Streams, Strays, Ends, Deletions, Waits, Forgetting, Loading, Repairing, Prompting>>
  BY DEF Starts, Strays, Streams, Ends, Deletions, Waits, Forgetting, Loading, Repairing, Prompting, In
<1>2. \A q : Of(q)' = Of(q)
  BY DEF Of
<1>3. \A a \in DOMAIN agents : Busy(a) => Busy(a)'
  BY DEF Busy
<1>4. StartRight' /\ StreamRight'
  BY <1>1, <1>2, <1>3 DEF RunsRight, StartRight, StreamRight
<1>5. OneDeletion' => OneDeletion
  BY <1>1 DEF OneDeletion
<1>6. Together => Together'
  BY <1>1, <1>2 DEF Together
<1>7. Known => Known'
  BY <1>1, <1>2 DEF Known
<1>8. Single => Single'
  BY <1>1, <1>2 DEF Single
<1> QED
  BY <1>4, <1>5, <1>6, <1>7, <1>8 DEF RunsRight

\* A request that neither runs, ends nor begins anything of the runs.
LEMMA OtherRuns ==
  ASSUME RunsRight, NEW q, NEW kind, NEW step, Sets(q, kind, step), \A i \in DOMAIN requests \ {q} : Of(i)' = Of(i),
         q \notin Starts \cup Streams \cup Ends, kind \notin {"run", "close"}, step # "streaming",
         q \in Forgetting => kind = "delete" /\ step \in {"drop", "ended"},
         kind = "delete" /\ step = "wait" => Of(q)' = agent,
         kind = "delete" => step # "over",
         kind # "delete" => q \notin Deletions,
         UNCHANGED <<agent, running, starting, agents>>
  PROVE  RunsRight'
<1>1. /\ UNCHANGED <<Starts, Streams, Strays, Ends, Loading, Repairing, Prompting>>
      /\ Deletions \subseteq Deletions' /\ Forgetting \subseteq Forgetting'
  BY SetsSub DEF Sets, RunsRight, StreamRight
<1>2. \A i \in Starts \cup Streams \cup Ends : Of(i)' = Of(i)
  BY SetsSub
<1>3. \A a : Busy(a)' = Busy(a)
  BY DEF Busy
<1>4. StartRight' /\ StreamRight'
  BY <1>1, <1>2, <1>3, SetsSub DEF RunsRight, StartRight, StreamRight
<1>5. OneDeletion' => OneDeletion
  BY <1>1 DEF OneDeletion
<1>6. Together => Together'
  BY <1>1, <1>2 DEF Together
<1>7. Known => Known'
  BY <1>1, <1>2, SetsSub DEF Known
<1>8. Single => Single'
  <2>1. ASSUME Single, NEW d \in Waits', Forgetting = {} PROVE Of(d)' = agent
    <3>1. CASE d = q
      BY <2>1, <3>1 DEF Sets
    <3>2. CASE d # q
      BY <2>1, <3>2, SetsSub DEF Sets, Single
    <3> QED
      BY <3>1, <3>2
  <2> QED
    BY <1>1, <1>2, <2>1, SetsSub DEF Single
<1> QED
  BY <1>4, <1>5, <1>6, <1>7, <1>8 DEF RunsRight

LEMMA Positive == ASSUME IInv PROVE 0 \notin DOMAIN requests /\ requests \in Seq(Request) /\ agents \in Seq(AgentState) /\ 0 \notin DOMAIN agents
  BY DEF IInv, Typed, Decided, AllValid

\* Nobody is made busy or free by a refusal or a signal, and nothing it stores gets lost.
LEMMA BusyKept ==
  ASSUME NEW as, as \in Seq(AgentState)
  PROVE  /\ \A set : DOMAIN Refuse(set, as) = DOMAIN as /\ \A a \in DOMAIN as :
                     Refuse(set, as)[a].busy = as[a].busy /\ Refuse(set, as)[a].writes = as[a].writes
         /\ \A b : DOMAIN Aborted(b, as) = DOMAIN as /\ \A a \in DOMAIN as :
                     Aborted(b, as)[a].busy = as[a].busy /\ Aborted(b, as)[a].writes = as[a].writes
         /\ \A b, set : DOMAIN Unheard(b, Refuse(set, as)) = DOMAIN as /\ \A a \in DOMAIN as :
                     LET new == Unheard(b, Refuse(set, as))[a] IN new.busy = as[a].busy /\ new.writes = as[a].writes
<1>1. \A a \in DOMAIN as : as[a] \in AgentState
  BY Elements
<1>2. ASSUME NEW new, DOMAIN new = DOMAIN as, \A a \in DOMAIN as : new[a] \in AgentState /\ new[a].busy = as[a].busy /\ new[a].writes = as[a].writes, NEW set
      PROVE  DOMAIN Refuse(set, new) = DOMAIN as /\ \A a \in DOMAIN as : Refuse(set, new)[a].busy = as[a].busy /\ Refuse(set, new)[a].writes = as[a].writes
  BY <1>2 DEF Refuse, AgentState
<1>3. ASSUME NEW b PROVE DOMAIN Aborted(b, as) = DOMAIN as /\ \A a \in DOMAIN as : Aborted(b, as)[a].busy = as[a].busy /\ Aborted(b, as)[a].writes = as[a].writes
  <2>1. CASE b \in DOMAIN as /\ as[b].busy
    <3>1. PICK new : new = [as EXCEPT ![b].aborted = TRUE]
      OBVIOUS
    <3>2. DOMAIN new = DOMAIN as /\ \A a \in DOMAIN as : new[a] \in AgentState /\ new[a].busy = as[a].busy /\ new[a].writes = as[a].writes
      BY <1>1, <3>1 DEF AgentState
    <3>3. Aborted(b, as) = Refuse({as[b].tool}, new)
      BY <2>1, <3>1 DEF Aborted
    <3>4. PICK set : set = {as[b].tool}
      OBVIOUS
    <3>5. DOMAIN Refuse(set, new) = DOMAIN as /\ \A a \in DOMAIN as : Refuse(set, new)[a].busy = as[a].busy /\ Refuse(set, new)[a].writes = as[a].writes
      BY <1>2, <3>2
    <3> QED
      BY <3>2, <3>3, <3>4, <3>5
  <2>2. CASE ~(b \in DOMAIN as /\ as[b].busy)
    BY <2>2 DEF Aborted
  <2> QED
    BY <2>1, <2>2
<1>4. \A set : DOMAIN Refuse(set, as) = DOMAIN as /\ \A a \in DOMAIN as : Refuse(set, as)[a].busy = as[a].busy /\ Refuse(set, as)[a].writes = as[a].writes
  BY <1>1, <1>2
<1>5. ASSUME NEW b, NEW set
      PROVE  DOMAIN Unheard(b, Refuse(set, as)) = DOMAIN as /\ \A a \in DOMAIN as :
               LET new == Unheard(b, Refuse(set, as))[a] IN new.busy = as[a].busy /\ new.writes = as[a].writes
  <2>1. DOMAIN Refuse(set, as) = DOMAIN as /\ \A a \in DOMAIN as : Refuse(set, as)[a] \in AgentState
    BY <1>1 DEF Refuse, AgentState, AgentSteps
  <2>2. PICK told : told = Refuse(set, as)
    OBVIOUS
  <2>3. DOMAIN Unheard(b, told) = DOMAIN told
    BY DEF Unheard
  <2>4. ASSUME NEW a \in DOMAIN told PROVE Unheard(b, told)[a].busy = told[a].busy /\ Unheard(b, told)[a].writes = told[a].writes
    <3>1. Unheard(b, told)[a] = [told[a] EXCEPT !.heard = told[a].heard /\ a # b] /\ told[a] \in AgentState
      BY <2>1, <2>2 DEF Unheard
    <3> QED
      BY <3>1 DEF AgentState
  <2> QED
    BY <1>4, <2>1, <2>2, <2>3, <2>4
<1> QED
  BY <1>3, <1>4, <1>5

LEMMA RunRuns ==
  ASSUME IInv, RunsRight, Run
  PROVE  RunsRight'
<1>0. requests \in Seq(Request) /\ 0 \notin DOMAIN requests /\ agent \in Nat /\ (agent # 0 => agent \in DOMAIN agents)
  BY Positive DEF IInv, Typed, Decided, AllValid
<1>1. PICK n : n = Len(requests) + 1
  OBVIOUS
<1>2. PICK step \in {"credential", "load"} : step = IF agent # 0 THEN "credential" ELSE "load"
  OBVIOUS
<1>3. requests' = Append(requests, [kind |-> "run", step |-> step, agent |-> agent, pending |-> {}])
  BY <1>2 DEF Run, Asked
<1>4. PICK r \in Request : r = [kind |-> "run", step |-> step, agent |-> agent, pending |-> {}]
  BY <1>0 DEF Request, Kinds, RequestSteps
<1>5. Sets(n, "run", step) /\ (\A i \in DOMAIN requests : Of(i)' = Of(i)) /\ Of(n)' = agent /\ n \notin DOMAIN requests
  BY <1>0, <1>1, <1>3, <1>4, ComesSets
<1>6. ~starting /\ running = 0 /\ starting' = TRUE /\ UNCHANGED <<running, agent, agents>>
  BY DEF Run, MayRun
<1>8. Starts = {}
  BY <1>6 DEF RunsRight, StartRight
<1>9. /\ Starts' = {n} /\ Prompting' = {i \in {n} : agent # 0} /\ Loading' \cup Repairing' = {i \in {n} : agent = 0}
      /\ UNCHANGED <<Streams, Strays, Ends, Deletions, Waits, Forgetting>>
  BY <1>2, <1>5, <1>8, SetsSub DEF Sets
<1>10. \A a : Busy(a)' = Busy(a)
  BY <1>6 DEF Busy
<1>11. \A p \in Streams \cup Ends \cup Waits : p \in DOMAIN requests /\ p # 0 /\ p # n /\ Of(p)' = Of(p)
  BY <1>0, <1>5, SetsSub
<1>12. StartRight' /\ StreamRight'
  BY <1>0, <1>5, <1>6, <1>9, <1>10, <1>11 DEF RunsRight, StartRight, StreamRight
<1>13. ASSUME OneDeletion' PROVE Together' /\ Known' /\ Single'
  <2>1. Together /\ Known /\ Single
    BY <1>9, <1>13 DEF RunsRight, OneDeletion
  <2>2. \A p \in Streams : Of(p) = agent
    BY <1>6, <1>11, <2>1 DEF Known
  <2>3. Together' /\ Known'
    BY <1>5, <1>6, <1>9, <1>11, <2>2 DEF Together, Known
  <2>4. Single'
    BY <1>5, <1>6, <1>9, <1>11, <2>1 DEF Single
  <2> QED
    BY <2>3, <2>4
<1> QED
  BY <1>12, <1>13 DEF RunsRight

\* The sets are apart.
LEMMA SetsApart ==
  /\ Starts \cap Streams = {} /\ Starts \cap Ends = {} /\ Streams \cap Ends = {} /\ Waits \cap Forgetting = {}
  /\ (Starts \cup Streams \cup Ends) \cap (Closed \cup Deletions \cup Waits \cup Forgetting \cup Strays) = {}
  /\ Closed \cap (Deletions \cup Waits \cup Forgetting) = {}
  /\ Loading \cap Repairing = {} /\ Loading \cap Prompting = {} /\ Repairing \cap Prompting = {}
  /\ Waits \subseteq Deletions /\ Forgetting \subseteq Deletions
<1>1. Waits \subseteq Deletions /\ Forgetting \subseteq Deletions
  BY DEF Deletions, Waits, Forgetting, In, RequestSteps
<1> QED
  BY <1>1 DEF Starts, Streams, Strays, Ends, Closed, Deletions, Waits, Forgetting, Loading, Repairing, Prompting, In

\* A starting request leaves, or goes on before it has an agent.
LEMMA StartingRuns ==
  ASSUME IInv, RunsRight, NEW q \in Starts, NEW step \in RequestSteps \ {"streaming", "finishing", "credential"},
         Sets(q, "run", step), \A i \in DOMAIN requests : Of(i)' = Of(i),
         step \in {"load", "repair"} => q \in Loading \cup Repairing /\ (starting => starting'),
         UNCHANGED <<agent, running, agents>>
  PROVE  RunsRight'
<1>1. Starts = {q}
  BY DEF RunsRight, StartRight
<1>2. q \notin Streams /\ q \notin Ends /\ q \notin Deletions /\ q \notin Waits /\ q \notin Forgetting /\ q \notin Strays
  BY SetsApart
<1>3. /\ Starts' \subseteq Starts /\ Prompting' \subseteq Prompting /\ Prompting' = {} /\ Starts' = Loading' \cup Repairing'
      /\ step \notin {"load", "repair"} => Starts' = {}
      /\ UNCHANGED <<Streams, Strays, Ends, Deletions, Waits, Forgetting>>
  BY <1>1, <1>2, SetsSub DEF Sets
<1>4. \A i \in Starts \cup Streams \cup Ends \cup Waits : Of(i)' = Of(i)
  BY SetsSub
<1>5. \A a : Busy(a)' = Busy(a)
  BY DEF Busy
<1>6. StartRight'
  <2>1. CASE step \in {"load", "repair"}
    BY <1>1, <1>3, <1>4, <2>1 DEF RunsRight, StartRight
  <2>2. CASE step \notin {"load", "repair"}
    BY <1>3, <2>2, SetsSub DEF StartRight
  <2> QED
    BY <2>1, <2>2
<1>7. StreamRight'
  BY <1>3, <1>4, <1>5 DEF RunsRight, StreamRight
<1>8. ASSUME OneDeletion' PROVE Together' /\ Known' /\ Single'
  <2>1. Together /\ Known /\ Single
    BY <1>3, <1>8 DEF RunsRight, OneDeletion
  <2>2. Together' /\ Known'
    BY <1>3, <1>4, <2>1 DEF Together, Known
  <2>3. Single'
    BY <1>3, <1>4, <2>1 DEF Single
  <2> QED
    BY <2>2, <2>3
<1> QED
  BY <1>6, <1>7, <1>8 DEF RunsRight

\* A request that starts gets a new agent; nobody else is at work.
LEMMA RunRepairsRuns ==
  ASSUME IInv, RunsRight, NEW q, RunRepairs(q), ~\E d \in DOMAIN requests : Ready(d)
  PROVE  RunsRight'
<1>0. requests \in Seq(Request) /\ agents \in Seq(AgentState) /\ 0 \notin DOMAIN agents
  BY Positive
<1>1. q \in Repairing /\ q \in DOMAIN requests /\ requests[q] \in Request /\ requests[q].kind = "run"
  BY <1>0, Elements DEF RunRepairs, At, Repairing, In
<1>9. PICK found \in BOOLEAN :
        IF found \/ requests[q].pending = {}
        THEN /\ transcript' = IF found THEN Repaired(requests[q].pending) ELSE transcript
             /\ agents' = Append(agents, NewAgent)
             /\ requests' = [requests EXCEPT ![q].step = "credential", ![q].agent = Len(agents) + 1]
             /\ agent' = Len(agents) + 1 /\ UNCHANGED starting
        ELSE Goes(q, "refused") /\ starting' = FALSE /\ UNCHANGED <<transcript, agents, agent>>
  BY DEF RunRepairs
<1>10. UNCHANGED running
  BY DEF RunRepairs
<1>2. CASE found \/ requests[q].pending = {}
  <2>1. PICK n : n = Len(agents) + 1
    OBVIOUS
  <2>0. agents' = Append(agents, NewAgent) /\ agent' = n /\ UNCHANGED <<running, starting>>
    BY <1>2, <1>9, <1>10, <2>1
  <2>2. n \in Nat /\ DOMAIN agents' = DOMAIN agents \cup {n} /\ \A a \in DOMAIN agents : agents'[a] = agents[a]
    BY <1>0, <2>0, <2>1
  <2>3. PICK r \in Request : r = [requests[q] EXCEPT !.step = "credential", !.agent = n]
    BY <1>1, <2>2 DEF Request, RequestSteps
  <2>4. r.kind = "run" /\ r.step = "credential" /\ r.agent = n
    BY <1>1, <2>3 DEF Request
  <2>5. requests' = [requests EXCEPT ![q] = r]
    BY <1>2, <1>9, <2>1, <2>3
  <2>6. Sets(q, "run", "credential") /\ (\A i \in DOMAIN requests \ {q} : Of(i)' = Of(i)) /\ Of(q)' = n
    BY <1>0, <1>1, <2>4, <2>5, GoesSets
  <2>7. q \in Starts /\ Starts = {q} /\ q \notin Streams \cup Ends \cup Deletions \cup Waits \cup Forgetting \cup Strays
    BY <1>1, SetsSub, SetsApart DEF RunsRight, StartRight
  <2>8. /\ Starts' = {q} /\ Prompting' = {q} /\ Loading' = {} /\ Repairing' = {}
        /\ UNCHANGED <<Streams, Strays, Ends, Deletions, Waits, Forgetting>>
    BY <2>6, <2>7, SetsSub DEF Sets
  <2>9. agent = 0 /\ Of(q) = 0 /\ starting
    BY <1>1, <2>7 DEF RunsRight, StartRight
  <2>10. \A p \in Streams : p \in DOMAIN requests \ {q} /\ Of(p)' = Of(p) /\ Of(p) # 0
    BY <1>0, <2>6, <2>7, SetsSub DEF RunsRight, StreamRight
  <2>11. \A p \in Waits : p \in DOMAIN requests \ {q} /\ Of(p)' = Of(p)
    BY <2>6, <2>7, SetsSub
  <2>12. StartRight'
    BY <2>0, <2>2, <2>6, <2>8, <2>9 DEF StartRight
  <2>13. StreamRight'
    <3>1. \A a \in DOMAIN agents : Busy(a)' = Busy(a)
      BY <2>2 DEF Busy
    <3> QED
      BY <2>2, <2>8, <2>10, <3>1 DEF RunsRight, StreamRight
  <2>14. ASSUME OneDeletion' PROVE Together' /\ Known' /\ Single'
    <3>1. Together /\ Known /\ Single
      BY <2>8, <2>14 DEF RunsRight, OneDeletion
    <3>2. Streams = {}
      BY <2>7, <2>9, <2>10, <3>1 DEF Together
    <3>3. Together' /\ Known'
      BY <2>0, <2>6, <2>8, <3>2 DEF Together, Known
    <3>4. ASSUME Forgetting = {} PROVE Ends = {} /\ Waits = {}
      <4>1. Ends = {}
        BY <2>7, <3>1, <3>4 DEF Single
      <4>2. ASSUME NEW d \in Waits PROVE FALSE
        <5>1. Of(d) = 0
          BY <2>9, <3>1, <3>4 DEF Single
        <5>2. Ready(d)
          BY <5>1 DEF Waits, In, Ready, Flushed, Of
        <5> QED
          BY <5>2, SetsSub
      <4> QED
        BY <4>1, <4>2
    <3>5. Single'
      BY <2>0, <2>6, <2>8, <3>2, <3>4 DEF Single
    <3> QED
      BY <3>3, <3>5
  <2> QED
    BY <2>12, <2>13, <2>14 DEF RunsRight
<1>3. CASE ~(found \/ requests[q].pending = {})
  <2>1. requests' = [requests EXCEPT ![q].step = "refused"] /\ UNCHANGED <<agent, running, agents>>
    BY <1>3, <1>9, <1>10 DEF Goes
  <2>2. PICK r \in Request : r = [requests[q] EXCEPT !.step = "refused"]
    BY <1>1 DEF Request, RequestSteps
  <2>3. r.kind = "run" /\ r.step = "refused" /\ r.agent = Of(q) /\ requests' = [requests EXCEPT ![q] = r]
    BY <1>1, <2>1, <2>2 DEF Request, Of
  <2>4. Sets(q, "run", "refused") /\ \A i \in DOMAIN requests : Of(i)' = Of(i)
    BY <1>0, <1>1, <2>3, GoesSets
  <2> QED
    BY <1>1, <2>1, <2>4, StartingRuns, SetsSub DEF RequestSteps
<1> QED
  BY <1>2, <1>3

\* Only a free agent is prompted, so a second request of it ends at once.
LEMMA RunPromptsRuns ==
  ASSUME IInv, RunsRight, NEW q, RunPrompts(q)
  PROVE  RunsRight'
<1>0. requests \in Seq(Request) /\ agents \in Seq(AgentState) /\ 0 \notin DOMAIN requests
  BY Positive
<1>1. q \in Prompting /\ q \in DOMAIN requests /\ requests[q] \in Request /\ requests[q].kind = "run"
  BY <1>0, Elements DEF RunPrompts, At, Prompting, In
<1>2. running' = q /\ starting' = FALSE /\ UNCHANGED agent
  BY DEF RunPrompts
<1>3. q \in Starts /\ Starts = {q} /\ q \notin Streams \cup Ends \cup Deletions \cup Waits \cup Forgetting \cup Strays
  BY <1>1, SetsSub, SetsApart DEF RunsRight, StartRight
<1>4. Of(q) \in DOMAIN agents /\ Of(q) = requests[q].agent
  BY <1>1 DEF RunsRight, StartRight, Of
<1>5. PICK step \in {"finishing", "streaming"} : step = IF Busy(Of(q)) THEN "finishing" ELSE "streaming"
  OBVIOUS
<1>6. requests' = [requests EXCEPT ![q].step = step]
  BY <1>4, <1>5 DEF RunPrompts, Goes, Busy
<1>7. PICK r \in Request : r = [requests[q] EXCEPT !.step = step]
  BY <1>1 DEF Request, RequestSteps
<1>8. r.kind = "run" /\ r.step = step /\ r.agent = Of(q) /\ requests' = [requests EXCEPT ![q] = r]
  BY <1>1, <1>6, <1>7 DEF Request, Of
<1>9. Sets(q, "run", step) /\ \A i \in DOMAIN requests : Of(i)' = Of(i)
  BY <1>0, <1>1, <1>8, GoesSets
<1>10. /\ Starts' = {} /\ Loading' = {} /\ Repairing' = {} /\ Prompting' = {}
       /\ UNCHANGED <<Deletions, Waits, Forgetting, Strays>>
  BY <1>3, <1>5, <1>9, SetsSub DEF Sets
<1>11. \A p \in Streams \cup Ends \cup Waits : p \in DOMAIN requests /\ p # q /\ Of(p)' = Of(p)
  BY <1>3, <1>9, SetsSub
<1>12. DOMAIN agents' = DOMAIN agents /\ (\A a \in DOMAIN agents : Busy(a) => Busy(a)') /\ (step = "streaming" => Busy(Of(q))')
  <2>1. CASE Busy(Of(q))
    BY <1>4, <1>5, <2>1 DEF RunPrompts, Busy
  <2>2. CASE ~Busy(Of(q))
    <3>1. agents' = [agents EXCEPT ![Of(q)].busy = TRUE, ![Of(q)].aborted = FALSE]
      BY <1>4, <2>2 DEF RunPrompts, Busy
    <3>2. agents[Of(q)] \in AgentState
      BY <1>0, <1>4, Elements
    <3>3. DOMAIN agents' = DOMAIN agents /\ (\A a \in DOMAIN agents \ {Of(q)} : agents'[a] = agents[a]) /\ agents'[Of(q)].busy
      BY <1>4, <3>1, <3>2 DEF AgentState
    <3>4. agents'[requests'[q].agent].busy
      BY <1>8, <1>9, <1>4, <3>3 DEF Of
    <3> QED
      BY <3>3, <3>4 DEF Busy, Of
  <2> QED
    BY <2>1, <2>2
<1>13. StartRight'
  BY <1>10 DEF StartRight
<1>14. CASE step = "streaming"
  <2>1. Streams' = Streams \cup {q} /\ Ends' = Ends /\ ~Busy(Of(q))
    BY <1>3, <1>5, <1>9, <1>14 DEF Sets
  <2>2. \A p \in Streams : Of(p) # Of(q)
    BY <2>1 DEF RunsRight, StreamRight
  <2>3. StreamRight'
    <3>1. \A p \in Streams' : Of(p)' \in DOMAIN agents' /\ Busy(Of(p))'
      <4>1. \A p \in Streams' : Of(p)' = Of(p) /\ Of(p) \in DOMAIN agents
        BY <1>1, <1>4, <1>9, <1>11, <2>1 DEF RunsRight, StreamRight
      <4>2. Busy(Of(q))'
        BY <1>12, <1>14
      <4>3. \A p \in Streams : Busy(Of(p))'
        BY <1>11, <1>12 DEF RunsRight, StreamRight, Busy
      <4> QED
        BY <1>12, <2>1, <4>1, <4>2, <4>3
    <3>2. \A p, u \in Streams' : Of(p)' = Of(u)' => p = u
      BY <1>1, <1>9, <1>11, <2>1, <2>2 DEF RunsRight, StreamRight
    <3>3. Strays' = {}
      BY <1>10 DEF RunsRight, StreamRight
    <3> QED
      BY <3>1, <3>2, <3>3 DEF StreamRight
  <2>4. ASSUME OneDeletion' PROVE Together' /\ Known' /\ Single'
    <3>1. Together /\ Known /\ Single
      BY <1>10, <2>4 DEF RunsRight, OneDeletion
    <3>2. Streams = {}
      BY <1>3, <2>2, <3>1 DEF Together
    <3>3. Together'
      BY <1>10, <2>1, <3>2 DEF Together
    <3>4. Known'
      BY <1>1, <1>2, <1>9, <1>10, <2>1, <3>1, <3>2 DEF Known
    <3>5. Single'
      BY <1>1, <1>2, <1>3, <1>9, <1>10, <1>11, <2>1, <3>1, <3>2 DEF Single
    <3> QED
      BY <3>3, <3>4, <3>5
  <2> QED
    BY <1>13, <2>3, <2>4 DEF RunsRight
<1>15. CASE step = "finishing"
  <2>1. Streams' = Streams /\ Ends' = Ends \cup {q} /\ Busy(Of(q))
    BY <1>3, <1>5, <1>9, <1>15 DEF Sets
  <2>2. StreamRight'
    BY <1>9, <1>10, <1>11, <1>12, <2>1 DEF RunsRight, StreamRight
  <2>3. ASSUME OneDeletion' PROVE Together' /\ Known' /\ Single'
    <3>1. Together /\ Known /\ Single
      BY <1>10, <2>3 DEF RunsRight, OneDeletion
    <3>2. Together'
      BY <1>10, <1>11, <2>1, <3>1 DEF Together
    <3>3. Known'
      BY <1>3, <1>10, <1>11, <1>2, <2>1, <3>1 DEF Known
    <3>4. Single'
      BY <1>2, <1>3, <1>10, <1>11, <2>1, <3>1 DEF Single
    <3> QED
      BY <3>2, <3>3, <3>4
  <2> QED
    BY <1>13, <2>2, <2>3 DEF RunsRight
<1> QED
  BY <1>5, <1>14, <1>15

\* The end of a run that is not the one of the session takes nothing away from a stream.
LEMMA RunFinishesRuns ==
  ASSUME IInv, RunsRight, NEW q, RunFinishes(q)
  PROVE  RunsRight'
<1>0. requests \in Seq(Request) /\ agents \in Seq(AgentState) /\ 0 \notin DOMAIN requests /\ AllValid(agents, owner, executed, approved)
  BY Positive DEF IInv, Decided
<1>1. q \in Ends /\ q \in DOMAIN requests /\ requests[q] \in Request /\ requests[q].kind = "run"
  BY <1>0, Elements DEF RunFinishes, At, Ends, In
<1>2. /\ requests' = [requests EXCEPT ![q].step = "ended"] /\ running' = 0 /\ UNCHANGED <<agent, starting>>
      /\ agents' = Refuse(approvals, agents)
  BY DEF RunFinishes, Goes, Expired
<1>3. PICK r \in Request : r = [requests[q] EXCEPT !.step = "ended"]
  BY <1>1 DEF Request, RequestSteps
<1>4. r.kind = "run" /\ r.step = "ended" /\ r.agent = Of(q) /\ requests' = [requests EXCEPT ![q] = r]
  BY <1>1, <1>2, <1>3 DEF Request, Of
<1>5. Sets(q, "run", "ended") /\ \A i \in DOMAIN requests : Of(i)' = Of(i)
  BY <1>0, <1>1, <1>4, GoesSets
<1>6. q \notin Starts \cup Streams  \cup Deletions \cup Waits \cup Forgetting \cup Strays
  BY <1>1, SetsApart
<1>7. /\ Ends' = Ends \ {q}
      /\ UNCHANGED <<Starts, Loading, Repairing, Prompting, Streams, Deletions, Waits, Forgetting, Strays>>
  BY <1>5, <1>6, SetsSub DEF Sets
<1>8. DOMAIN agents' = DOMAIN agents /\ \A a \in DOMAIN agents : Busy(a)' = Busy(a)
  BY <1>0, <1>2, BusyKept DEF Busy
<1>9. \A p \in Starts \cup Streams \cup Ends \cup Waits : Of(p)' = Of(p)
  BY <1>5, SetsSub
<1>10. StartRight' /\ StreamRight'
  BY <1>2, <1>7, <1>8, <1>9, SetsSub DEF RunsRight, StartRight, StreamRight
<1>11. ASSUME OneDeletion' PROVE Together' /\ Known' /\ Single'
  <2>1. Together /\ Known /\ Single
    BY <1>7, <1>11 DEF RunsRight, OneDeletion
  <2>2. Together'
    BY <1>7, <1>9, <2>1 DEF Together
  <2>3. Known'
    BY <1>1, <1>2, <1>7, <1>9, <2>1, SetsSub DEF Known
  <2>4. Single'
    BY <1>1, <1>2, <1>6, <1>7, <1>9, <2>1, SetsSub DEF Single
  <2> QED
    BY <2>2, <2>3, <2>4
<1> QED
  BY <1>10, <1>11 DEF RunsRight

\* The streams of an agent end with it; they are all streams or none.
LEMMA AgentEndsRuns ==
  ASSUME IInv, RunsRight, NEW a, AgentEnds(a)
  PROVE  RunsRight'
<1>0. requests \in Seq(Request) /\ agents \in Seq(AgentState)
  BY Positive
<1>1. /\ a \in DOMAIN agents /\ agents' = [agents EXCEPT ![a].busy = FALSE] /\ UNCHANGED <<agent, running, starting>>
      /\ requests' = [q \in DOMAIN requests |-> IF Tells(q, a) THEN [requests[q] EXCEPT !.step = "finishing"] ELSE requests[q]]
  BY DEF AgentEnds, maps
<1>2. \A q \in DOMAIN requests : requests[q] \in Request
  BY <1>0, Elements
<1>3. /\ DOMAIN requests' = DOMAIN requests
      /\ \A q \in DOMAIN requests :
           /\ requests'[q].kind = requests[q].kind /\ requests'[q].agent = requests[q].agent
           /\ requests'[q].step = IF requests[q].step = "streaming" /\ requests[q].agent = a THEN "finishing" ELSE requests[q].step
  BY <1>1, <1>2 DEF Request, Tells
<1>4. /\ UNCHANGED <<Starts, Loading, Repairing, Prompting, Deletions, Waits, Forgetting>>
      /\ Streams' = {p \in Streams : Of(p) # a} /\ Ends' = Ends \cup {p \in Streams : Of(p) = a}
      /\ Strays' \subseteq Strays
  <2>1. \A k, x : "streaming" \notin x /\ "finishing" \notin x => In(k, x)' = In(k, x)
    BY <1>3 DEF In
  <2>2. UNCHANGED <<Loading, Repairing, Prompting, Waits, Forgetting>>
    BY <2>1 DEF Loading, Repairing, Prompting, Waits, Forgetting
  <2>3. UNCHANGED <<Deletions>>
    BY <1>3 DEF Deletions, In, RequestSteps
  <2>4. Streams' = {p \in Streams : Of(p) # a} /\ Ends' = Ends \cup {p \in Streams : Of(p) = a} /\ Strays' \subseteq Strays
    BY <1>3 DEF Streams, Ends, Strays, In, Of
  <2> QED
    BY <2>2, <2>3, <2>4 DEF Starts
<1>5. \A q \in Starts \cup Streams \cup Ends \cup Waits : Of(q)' = Of(q)
  BY <1>3, SetsSub DEF Of
<1>6. DOMAIN agents' = DOMAIN agents /\ \A b \in DOMAIN agents \ {a} : agents'[b] = agents[b]
  BY <1>1
<1>7. StartRight' /\ StreamRight'
  <2>1. StartRight'
    BY <1>1, <1>4, <1>5, <1>6, SetsSub DEF RunsRight, StartRight
  <2>2. \A p \in Streams' : Of(p)' \in DOMAIN agents' /\ Busy(Of(p))'
    <3>1. ASSUME NEW p \in Streams' PROVE Of(p) \in DOMAIN agents \ {a} /\ Busy(Of(p)) /\ Of(p)' = Of(p)
      BY <1>4, <1>5 DEF RunsRight, StreamRight
    <3>2. ASSUME NEW p \in Streams' PROVE Busy(Of(p))'
      BY <1>6, <3>1 DEF Busy
    <3> QED
      BY <1>6, <3>1, <3>2
  <2> QED
    BY <1>4, <1>5, <2>1, <2>2 DEF RunsRight, StreamRight
<1>8. ASSUME OneDeletion' PROVE Together' /\ Known' /\ Single'
  <2>1. Together /\ Known /\ Single
    BY <1>4, <1>8 DEF RunsRight, OneDeletion
  <2>2. Together'
    BY <1>4, <1>5, <2>1 DEF Together
  <2>3. (Streams' = Streams /\ Ends' = Ends) \/ (Streams' = {} /\ \E p \in Streams : Of(p) = a)
    BY <1>4, <2>1 DEF Together
  <2>4. Known'
    <3>1. CASE Streams' = Streams /\ Ends' = Ends
      BY <1>1, <1>4, <1>5, <2>1, <3>1, SetsSub DEF Known
    <3>2. CASE Streams' = {} /\ \E p \in Streams : Of(p) = a
      BY <1>1, <1>4, <1>5, <2>1, <3>2, SetsSub DEF Known, Together
    <3> QED
      BY <2>3, <3>1, <3>2
  <2>5. Single'
    BY <1>1, <1>4, <1>5, <2>1, SetsSub DEF Single
  <2> QED
    BY <2>2, <2>4, <2>5
<1> QED
  BY <1>7, <1>8 DEF RunsRight

\* The deletion that makes the session forget finds its agent free, so no stream of it is left.
LEMMA DeletesRuns ==
  ASSUME IInv, RunsRight, NEW q, Deletes(q)
  PROVE  RunsRight'
<1>0. requests \in Seq(Request) /\ agents \in Seq(AgentState) /\ 0 \notin DOMAIN requests /\ 0 \notin DOMAIN agents
  BY Positive
<1>1. q \in Waits /\ q \in DOMAIN requests /\ requests[q] \in Request /\ requests[q].kind = "delete"
  BY <1>0, Elements DEF Deletes, At, Waits, In
<1>2. PICK step \in {"refused", "drop"} : step = IF requests[q].agent # 0 /\ agents[requests[q].agent].failed THEN "refused" ELSE "drop"
  OBVIOUS
<1>3. requests' = [requests EXCEPT ![q].step = step] /\ UNCHANGED starting
  BY <1>2 DEF Deletes, Goes
<1>4. PICK r \in Request : r = [requests[q] EXCEPT !.step = step]
  BY <1>1 DEF Request, RequestSteps
<1>5. r.kind = "delete" /\ r.step = step /\ r.agent = Of(q) /\ requests' = [requests EXCEPT ![q] = r]
  BY <1>1, <1>3, <1>4 DEF Request, Of
<1>6. Sets(q, "delete", step) /\ \A i \in DOMAIN requests : Of(i)' = Of(i)
  BY <1>0, <1>1, <1>5, GoesSets
<1>7. q \in Deletions /\ q \notin Starts \cup Streams \cup Ends \cup Forgetting
  BY <1>1, SetsApart
<1>8. CASE step = "refused"
  <2>1. UNCHANGED <<agent, running, agents>>
    BY <1>2, <1>8 DEF Deletes
  <2> QED
    BY <1>3, <1>6, <1>7, <1>8, <2>1, OtherRuns
<1>9. CASE step = "drop"
  <2>1. agent' = 0 /\ running' = 0 /\ agents' = Unheard(requests[q].agent, Refuse(approvals, agents))
    BY <1>2, <1>9 DEF Deletes, Forget, Expired
  <2>2. /\ UNCHANGED <<Starts, Loading, Repairing, Prompting, Streams, Ends, Deletions>>
        /\ Strays' \subseteq Strays /\ Forgetting' # {}
    BY <1>6, <1>7, <1>9, SetsSub DEF Sets
  <2>3. DOMAIN agents' = DOMAIN agents /\ \A b \in DOMAIN agents : Busy(b)' = Busy(b)
    BY <1>0, <2>1, BusyKept DEF Busy
  <2>4. \A p \in Starts \cup Streams \cup Ends : Of(p)' = Of(p)
    BY <1>6, SetsSub
  <2>5. StartRight' /\ StreamRight'
    BY <1>3, <2>1, <2>2, <2>3, <2>4, SetsSub DEF RunsRight, StartRight, StreamRight
  <2>6. ASSUME OneDeletion' PROVE Together' /\ Known' /\ Single'
    <3>1. Together /\ Known /\ Single
      BY <2>2, <2>6 DEF RunsRight, OneDeletion
    <3>2. Together'
      BY <2>2, <2>4, <3>1 DEF Together
    <3>3. Streams = {} /\ (Starts = {} \/ Ends = {})
      <4>1. Forgetting = {}
        BY <1>1, <1>7, <2>2, <2>6, SetsApart DEF OneDeletion
      <4>2. Of(q) = agent
        BY <1>1, <3>1, <4>1 DEF Single
      <4>3. ASSUME NEW p \in Streams PROVE FALSE
        <5>1. Of(p) = Of(q) /\ Of(p) \in DOMAIN agents /\ Busy(Of(p))
          BY <3>1, <4>1, <4>2 DEF Single, RunsRight, StreamRight
        <5>2. ~Busy(Of(q)) \/ Of(q) = 0
          BY DEF Deletes, Flushed, Busy, Of
        <5> QED
          BY <1>0, <5>1, <5>2
      <4>4. Starts = {} \/ Ends = {}
        BY <3>1, <4>1, SetsApart DEF Single
      <4> QED
        BY <4>3, <4>4
    <3>4. Known' /\ Single'
      BY <2>2, <2>4, <3>3, SetsSub DEF Known, Single
    <3> QED
      BY <3>2, <3>4
  <2> QED
    BY <2>5, <2>6 DEF RunsRight
<1> QED
  BY <1>2, <1>8, <1>9

\* A deletion or a close is asked.
LEMMA EndAgentsRuns ==
  ASSUME IInv, RunsRight, NEW kind \in {"delete", "close"}, EndAgents(kind)
  PROVE  RunsRight'
<1>0. requests \in Seq(Request) /\ agents \in Seq(AgentState) /\ agent \in Nat
  BY Positive DEF IInv, Typed
<1>1. PICK n : n = Len(requests) + 1
  OBVIOUS
<1>2. PICK r \in Request : r = [kind |-> kind, step |-> "wait", agent |-> agent, pending |-> {}]
  BY <1>0 DEF Request, Kinds, RequestSteps
<1>3. requests' = Append(requests, r) /\ agents' = Aborted(agent, agents) /\ UNCHANGED <<agent, running, starting>>
  BY <1>2 DEF EndAgents, Asked, maps
<1>4. Sets(n, kind, "wait") /\ (\A i \in DOMAIN requests : Of(i)' = Of(i)) /\ Of(n)' = agent /\ n \notin DOMAIN requests
  BY <1>0, <1>1, <1>2, <1>3, ComesSets
<1>5. /\ UNCHANGED <<Starts, Loading, Repairing, Prompting, Streams, Strays, Ends, Forgetting>>
      /\ Deletions' = IF kind = "delete" THEN Deletions \cup {n} ELSE Deletions
      /\ Waits' = IF kind = "delete" THEN Waits \cup {n} ELSE Waits
  BY <1>4, SetsSub DEF Sets
<1>6. DOMAIN agents' = DOMAIN agents /\ \A b \in DOMAIN agents : Busy(b)' = Busy(b)
  BY <1>0, <1>3, BusyKept DEF Busy
<1>7. \A p \in Starts \cup Streams \cup Ends \cup Waits : Of(p)' = Of(p)
  BY <1>4, SetsSub
<1>8. StartRight' /\ StreamRight'
  BY <1>3, <1>5, <1>6, <1>7, SetsSub DEF RunsRight, StartRight, StreamRight
<1>9. ASSUME OneDeletion' PROVE Together' /\ Known' /\ Single'
  <2>1. Together /\ Known /\ Single
    BY <1>5, <1>9 DEF RunsRight, OneDeletion
  <2>2. Together'
    BY <1>5, <1>7, <2>1 DEF Together
  <2>3. Known'
    BY <1>3, <1>5, <1>7, <2>1, SetsSub DEF Known
  <2>4. Single'
    BY <1>3, <1>4, <1>5, <1>7, <2>1, SetsSub DEF Single
  <2> QED
    BY <2>2, <2>3, <2>4
<1> QED
  BY <1>8, <1>9 DEF RunsRight

LEMMA RestartRuns ==
  ASSUME IInv, Restart
  PROVE  RunsRight'
<1>2. DOMAIN requests' = DOMAIN requests /\ \A q \in DOMAIN requests : requests'[q].step = "over"
  BY DEF Restart, Gone
<1>3. \A k, x : "over" \notin x => In(k, x)' = {}
  BY <1>2 DEF In
<1>4. /\ Loading' = {} /\ Repairing' = {} /\ Prompting' = {} /\ Starts' = {} /\ Streams' = {} /\ Ends' = {}
      /\ Deletions' = {} /\ Waits' = {} /\ Forgetting' = {} /\ Strays' = {}
  BY <1>2, <1>3 DEF Loading, Repairing, Prompting, Starts, Streams, Ends, Deletions, Waits, Forgetting, Strays
<1> QED
  BY <1>4 DEF RunsRight, StartRight, StreamRight, Together, Known, Single

LEMMA InitRuns ==
  ASSUME Init
  PROVE  RunsRight
<1>1. DOMAIN requests = {}
  BY DEF Init
<1>2. /\ Loading = {} /\ Repairing = {} /\ Prompting = {} /\ Starts = {} /\ Streams = {} /\ Ends = {}
      /\ Deletions = {} /\ Waits = {} /\ Forgetting = {} /\ Strays = {}
  BY <1>1 DEF Loading, Repairing, Prompting, Starts, Streams, Ends, Deletions, Waits, Forgetting, Strays, In
<1> QED
  BY <1>2 DEF RunsRight, StartRight, StreamRight, Together, Known, Single

\* A request goes on to another step and keeps the rest.
LEMMA StepSets ==
  ASSUME IInv, NEW q \in DOMAIN requests, NEW step \in RequestSteps, Goes(q, step)
  PROVE  /\ Sets(q, requests[q].kind, step)
         /\ \A i \in DOMAIN requests : Of(i)' = Of(i) /\ requests'[i].pending = requests[i].pending
<1>0. requests \in Seq(Request)
  BY Positive
<1>1. requests[q] \in Request
  BY <1>0, Elements
<1>2. PICK r \in Request : r = [requests[q] EXCEPT !.step = step]
  BY <1>1 DEF Request
<1>3. r.kind = requests[q].kind /\ r.step = step /\ r.agent = Of(q) /\ requests' = [requests EXCEPT ![q] = r]
  BY <1>1, <1>2 DEF Goes, Request, Of
<1>4. \A i \in DOMAIN requests : requests'[i].pending = requests[i].pending
  BY <1>1, <1>2, <1>3 DEF Request
<1> QED
  BY <1>0, <1>3, <1>4, GoesSets

LEMMA LoadsRuns ==
  ASSUME IInv, RunsRight, NEW q, RunLoads(q)
  PROVE  RunsRight'
<1>0. requests \in Seq(Request)
  BY Positive
<1>1. q \in Loading /\ q \in DOMAIN requests /\ requests[q] \in Request /\ requests[q].kind = "run"
  BY <1>0, Elements DEF RunLoads, At, Loading, In
<1>2. PICK found \in BOOLEAN :
        /\ requests' = [requests EXCEPT ![q].step = IF found THEN "repair" ELSE "refused", ![q].pending = Unanswered]
        /\ starting' = (found /\ starting)
  BY DEF RunLoads
<1>9. PICK step \in {"repair", "refused"} : step = IF found THEN "repair" ELSE "refused"
  OBVIOUS
<1>3. PICK r \in Request : r = [requests[q] EXCEPT !.step = step, !.pending = Unanswered]
  BY <1>1 DEF Request, RequestSteps, Unanswered
<1>4. r.kind = "run" /\ r.step = step /\ r.agent = Of(q)
  BY <1>1, <1>3 DEF Request, Of
<1>5. requests' = [requests EXCEPT ![q] = r]
  BY <1>2, <1>3, <1>9
<1>6. Sets(q, "run", step) /\ \A i \in DOMAIN requests : Of(i)' = Of(i)
  BY <1>0, <1>1, <1>4, <1>5, GoesSets
<1>7. q \in Starts /\ UNCHANGED <<agent, running, agents>>
  BY <1>1, SetsSub DEF RunLoads
<1>8. step = "repair" => (starting => starting')
  BY <1>2, <1>9
<1> QED
  BY <1>1, <1>9, <1>6, <1>7, <1>8, StartingRuns DEF RequestSteps

\* A step that no run takes, of a request that neither runs nor closes.
LEMMA ElseRuns ==
  ASSUME IInv, RunsRight, NEW q \in DOMAIN requests, NEW step \in {"ended", "repair"}, Goes(q, step),
         requests[q].kind = "open" \/ (requests[q].kind = "delete" /\ step = "ended"),
         UNCHANGED <<agent, running, starting, agents>>
  PROVE  RunsRight'
<1>1. Sets(q, requests[q].kind, step) /\ \A i \in DOMAIN requests : Of(i)' = Of(i)
  BY StepSets DEF RequestSteps
<1>2. q \notin Starts \cup Streams \cup Ends
  BY DEF Starts, Loading, Repairing, Prompting, Streams, Ends, In
<1>3. requests[q].kind # "delete" => q \notin Forgetting /\ q \notin Deletions
  BY DEF Forgetting, Deletions, In
<1> QED
  BY <1>1, <1>2, <1>3, OtherRuns

LEMMA RequestsRuns ==
  ASSUME IInv, RunsRight, NEW q, Steps(q) \/ NoCredential(q), Closed' = {}
  PROVE  RunsRight'
<1>1. CASE Deletes(q)
  BY <1>1, DeletesRuns
<1>2. CASE RunRepairs(q) /\ ~\E d \in DOMAIN requests : Ready(d)
  BY <1>2, RunRepairsRuns
<1>3. CASE RunLoads(q) \/ RunPrompts(q) \/ RunFinishes(q)
  BY <1>3, LoadsRuns, RunPromptsRuns, RunFinishesRuns
<1>4. CASE OpenLooks(q) \/ OpenRepairs(q)
  <2>1. q \in DOMAIN requests /\ requests[q].kind = "open" /\ UNCHANGED <<agent, running, starting, agents>>
    BY <1>4 DEF OpenLooks, OpenRepairs, At, maps
  <2>2. PICK step \in {"ended", "repair"} : Goes(q, step)
    BY <1>4 DEF OpenLooks, OpenRepairs
  <2> QED
    BY <2>1, <2>2, ElseRuns
<1>5. CASE Drops(q)
  <2>1. q \in DOMAIN requests /\ requests[q].kind = "delete" /\ UNCHANGED <<agent, running, starting, agents>> /\ Goes(q, "ended")
    BY <1>5 DEF Drops, At, maps
  <2> QED
    BY <2>1, ElseRuns
<1>6. CASE NoCredential(q)
  <2>1. q \in Starts /\ q \in DOMAIN requests /\ requests[q].kind = "run"
    BY <1>6 DEF NoCredential, At, Starts, Prompting, In
  <2>2. Goes(q, "refused") /\ UNCHANGED <<agent, running, agents>>
    BY <1>6 DEF NoCredential, maps
  <2>3. Sets(q, "run", "refused") /\ \A i \in DOMAIN requests : Of(i)' = Of(i)
    BY <2>1, <2>2, StepSets DEF RequestSteps
  <2> QED
    BY <2>1, <2>2, <2>3, StartingRuns DEF RequestSteps
<1>7. CASE Closes(q)
  <2>1. q \in DOMAIN requests /\ requests[q].kind = "close" /\ Goes(q, "ended")
    BY <1>7 DEF Closes, At
  <2>2. q \in Closed'
    BY <2>1, StepSets DEF Sets, RequestSteps
  <2> QED
    BY <2>2
<1> QED
  BY <1>1, <1>2, <1>3, <1>4, <1>5, <1>6, <1>7 DEF Steps

LEMMA OpenRuns ==
  ASSUME IInv, RunsRight, OpenSession
  PROVE  RunsRight'
<1>0. requests \in Seq(Request)
  BY Positive
<1>1. PICK n : n = Len(requests) + 1
  OBVIOUS
<1>2. PICK r \in Request : r = [kind |-> "open", step |-> "read", agent |-> 0, pending |-> Unanswered]
  BY DEF Request, Kinds, RequestSteps, Unanswered
<1>3. requests' = Append(requests, r) /\ r.kind = "open" /\ r.step = "read" /\ UNCHANGED <<agent, running, starting, agents>>
  BY <1>2 DEF OpenSession, Asked, maps
<1>4. Sets(n, "open", "read") /\ (\A i \in DOMAIN requests : Of(i)' = Of(i)) /\ n \notin DOMAIN requests
  BY <1>0, <1>1, <1>2, <1>3, ComesSets
<1> QED
  BY <1>3, <1>4, SetsSub, OtherRuns

\* Agents that work, and their approvals, start and end no run.
LEMMA WorksRuns ==
  ASSUME IInv, RunsRight, NEW a, Works(a) \/ CallTool(a) \/ AgentEnds(a)
  PROVE  RunsRight'
<1>0. agents \in Seq(AgentState) /\ \A b \in DOMAIN agents : agents[b] \in AgentState
  BY Positive, Elements
<1>1. CASE AgentEnds(a)
  BY <1>1, AgentEndsRuns
<1>2. CASE CallTool(a) \/ AskApproval(a) \/ ToolEnds(a) \/ Persist(a)
  <2>1. UNCHANGED <<requests, agent, running, starting>>
    BY <1>2 DEF CallTool, AskApproval, ToolEnds, Persist, maps
  <2>2. DOMAIN agents' = DOMAIN agents /\ \A b \in DOMAIN agents : agents[b].busy => agents'[b].busy
    <3>1. CASE CallTool(a)
      BY <1>0, <3>1 DEF CallTool, AgentState
    <3>2. CASE AskApproval(a)
      BY <1>0, <3>2 DEF AskApproval, AgentState
    <3>3. CASE ToolEnds(a)
      BY <1>0, <3>3 DEF ToolEnds, AgentState
    <3>4. CASE Persist(a)
      BY <1>0, <3>4 DEF Persist, AgentState
    <3> QED
      BY <1>2, <3>1, <3>2, <3>3, <3>4
  <2> QED
    BY <2>1, <2>2, QuietRuns
<1> QED
  BY <1>1, <1>2 DEF Works

LEMMA PeopleRuns ==
  ASSUME IInv, RunsRight, Abort \/ \E c \in Tools, yes \in BOOLEAN : RespondApproval(c, yes)
  PROVE  RunsRight'
<1>0. agents \in Seq(AgentState) /\ \A b \in DOMAIN agents : agents[b] \in AgentState
  BY Positive, Elements
<1>1. UNCHANGED <<requests, agent, running, starting>>
  BY DEF Abort, RespondApproval, maps
<1>2. DOMAIN agents' = DOMAIN agents /\ \A b \in DOMAIN agents : agents[b].busy => agents'[b].busy
  <2>1. CASE Abort
    <3>1. PICK b : b = requests[running].agent
      OBVIOUS
    <3>2. PICK as : as = Aborted(b, agents)
      OBVIOUS
    <3>3. AllValid(as, owner, executed, approved)
      BY <3>2, AbortedKeeps DEF IInv, Decided
    <3>4. agents' = Refuse(approvals, as) /\ as \in Seq(AgentState)
      BY <2>1, <3>1, <3>2, <3>3 DEF Abort, Expired, AllValid
    <3> QED
      BY <1>0, <3>2, <3>4, BusyKept
  <2>2. ASSUME NEW c \in Tools, NEW yes \in BOOLEAN, RespondApproval(c, yes)
        PROVE  DOMAIN agents' = DOMAIN agents /\ \A b \in DOMAIN agents : agents[b].busy => agents'[b].busy
    BY <1>0, <2>2 DEF RespondApproval, AgentState
  <2> QED
    BY <2>1, <2>2
<1> QED
  BY <1>1, <1>2, QuietRuns

LEMMA RunsNext ==
  ASSUME IInv, RunsRight, [Next]_vars, Closed' = {}
  PROVE  RunsRight'
<1>1. CASE UNCHANGED vars
  BY <1>1, QuietRuns DEF vars, maps
<1>2. CASE Run \/ OpenSession \/ DeleteSession \/ Close \/ Restart
  BY <1>2, RunRuns, OpenRuns, EndAgentsRuns, RestartRuns DEF DeleteSession, Close
<1>3. CASE Abort \/ \E c \in Tools, yes \in BOOLEAN : RespondApproval(c, yes)
  BY <1>3, PeopleRuns
<1>4. CASE \E q \in DOMAIN requests : Steps(q) \/ NoCredential(q)
  BY <1>4, RequestsRuns
<1>5. CASE \E a \in DOMAIN agents : Works(a) \/ CallTool(a) \/ AgentEnds(a)
  BY <1>5, WorksRuns
<1> QED
  BY <1>1, <1>2, <1>3, <1>4, <1>5 DEF Next

\* At most one member: any two are equal.
LEMMA FewSame ==
  ASSUME NEW S, IsFiniteSet(S), Cardinality(S) <= 1, NEW x \in S, NEW y \in S
  PROVE  x = y
<1>1. SUFFICES ASSUME x # y PROVE FALSE
  OBVIOUS
<1>2. {x, y} \subseteq S
  OBVIOUS
<1>3. IsFiniteSet({x}) /\ Cardinality({x}) = 1
  BY FS_Singleton
<1>4. Cardinality({x} \cup {y}) = 2
  BY <1>1, <1>3, FS_AddElement
<1>5. {x} \cup {y} \subseteq S
  BY <1>2
<1>6. Cardinality({x} \cup {y}) <= Cardinality(S)
  BY <1>5, FS_Subset
<1>7. Cardinality(S) \in Nat
  BY FS_CardinalityType
<1> QED
  BY <1>4, <1>6, <1>7

LEMMA SameFew ==
  ASSUME NEW S, \A x, y \in S : x = y
  PROVE  Cardinality(S) <= 1
<1>1. CASE S = {}
  BY <1>1, FS_EmptySet
<1>2. CASE S # {}
  <2>1. PICK x \in S : TRUE
    BY <1>2
  <2>2. S = {x}
    BY <2>1
  <2>3. Cardinality({x}) = 1
    BY FS_Singleton
  <2> QED
    BY <2>2, <2>3
<1> QED
  BY <1>1, <1>2

\* A close that has ended stays so until the process ends.
LEMMA ClosedStays ==
  ASSUME IInv, [Next]_vars, ~Restart
  PROVE  Closed \subseteq Closed'
<1>0. requests \in Seq(Request)
  BY Positive
<1>1. SUFFICES ASSUME NEW q \in Closed PROVE q \in DOMAIN requests' /\ requests'[q].kind = "close" /\ requests'[q].step = "ended"
  BY DEF Closed
<1>2. q \in DOMAIN requests /\ requests[q].kind = "close" /\ requests[q].step = "ended"
  BY DEF Closed
<1>3. CASE UNCHANGED requests
  BY <1>2, <1>3
<1>4. CASE Run \/ OpenSession \/ DeleteSession \/ Close
  <2>1. PICK r : requests' = Append(requests, r)
    BY <1>4 DEF Run, OpenSession, DeleteSession, Close, EndAgents, Asked
  <2> QED
    BY <1>0, <1>2, <2>1
<1>5. CASE \E p \in DOMAIN requests : Steps(p) \/ NoCredential(p)
  <2>1. PICK p \in DOMAIN requests : requests[p].step # "ended" /\ \A i \in DOMAIN requests \ {p} : requests'[i] = requests[i]
    BY <1>5 DEF Steps, NoCredential, RunLoads, RunRepairs, RunPrompts, RunFinishes, OpenLooks, OpenRepairs, Drops, Deletes,
                Closes, At, Goes
  <2>2. DOMAIN requests' = DOMAIN requests
    BY <1>5 DEF Steps, NoCredential, RunLoads, RunRepairs, RunPrompts, RunFinishes, OpenLooks, OpenRepairs, Drops, Deletes,
                Closes, Goes
  <2> QED
    BY <1>2, <2>1, <2>2
<1>6. CASE \E x \in DOMAIN agents : AgentEnds(x)
  BY <1>2, <1>6 DEF AgentEnds, Tells
<1> QED
  BY <1>3, <1>4, <1>5, <1>6 DEF Next, vars, Works, AskApproval, ToolEnds, Persist, CallTool, RespondApproval, Abort

RunsInv == Closed = {} => RunsRight

LEMMA RunsInvNext ==
  ASSUME IInv, RunsInv, [Next]_vars
  PROVE  RunsInv'
<1>1. CASE Restart
  BY <1>1, RestartRuns DEF RunsInv
<1>2. CASE ~Restart
  BY <1>2, ClosedStays, RunsNext DEF RunsInv
<1> QED
  BY <1>1, <1>2

\* Runs that started and have not ended. The session knows of one of them at most, and of the others
\* because something made it forget.
Begun == Starts \cup Streams \cup Strays \cup Ends
Taken == IF starting \/ running # 0 THEN 1 ELSE 0

Counted == (starting => running = 0) /\ Cardinality(Begun) <= Taken + Cardinality(Forgotten)

LEMMA ForgottenIs == Forgotten = Closed \cup Forgetting /\ Forgotten' = Closed' \cup Forgetting'
  BY DEF Forgotten, Forgetting, In

LEMMA FiniteRuns ==
  ASSUME requests \in Seq(Request)
  PROVE  IsFiniteSet(DOMAIN requests) /\ IsFiniteSet(Begun) /\ IsFiniteSet(Forgotten) /\ IsFiniteSet(Streaming) /\ IsFiniteSet(Deletions)
<1>1. IsFiniteSet(DOMAIN requests)
  <2>1. DOMAIN requests = 1..Len(requests) /\ Len(requests) \in Nat
    OBVIOUS
  <2> QED
    BY <2>1, FS_Interval
<1>2. Begun \subseteq DOMAIN requests /\ Forgotten \subseteq DOMAIN requests /\ Streaming \subseteq DOMAIN requests
  BY SetsSub DEF Begun, Forgotten, Closed, Streaming
<1> QED
  BY <1>1, <1>2, SetsSub, FS_Subset

\* A run leaves, or is forgotten by what forgets, whenever the session becomes free.
LEMMA CountLess ==
  ASSUME IInv, IInv', Counted, Begun' \subseteq Begun, Forgotten \subseteq Forgotten', Taken' >= Taken \/ Begun' # Begun \/ Forgotten' # Forgotten
  PROVE  Cardinality(Begun') <= Taken' + Cardinality(Forgotten')
<1>1. IsFiniteSet(Begun) /\ IsFiniteSet(Begun') /\ IsFiniteSet(Forgotten) /\ IsFiniteSet(Forgotten')
  <2>1. requests \in Seq(Request) /\ requests' \in Seq(Request)
    BY DEF IInv, Typed
  <2>2. IsFiniteSet(Begun) /\ IsFiniteSet(Forgotten)
    BY <2>1, FiniteRuns
  <2>3. (IsFiniteSet(DOMAIN requests))'
    <3>1. DOMAIN requests' = 1..Len(requests') /\ Len(requests') \in Nat
      BY <2>1
    <3> QED
      BY <3>1, FS_Interval
  <2>4. IsFiniteSet(Begun')
    BY <2>2, FS_Subset
  <2>5. Forgotten' \subseteq DOMAIN requests'
    BY DEF Forgotten, Closed
  <2> QED
    BY <2>2, <2>3, <2>4, <2>5, FS_Subset
<1>2. PICK b \in Nat, c \in Nat, f \in Nat, g \in Nat :
        b = Cardinality(Begun) /\ c = Cardinality(Begun') /\ f = Cardinality(Forgotten) /\ g = Cardinality(Forgotten')
  BY <1>1, FS_CardinalityType
<1>3. c <= b /\ f <= g
  BY <1>1, <1>2, FS_Subset
<1>4. Begun' # Begun => c < b
  BY <1>1, <1>2, <1>3, FS_Subset
<1>5. Forgotten' # Forgotten => f < g
  BY <1>1, <1>2, <1>3, FS_Subset
<1>6. Taken \in {0, 1} /\ Taken' \in {0, 1} /\ b <= Taken + f
  BY <1>2 DEF Counted, Taken
<1> QED
  BY <1>2, <1>3, <1>4, <1>5, <1>6

\* A request goes on to a step of no run.
LEMMA CountGoes ==
  ASSUME IInv, IInv', Counted, NEW q \in DOMAIN requests, NEW step, Sets(q, requests[q].kind, step),
         step \notin {"load", "repair", "credential", "streaming", "finishing"},
         requests[q].kind \in {"delete", "close"} => step # "over",
         requests[q].kind = "delete" /\ requests[q].step \in {"drop", "ended"} => step \in {"drop", "ended"},
         requests[q].kind = "close" => requests[q].step # "ended",
         Taken' >= Taken \/ q \in Begun \/ (q \notin Forgotten /\ q \in Forgotten')
  PROVE  Cardinality(Begun') <= Taken' + Cardinality(Forgotten')
<1>1. Begun' = Begun \ {q}
  BY DEF Sets, Begun
<1>2. q \in Closed => requests[q].kind = "close" /\ requests[q].step = "ended"
  BY DEF Closed
<1>3. q \in Forgetting => requests[q].kind = "delete" /\ requests[q].step \in {"drop", "ended"}
  BY DEF Forgetting, In
<1>4. Closed \subseteq Closed' /\ Forgetting \subseteq Forgetting'
  BY <1>2, <1>3 DEF Sets
<1>5. Forgotten \subseteq Forgotten'
  BY <1>4, ForgottenIs
<1> QED
  BY <1>1, <1>5, CountLess

LEMMA CountSteps ==
  ASSUME IInv, IInv', Counted, NEW q \in DOMAIN requests, Steps(q) \/ NoCredential(q)
  PROVE  Cardinality(Begun') <= Taken' + Cardinality(Forgotten')
<1>0. requests \in Seq(Request) /\ requests[q] \in Request /\ 0 \notin DOMAIN requests
  BY Positive, Elements
<1>1. \A step \in RequestSteps : Goes(q, step) => Sets(q, requests[q].kind, step)
  BY StepSets
<1>2. Starts \subseteq Begun /\ Ends \subseteq Begun
  BY DEF Begun
<1>3. CASE RunPrompts(q)
  <2>1. q \in Prompting /\ requests[q].kind = "run"
    BY <1>3 DEF RunPrompts, At, Prompting, In
  <2>2. PICK step \in {"finishing", "streaming"} : Goes(q, step)
    BY <1>3 DEF RunPrompts
  <2>3. Sets(q, "run", step)
    BY <1>1, <2>1, <2>2 DEF RequestSteps
  <2>4. Begun' \subseteq Begun /\ UNCHANGED <<Closed, Forgetting>>
    BY <2>1, <2>2, <2>3, SetsSub, SetsApart DEF Sets, Begun
  <2>5. running' = q /\ q # 0
    BY <1>0, <1>3 DEF RunPrompts
  <2>6. Taken' >= Taken
    BY <2>5 DEF Taken
  <2> QED
    BY <2>4, <2>6, ForgottenIs, CountLess
<1>4. CASE RunLoads(q)
  <2>1. q \in Loading /\ requests[q].kind = "run"
    BY <1>4 DEF RunLoads, At, Loading, In
  <2>2. PICK found \in BOOLEAN :
          /\ requests' = [requests EXCEPT ![q].step = IF found THEN "repair" ELSE "refused", ![q].pending = Unanswered]
          /\ starting' = (found /\ starting) /\ UNCHANGED running
    BY <1>4 DEF RunLoads
  <2>3. PICK step \in {"repair", "refused"} : step = IF found THEN "repair" ELSE "refused"
    OBVIOUS
  <2>4. PICK r \in Request : r = [requests[q] EXCEPT !.step = step, !.pending = Unanswered]
    BY <1>0 DEF Request, RequestSteps, Unanswered
  <2>5. r.kind = "run" /\ r.step = step /\ requests' = [requests EXCEPT ![q] = r]
    BY <1>0, <2>1, <2>2, <2>3, <2>4 DEF Request
  <2>6. Sets(q, "run", step)
    BY <1>0, <2>1, <2>5, GoesSets
  <2>7. Begun' \subseteq Begun /\ UNCHANGED <<Closed, Forgetting>> /\ (step = "refused" => Begun' # Begun)
    BY <2>1, <2>3, <2>6, SetsSub, SetsApart DEF Sets, Begun
  <2>8. step = "repair" => Taken' = Taken
    BY <2>2, <2>3 DEF Taken
  <2> QED
    BY <2>3, <2>7, <2>8, ForgottenIs, CountLess DEF Taken
<1>5. CASE RunRepairs(q)
  <2>1. q \in Repairing /\ requests[q].kind = "run"
    BY <1>5 DEF RunRepairs, At, Repairing, In
  <2>2. CASE requests' = [requests EXCEPT ![q].step = "credential", ![q].agent = Len(agents) + 1] /\ UNCHANGED starting
    <3>1. Len(agents) + 1 \in Nat
      BY DEF IInv, Decided, AllValid
    <3>2. PICK r \in Request : r = [requests[q] EXCEPT !.step = "credential", !.agent = Len(agents) + 1]
      BY <1>0, <3>1 DEF Request, RequestSteps
    <3>3. r.kind = "run" /\ r.step = "credential" /\ requests' = [requests EXCEPT ![q] = r]
      BY <1>0, <2>1, <2>2, <3>2 DEF Request
    <3>4. Sets(q, "run", "credential")
      BY <1>0, <2>1, <3>3, GoesSets
    <3>5. Begun' \subseteq Begun /\ UNCHANGED <<Closed, Forgetting>>
      BY <2>1, <3>4, SetsSub, SetsApart DEF Sets, Begun
    <3>6. Taken' = Taken
      BY <1>5, <2>2 DEF RunRepairs, Taken
    <3> QED
      BY <3>5, <3>6, ForgottenIs, CountLess DEF Taken
  <2>3. CASE Goes(q, "refused")
    BY <1>1, <1>2, <2>1, <2>3, SetsSub, CountGoes DEF RequestSteps
  <2> QED
    BY <1>5, <2>2, <2>3 DEF RunRepairs
<1>6. CASE NoCredential(q) \/ RunFinishes(q)
  <2>1. q \in Begun /\ requests[q].kind = "run"
    BY <1>6 DEF NoCredential, RunFinishes, At, Begun, Starts, Prompting, Ends, In
  <2>2. PICK step \in {"refused", "ended"} : Goes(q, step)
    BY <1>6 DEF NoCredential, RunFinishes
  <2> QED
    BY <1>1, <2>1, <2>2, CountGoes DEF RequestSteps
<1>7. CASE OpenLooks(q) \/ OpenRepairs(q)
  <2>1. requests[q].kind = "open" /\ UNCHANGED <<starting, running>>
    BY <1>7 DEF OpenLooks, OpenRepairs, At, maps
  <2>2. PICK step \in {"ended", "repair"} : Goes(q, step)
    BY <1>7 DEF OpenLooks, OpenRepairs
  <2>3. Sets(q, "open", step)
    BY <1>1, <2>1, <2>2 DEF RequestSteps
  <2>4. q \notin Closed /\ q \notin Forgetting
    BY <2>1 DEF Closed, Forgetting, In
  <2>5. Begun' \subseteq Begun /\ UNCHANGED <<Closed, Forgetting>>
    BY <2>2, <2>3, <2>4 DEF Sets, Begun
  <2>6. Taken' = Taken
    BY <2>1 DEF Taken
  <2> QED
    BY <2>5, <2>6, ForgottenIs, CountLess DEF Taken
<1>8. CASE Drops(q)
  <2>1. requests[q].kind = "delete" /\ Goes(q, "ended") /\ UNCHANGED <<starting, running>>
    BY <1>8 DEF Drops, At, maps
  <2>2. Taken' >= Taken
    BY <2>1 DEF Taken
  <2> QED
    BY <1>1, <2>1, <2>2, CountGoes DEF RequestSteps
<1>9. CASE Deletes(q)
  <2>1. requests[q].kind = "delete" /\ requests[q].step = "wait"
    BY <1>9 DEF Deletes, At
  <2>2. CASE Goes(q, "refused") /\ UNCHANGED <<starting, running>>
    <3>1. Taken' >= Taken
      BY <2>2 DEF Taken
    <3> QED
      BY <1>1, <2>1, <2>2, <3>1, CountGoes DEF RequestSteps
  <2>3. CASE Goes(q, "drop")
    <3>1. Sets(q, "delete", "drop")
      BY <1>1, <2>1, <2>3 DEF RequestSteps
    <3>2. q \in Forgetting'
      BY <3>1 DEF Sets
    <3>3. q \notin Closed /\ q \notin Forgetting
      BY <2>1 DEF Closed, Forgetting, In
    <3> QED
      BY <2>1, <3>1, <3>2, <3>3, ForgottenIs, CountGoes
  <2> QED
    BY <1>9, <2>2, <2>3 DEF Deletes
<1>10. CASE Closes(q)
  <2>1. requests[q].kind = "close" /\ requests[q].step = "wait" /\ Goes(q, "ended")
    BY <1>10 DEF Closes, At
  <2>2. Sets(q, "close", "ended")
    BY <1>1, <2>1 DEF RequestSteps
  <2>3. q \in Closed'
    BY <2>2 DEF Sets
  <2>4. q \notin Closed /\ q \notin Forgetting
    BY <2>1 DEF Closed, Forgetting, In
  <2> QED
    BY <2>1, <2>2, <2>3, <2>4, ForgottenIs, CountGoes
<1> QED
  BY <1>3, <1>4, <1>5, <1>6, <1>7, <1>8, <1>9, <1>10 DEF Steps

\* A run starts only when the session is free.
LEMMA CountAsked ==
  ASSUME IInv, IInv', Counted, Run \/ OpenSession \/ DeleteSession \/ Close
  PROVE  Cardinality(Begun') <= Taken' + Cardinality(Forgotten')
<1>0. requests \in Seq(Request) /\ agent \in Nat
  BY Positive DEF IInv, Typed
<1>1. PICK n : n = Len(requests) + 1
  OBVIOUS
<1>2. CASE Run
  <2>1. PICK step \in {"credential", "load"} : step = IF agent # 0 THEN "credential" ELSE "load"
    OBVIOUS
  <2>2. PICK r \in Request : r = [kind |-> "run", step |-> step, agent |-> agent, pending |-> {}]
    BY <1>0 DEF Request, Kinds, RequestSteps
  <2>3. requests' = Append(requests, r) /\ r.kind = "run" /\ r.step = step
    BY <1>2, <2>1, <2>2 DEF Run, Asked
  <2>4. Sets(n, "run", step) /\ n \notin DOMAIN requests
    BY <1>0, <1>1, <2>3, ComesSets
  <2>5. Begun' = Begun \cup {n} /\ n \notin Begun /\ UNCHANGED <<Closed, Forgetting>>
    BY <2>1, <2>4, SetsSub DEF Sets, Begun
  <2>6. Taken = 0 /\ Taken' = 1
    BY <1>2 DEF Run, MayRun, Taken
  <2>7. IsFiniteSet(Begun) /\ IsFiniteSet(Forgotten)
    BY <1>0, FiniteRuns
  <2>8. Cardinality(Begun) \in Nat /\ Cardinality(Forgotten) \in Nat
    BY <2>7, FS_CardinalityType
  <2>9. Cardinality(Begun') = Cardinality(Begun) + 1
    BY <2>5, <2>7, FS_AddElement
  <2>10. Cardinality(Forgotten') = Cardinality(Forgotten)
    BY <2>5, ForgottenIs
  <2>11. Cardinality(Begun) <= 0 + Cardinality(Forgotten)
    BY <2>6 DEF Counted
  <2> QED
    BY ONLY <2>6, <2>8, <2>9, <2>10, <2>11
<1>3. CASE OpenSession \/ DeleteSession \/ Close
  <2>1. PICK kind \in {"open", "delete", "close"}, step \in {"read", "wait"}, a \in Nat, pending \in SUBSET Tools :
          Asked(kind, step, a, pending)
    BY <1>0, <1>3 DEF OpenSession, DeleteSession, Close, EndAgents, Unanswered
  <2>2. PICK r \in Request : r = [kind |-> kind, step |-> step, agent |-> a, pending |-> pending]
    BY DEF Request, Kinds, RequestSteps
  <2>3. requests' = Append(requests, r) /\ r.kind = kind /\ r.step = step
    BY <2>1, <2>2 DEF Asked
  <2>4. Sets(n, kind, step) /\ n \notin DOMAIN requests
    BY <1>0, <1>1, <2>3, ComesSets
  <2>5. Begun' \subseteq Begun /\ UNCHANGED <<Closed, Forgetting>>
    BY <2>1, <2>4, SetsSub DEF Sets, Begun
  <2>6. Taken' = Taken
    BY <1>3 DEF OpenSession, DeleteSession, Close, EndAgents, maps, Taken
  <2> QED
    BY <2>5, <2>6, ForgottenIs, CountLess DEF Taken
<1> QED
  BY <1>2, <1>3

LEMMA CountedNext ==
  ASSUME IInv, IInv', Counted, [Next]_vars
  PROVE  Counted'
<1>0. requests \in Seq(Request)
  BY Positive
<1>1. starting' => running' = 0
  <2>1. CASE Run
    BY <2>1 DEF Run, MayRun
  <2>2. CASE \E q \in DOMAIN requests : RunLoads(q) \/ RunRepairs(q) \/ RunPrompts(q) \/ RunFinishes(q) \/ Deletes(q) \/ Closes(q)
    BY <2>2 DEF Counted, RunLoads, RunRepairs, RunPrompts, RunFinishes, Deletes, Closes, Forget
  <2>3. CASE Restart
    BY <2>3 DEF Restart
  <2>4. CASE UNCHANGED maps
    BY <2>4 DEF Counted, maps
  <2> QED
    BY <2>1, <2>2, <2>3, <2>4 DEF Next, vars, Steps, NoCredential, OpenLooks, OpenRepairs, Drops, Abort, OpenSession,
       DeleteSession, Close, EndAgents, Works, AskApproval, ToolEnds, Persist, CallTool, AgentEnds, RespondApproval
<1>2. Cardinality(Begun') <= Taken' + Cardinality(Forgotten')
  <2>1. CASE Run \/ OpenSession \/ DeleteSession \/ Close
    BY <2>1, CountAsked
  <2>2. CASE \E q \in DOMAIN requests : Steps(q) \/ NoCredential(q)
    BY <2>2, CountSteps
  <2>3. CASE Restart
    <3>1. \A q \in DOMAIN requests' : requests'[q].step = "over"
      BY <2>3 DEF Restart, Gone
    <3>2. Begun' = {} /\ Forgotten' = {}
      BY <3>1 DEF Begun, Starts, Loading, Repairing, Prompting, Streams, Strays, Ends, In, Forgotten, Closed
    <3>3. Taken' = 0
      BY <2>3 DEF Restart, Taken
    <3> QED
      BY <3>2, <3>3, FS_EmptySet
  <2>4. CASE \E a \in DOMAIN agents : AgentEnds(a)
    <3>1. /\ DOMAIN requests' = DOMAIN requests /\ UNCHANGED <<starting, running>>
          /\ \A q \in DOMAIN requests : /\ requests'[q].kind = requests[q].kind
                                        /\ requests'[q].step = requests[q].step
                                           \/ (requests[q].step = "streaming" /\ requests'[q].step = "finishing")
      <4>1. \A q \in DOMAIN requests : requests[q] \in Request
        BY <1>0, Elements
      <4>2. PICK a : AgentEnds(a)
        BY <2>4
      <4>3. /\ DOMAIN requests' = DOMAIN requests /\ UNCHANGED <<starting, running>>
            /\ \A q \in DOMAIN requests : requests'[q] = IF Tells(q, a) THEN [requests[q] EXCEPT !.step = "finishing"] ELSE requests[q]
        BY <4>2 DEF AgentEnds, maps
      <4> QED
        BY <4>1, <4>3 DEF Request, Tells
    <3>2. Begun' \subseteq Begun
      BY <3>1 DEF Begun, Starts, Loading, Repairing, Prompting, Streams, Strays, Ends, In
    <3>3. Forgotten' = Forgotten
      BY <3>1 DEF Forgotten, Closed
    <3>4. Taken' = Taken
      BY <3>1 DEF Taken
    <3> QED
      BY <3>2, <3>3, <3>4, CountLess DEF Taken
  <2>5. CASE UNCHANGED <<requests, starting, running>>
    <3>1. Begun' = Begun /\ Forgotten' = Forgotten
      BY <2>5 DEF Begun, Starts, Loading, Repairing, Prompting, Streams, Strays, Ends, In, Forgotten, Closed
    <3>2. Taken' = Taken
      BY <2>5 DEF Taken
    <3> QED
      BY <3>1, <3>2 DEF Counted
  <2> QED
    BY <2>1, <2>2, <2>3, <2>4, <2>5 DEF Next, vars, maps, Abort, Works, AskApproval, ToolEnds, Persist, CallTool, RespondApproval
<1> QED
  BY <1>1, <1>2 DEF Counted

LEMMA CountedInit ==
  ASSUME Init
  PROVE  Counted
<1>1. DOMAIN requests = {}
  BY DEF Init
<1>2. Begun = {} /\ Forgotten = {}
  BY <1>1 DEF Begun, Starts, Loading, Repairing, Prompting, Streams, Strays, Ends, In, Forgotten, Closed
<1>3. Taken = 0
  BY DEF Init, Taken
<1> QED
  BY <1>2, <1>3, FS_EmptySet DEF Counted, Init

LEMMA RunsOne ==
  ASSUME IInv, RunsInv, Counted
  PROVE  OneRun
<1>1. requests \in Seq(Request) /\ \A q \in DOMAIN requests : requests[q] \in Request
  BY Positive, Elements
<1>2. IsFiniteSet(Begun) /\ IsFiniteSet(Forgotten) /\ IsFiniteSet(Streaming) /\ IsFiniteSet(Deletions)
  BY <1>1, FiniteRuns
<1>3. Streaming \subseteq Streams \cup Strays
  BY DEF Streaming, Strays
<1>4. Cardinality(Streaming) <= 1 + Cardinality(Forgotten)
  <2>1. Streaming \subseteq Begun
    BY <1>3 DEF Begun
  <2>2. Cardinality(Streaming) <= Cardinality(Begun)
    BY <1>2, <2>1, FS_Subset
  <2>3. Cardinality(Streaming) \in Nat /\ Cardinality(Begun) \in Nat /\ Cardinality(Forgotten) \in Nat
    BY <1>2, FS_CardinalityType
  <2>4. Taken \in {0, 1} /\ Cardinality(Begun) <= Taken + Cardinality(Forgotten)
    BY DEF Counted, Taken
  <2> QED
    BY ONLY <2>2, <2>3, <2>4
<1>5. ASSUME Cardinality(Deleting) <= 1, Closed = {} PROVE Cardinality(Streaming) <= 1
  <2>1. Deletions = Deleting
    BY <1>1 DEF Deletions, Deleting, In, Request
  <2>2. OneDeletion
    BY <1>2, <1>5, <2>1, FewSame DEF OneDeletion
  <2>3. Streaming \subseteq Streams
    BY <1>3, <1>5 DEF RunsInv, RunsRight, StreamRight
  <2>4. \A p, q \in Streaming : p = q
    BY <1>5, <2>2, <2>3 DEF RunsInv, RunsRight, StreamRight, Together
  <2> QED
    BY <2>4, SameFew
<1> QED
  BY <1>4, <1>5 DEF OneRun

\* A session streams one run at a time, however runs, deletions, closes, aborts, failures and restarts overlap,
\* until a second deletion is asked or a close has ended; each deletion that forgets its agent and each close
\* that has ended makes room for one stream more at most, for any number of requests.
THEOREM OneRunAtATime == Spec => []OneRun
<1>1. Init => IInv /\ RunsInv /\ Counted
  BY InvInit, InitRuns, CountedInit, AssistantBounds DEF RunsInv
<1>2. IInv /\ RunsInv /\ Counted /\ [Next]_vars => (IInv /\ RunsInv /\ Counted)'
  BY InvNext, RunsInvNext, CountedNext, AssistantBounds
<1>3. IInv /\ RunsInv /\ Counted => OneRun
  BY RunsOne
<1> QED
  BY <1>1, <1>2, <1>3, PTL DEF Spec

-----------------------------------------------------------------------------
(* Nothing is prompted over an interrupted call *)

Active == {a \in DOMAIN agents : agents[a].busy \/ agents[a].writes # <<>>}
Owned(a) == \A c \in Unanswered : owner[c] = a
Owns(own, a, writes) == \A i \in DOMAIN writes : writes[i].call \in DOMAIN own /\ own[writes[i].call] = a

\* An agent stores its own calls.
WritesRight == \A a \in DOMAIN agents : Owns(owner, a, agents[a].writes)

\* The session stays: no deletion has come further than to its agent, and no close has ended.
Stays == exists /\ Dropping = {} /\ Closed = {}

\* One agent at most works or stores; until a request has its agent nobody does, and what is found
\* unanswered will be repaired. The agent of the session is alone with its unanswered calls.
Undisturbed ==
  /\ \A a, b \in Active : a = b
  /\ Loading # {} => Active = {}
  /\ \A q \in Repairing : Active = {} /\ Unanswered \subseteq requests[q].pending
  /\ \A q \in Prompting : Active \subseteq {Of(q)} /\ Owned(Of(q))
  /\ Active \subseteq {agent} /\ (agent # 0 => Owned(agent))
  /\ \A q \in Prompting : Of(q) = agent
  /\ \A a \in Active : Busy(a) => Owned(a)

CallsRight == WritesRight /\ Unanswered \subseteq DOMAIN owner /\ (Stays => Undisturbed)

\* No request starts that did not, no close is forgotten and no deletion taken back.
Fewer ==
  /\ Loading' \subseteq Loading /\ Repairing' \subseteq Repairing /\ Prompting' \subseteq Prompting
  /\ \A q \in Starts : Of(q)' = Of(q) /\ requests'[q].pending = requests[q].pending
  /\ Closed' = {} => Closed = {}
  /\ Dropping \subseteq Dropping'

LEMMA SameFewer ==
  ASSUME UNCHANGED requests
  PROVE  Fewer
BY DEF Fewer, Loading, Repairing, Prompting, Starts, Closed, Dropping, In, Of

LEMMA GoesFewer ==
  ASSUME IInv, NEW q \in DOMAIN requests, NEW step \in RequestSteps \ {"over"}, Goes(q, step),
         requests[q].kind = "run" => step \notin {"load", "repair", "credential"},
         requests[q].kind = "delete" => requests[q].step # "drop", requests[q].step # "ended"
  PROVE  Fewer
<1>1. /\ Sets(q, requests[q].kind, step)
      /\ \A i \in DOMAIN requests : Of(i)' = Of(i) /\ requests'[i].pending = requests[i].pending
  BY StepSets
<1>2. q \notin Dropping
  BY DEF Dropping, In
<1>3. q \notin Closed
  BY DEF Closed
<1> QED
  BY <1>1, <1>2, <1>3, SetsSub DEF Fewer, Sets

LEMMA AskedFewer ==
  ASSUME IInv, NEW kind \in Kinds \ {"run"}, NEW step \in {"read", "wait"}, NEW a \in Nat, NEW pending \in SUBSET Tools,
         Asked(kind, step, a, pending)
  PROVE  Fewer
<1>0. requests \in Seq(Request)
  BY Positive
<1>1. PICK n : n = Len(requests) + 1
  OBVIOUS
<1>2. PICK r \in Request : r = [kind |-> kind, step |-> step, agent |-> a, pending |-> pending]
  BY DEF Request, RequestSteps
<1>3. requests' = Append(requests, r) /\ r.kind = kind /\ r.step = step
  BY <1>2 DEF Asked
<1>4. Sets(n, kind, step) /\ \A i \in DOMAIN requests : Of(i)' = Of(i)
  BY <1>0, <1>1, <1>3, ComesSets
<1>5. \A i \in DOMAIN requests : requests'[i] = requests[i]
  BY <1>0, <1>3
<1>6. n \notin DOMAIN requests
  BY <1>0, <1>1
<1>7. n \notin Dropping
  BY <1>6, InSub DEF Dropping
<1> QED
  BY <1>4, <1>5, <1>6, <1>7, SetsSub DEF Fewer, Sets

\* Nothing gets worse when nobody begins to work or to store.
LEMMA CalmCalls ==
  ASSUME CallsRight, WritesRight', Unanswered' \subseteq Unanswered,
         \A c \in DOMAIN owner : c \in DOMAIN owner' /\ owner'[c] = owner[c],
         Stays' => /\ exists /\ Fewer
                   /\ Active' \subseteq Active /\ \A a \in Active' : Busy(a)' => Busy(a)
                   /\ agent' = agent
  PROVE  CallsRight'
<1>1. Unanswered' \subseteq DOMAIN owner' /\ \A c \in Unanswered : owner'[c] = owner[c]
  BY DEF CallsRight
<1>2. \A a : Owned(a) => Owned(a)'
  BY <1>1 DEF Owned
<1>3. ASSUME Stays' PROVE Undisturbed'
  <2>1. /\ Fewer /\ Active' \subseteq Active /\ \A a \in Active' : Busy(a)' => Busy(a)
        /\ agent' = agent
    BY <1>3
  <2>2. Undisturbed
    BY <1>3, <2>1 DEF CallsRight, Stays, Fewer
  <2>3. \A a, b \in Active' : a = b
    BY <2>1, <2>2 DEF Undisturbed
  <2>4. Loading' # {} => Active' = {}
    BY <2>1, <2>2 DEF Undisturbed, Fewer
  <2>5. \A q \in Repairing' : Active' = {} /\ Unanswered' \subseteq requests'[q].pending
    BY <2>1, <2>2, SetsSub DEF Undisturbed, Fewer
  <2>6. \A q \in Prompting' : Of(q)' = Of(q) /\ Active' \subseteq {Of(q)} /\ Owned(Of(q))
    BY <2>1, <2>2, SetsSub DEF Undisturbed, Fewer
  <2>7. \A q \in Prompting' : Active' \subseteq {Of(q)'} /\ Owned(Of(q))'
    <3>1. ASSUME NEW q \in Prompting' PROVE \A c \in Unanswered' : owner'[c] = Of(q)'
      BY <1>1, <2>6 DEF Owned
    <3> QED
      BY <2>6, <3>1 DEF Owned
  <2>8. /\ Active' \subseteq {agent'} /\ (agent' # 0 => \A c \in Unanswered' : owner'[c] = agent')
        /\ \A q \in Prompting' : Of(q)' = agent'
    BY <1>1, <2>1, <2>2, <2>6 DEF Undisturbed, Fewer, Owned
  <2>9. \A a \in Active' : Busy(a)' => Owned(a)'
    BY <1>2, <2>1, <2>2 DEF Undisturbed
  <2> QED
    BY <2>3, <2>4, <2>5, <2>7, <2>8, <2>9 DEF Undisturbed, Owned
<1> QED
  BY <1>1, <1>3 DEF CallsRight

LEMMA CalmerCalls ==
  ASSUME CallsRight, UNCHANGED owner, Unanswered' \subseteq Unanswered,
         DOMAIN agents' = DOMAIN agents,
         \A a \in DOMAIN agents : (agents'[a].busy => agents[a].busy) /\ agents'[a].writes = agents[a].writes,
         Stays' => exists /\ Fewer /\ agent' = agent
  PROVE  CallsRight'
<1>1. Active' \subseteq Active
  BY DEF Active
<1>2. \A a \in Active' : Busy(a)' => Busy(a)
  BY DEF Busy, Active
<1>3. WritesRight'
  BY DEF CallsRight, WritesRight, Owns
<1> QED
  BY <1>1, <1>2, <1>3, CalmCalls

\* Repairs and the end of a call leave no call unanswered that was not.
LEMMA RepairedLess ==
  ASSUME transcript \in [Tools -> {"none", "called", "answered", "twice"}], NEW set, transcript' = Repaired(set)
  PROVE  Unanswered' = Unanswered \ set
<1>1. \A c \in Tools : transcript'[c] = IF c \in set THEN Stored(transcript[c], "answered") ELSE transcript[c]
  BY DEF Repaired
<1> QED
  BY <1>1 DEF Unanswered, Stored

LEMMA UnansweredSame == ASSUME UNCHANGED transcript PROVE Unanswered' = Unanswered
  BY DEF Unanswered

\* Steps of requests that begin nothing.
LEMMA RestCalls ==
  ASSUME IInv, CallsRight, NEW q, RunFinishes(q) \/ OpenLooks(q) \/ OpenRepairs(q) \/ NoCredential(q)
  PROVE  CallsRight'
<1>0. q \in DOMAIN requests /\ requests[q].kind \in {"run", "open"} /\ agents \in Seq(AgentState)
  BY Positive DEF RunFinishes, OpenLooks, OpenRepairs, NoCredential, At
<1>5. requests[q].step # "ended"
  BY DEF RunFinishes, OpenLooks, OpenRepairs, NoCredential, At
<1>1. UNCHANGED <<owner, agent, exists>>
  BY DEF RunFinishes, OpenLooks, OpenRepairs, NoCredential, maps
<1>2. Fewer
  <2>1. PICK step \in RequestSteps \ {"over"} : Goes(q, step) /\ (requests[q].kind = "run" => step \notin {"load", "repair", "credential"})
    <3>1. CASE RunFinishes(q) \/ OpenRepairs(q)
      BY <3>1 DEF RunFinishes, OpenRepairs, RequestSteps
    <3>2. CASE NoCredential(q)
      BY <3>2 DEF NoCredential, RequestSteps
    <3>3. CASE OpenLooks(q)
      BY <3>3 DEF OpenLooks, RequestSteps, At
    <3> QED
      BY <3>1, <3>2, <3>3
  <2> QED
    BY <1>0, <1>5, <2>1, GoesFewer
<1>3. Unanswered' \subseteq Unanswered
  <2>1. transcript' = Repaired(requests[q].pending) \/ UNCHANGED transcript
    BY DEF RunFinishes, OpenLooks, OpenRepairs, NoCredential
  <2> QED
    BY <2>1, RepairedLess, UnansweredSame DEF IInv, Typed
<1>4. DOMAIN agents' = DOMAIN agents /\ \A a \in DOMAIN agents : agents'[a].busy = agents[a].busy /\ agents'[a].writes = agents[a].writes
  <2>1. CASE RunFinishes(q)
    BY <1>0, <2>1, BusyKept DEF RunFinishes, Expired
  <2>2. CASE ~RunFinishes(q)
    BY <2>2 DEF OpenLooks, OpenRepairs, NoCredential
  <2> QED
    BY <2>1, <2>2
<1> QED
  BY <1>1, <1>2, <1>3, <1>4, CalmerCalls DEF Stays

LEMMA EndsCalls ==
  ASSUME IInv, CallsRight, NEW q, Deletes(q) \/ Closes(q) \/ Drops(q)
  PROVE  CallsRight'
<1>0. agents \in Seq(AgentState) /\ q \in DOMAIN requests
  BY Positive DEF Deletes, Closes, Drops, At
<1>1. UNCHANGED owner /\ Unanswered' \subseteq Unanswered
  BY DEF Deletes, Closes, Drops, Unanswered
<1>4. requests[q].step # "ended"
  BY DEF Deletes, Closes, Drops, At
<1>2. DOMAIN agents' = DOMAIN agents /\ \A a \in DOMAIN agents : agents'[a].busy = agents[a].busy /\ agents'[a].writes = agents[a].writes
  <2>1. PICK b : b = Of(q)
    OBVIOUS
  <2>2. UNCHANGED agents \/ agents' = Unheard(b, Refuse(approvals, agents))
    BY <2>1 DEF Deletes, Closes, Drops, Forget, Expired, Of
  <2> QED
    BY <1>0, <2>2, BusyKept
<1>3. ASSUME Stays' PROVE exists /\ Fewer /\ agent' = agent
  <2>1. CASE Closes(q)
    <3>1. requests[q].kind = "close" /\ Goes(q, "ended") /\ UNCHANGED exists
      BY <2>1 DEF Closes, At
    <3>2. q \in Closed'
      BY <1>0, <3>1, StepSets DEF Sets, RequestSteps
    <3> QED
      BY <1>3, <3>2 DEF Stays
  <2>2. CASE Deletes(q)
    <3>1. requests[q].kind = "delete" /\ requests[q].step = "wait" /\ UNCHANGED exists
      BY <2>2 DEF Deletes, At
    <3>2. CASE Goes(q, "drop")
      <4>1. q \in Dropping'
        BY <1>0, <3>1, <3>2, StepSets DEF Sets, RequestSteps
      <4> QED
        BY <1>3, <4>1 DEF Stays
    <3>3. CASE ~Goes(q, "drop")
      <4>1. Goes(q, "refused") /\ UNCHANGED agent
        BY <2>2, <3>3 DEF Deletes
      <4> QED
        BY <1>0, <1>3, <1>4, <3>1, <4>1, GoesFewer DEF RequestSteps, Stays
    <3> QED
      BY <3>2, <3>3
  <2>3. CASE Drops(q)
    <3>1. requests[q].kind = "delete" /\ Goes(q, "ended") /\ (exists' => exists /\ Closed # {})
      BY <2>3 DEF Drops, At, Finds
    <3>2. Closed' = Closed \ {q} /\ q \notin Closed
      BY <1>0, <3>1, StepSets DEF Sets, RequestSteps, Closed
    <3> QED
      BY <1>3, <3>1, <3>2 DEF Stays
  <2> QED
    BY <2>1, <2>2, <2>3
<1> QED
  BY <1>1, <1>2, <1>3, CalmerCalls

\* Requests of clients that ask for no run, and answers of people.
LEMMA AskedCalls ==
  ASSUME IInv, CallsRight, OpenSession \/ DeleteSession \/ Close
  PROVE  CallsRight'
<1>0. agents \in Seq(AgentState) /\ agent \in Nat
  BY Positive DEF IInv, Typed
<1>1. UNCHANGED <<owner, exists, transcript, agent>>
  BY DEF OpenSession, DeleteSession, Close, EndAgents, maps
<1>2. Fewer
  <2>1. Asked("open", "read", 0, Unanswered) \/ Asked("delete", "wait", agent, {}) \/ Asked("close", "wait", agent, {})
    BY DEF OpenSession, DeleteSession, Close, EndAgents
  <2>2. Unanswered \in SUBSET Tools
    BY DEF Unanswered
  <2> QED
    BY <1>0, <2>1, <2>2, AskedFewer DEF Kinds
<1>3. DOMAIN agents' = DOMAIN agents /\ \A a \in DOMAIN agents : agents'[a].busy = agents[a].busy /\ agents'[a].writes = agents[a].writes
  BY <1>0, BusyKept DEF OpenSession, DeleteSession, Close, EndAgents
<1>4. Unanswered' = Unanswered
  BY <1>1, UnansweredSame
<1> QED
  BY <1>1, <1>2, <1>3, <1>4, CalmerCalls DEF Stays

LEMMA PeopleCalls ==
  ASSUME IInv, CallsRight, NEW a, Abort \/ AskApproval(a) \/ \E c \in Tools, yes \in BOOLEAN : RespondApproval(c, yes)
  PROVE  CallsRight'
<1>0. agents \in Seq(AgentState) /\ \A b \in DOMAIN agents : agents[b] \in AgentState
  BY Positive, Elements
<1>1. UNCHANGED <<owner, exists, transcript, agent, requests>>
  BY DEF Abort, AskApproval, RespondApproval, maps
<1>2. DOMAIN agents' = DOMAIN agents /\ \A b \in DOMAIN agents : agents'[b].busy = agents[b].busy /\ agents'[b].writes = agents[b].writes
  <2>1. CASE Abort
    <3>1. PICK b : b = requests[running].agent
      OBVIOUS
    <3>2. PICK as : as = Aborted(b, agents)
      OBVIOUS
    <3>3. AllValid(as, owner, executed, approved)
      BY <3>2, AbortedKeeps DEF IInv, Decided
    <3>4. agents' = Refuse(approvals, as) /\ as \in Seq(AgentState)
      BY <2>1, <3>1, <3>2, <3>3 DEF Abort, Expired, AllValid
    <3>5. DOMAIN as = DOMAIN agents /\ \A i \in DOMAIN agents : as[i].busy = agents[i].busy /\ as[i].writes = agents[i].writes
      BY <1>0, <3>2, BusyKept
    <3>6. DOMAIN agents' = DOMAIN as /\ \A i \in DOMAIN as : agents'[i].busy = as[i].busy /\ agents'[i].writes = as[i].writes
      BY <3>4, BusyKept
    <3> QED
      BY <3>5, <3>6
  <2>2. CASE AskApproval(a)
    <3>1. PICK step : agents' = [agents EXCEPT ![a].step = step]
      BY <2>2 DEF AskApproval
    <3> QED
      BY <1>0, <2>2, <3>1 DEF AskApproval, AgentState
  <2>3. ASSUME NEW c \in Tools, NEW yes \in BOOLEAN, RespondApproval(c, yes)
        PROVE  DOMAIN agents' = DOMAIN agents /\ \A b \in DOMAIN agents : agents'[b].busy = agents[b].busy /\ agents'[b].writes = agents[b].writes
    BY <1>0, <2>3 DEF RespondApproval, AgentState
  <2> QED
    BY <2>1, <2>2, <2>3
<1>3. Unanswered' = Unanswered
  BY <1>1, UnansweredSame
<1>4. Fewer
  BY <1>1, SameFewer
<1> QED
  BY <1>1, <1>2, <1>3, <1>4, CalmerCalls DEF Stays

LEMMA AgentEndsCalls ==
  ASSUME IInv, CallsRight, NEW a, AgentEnds(a)
  PROVE  CallsRight'
<1>0. \A q \in DOMAIN requests : requests[q] \in Request
  BY Positive, Elements
<1>1. /\ DOMAIN requests' = DOMAIN requests
      /\ \A q \in DOMAIN requests : requests'[q] = IF Tells(q, a) THEN [requests[q] EXCEPT !.step = "finishing"] ELSE requests[q]
  BY DEF AgentEnds
<1>2. \A q \in DOMAIN requests :
        /\ requests'[q].kind = requests[q].kind /\ requests'[q].agent = requests[q].agent /\ requests'[q].pending = requests[q].pending
        /\ requests'[q].step # requests[q].step => requests[q].step = "streaming" /\ requests'[q].step = "finishing"
  BY <1>0, <1>1 DEF Request, Tells
<1>3. Loading' = Loading /\ Repairing' = Repairing /\ Prompting' = Prompting /\ Dropping' = Dropping
  BY <1>1, <1>2 DEF Loading, Repairing, Prompting, Dropping, In
<1>4. Closed' = Closed
  BY <1>1, <1>2 DEF Closed, In, RequestSteps
<1>5. Fewer
  BY <1>1, <1>2, <1>3, <1>4, SetsSub DEF Fewer, Of
<1>6. UNCHANGED <<owner, exists, transcript, agent>>
  BY DEF AgentEnds, maps
<1>7. DOMAIN agents' = DOMAIN agents /\ \A b \in DOMAIN agents : (agents'[b].busy => agents[b].busy) /\ agents'[b].writes = agents[b].writes
  BY DEF AgentEnds
<1>8. Unanswered' = Unanswered
  BY <1>6, UnansweredSame
<1> QED
  BY <1>5, <1>6, <1>7, <1>8, CalmerCalls DEF Stays

\* A run that may start finds the agent of the session alone, or nobody at work.
LEMMA RunCalls ==
  ASSUME IInv, RunsRight, CallsRight, Run, Closed = {}
  PROVE  CallsRight'
<1>0. requests \in Seq(Request) /\ 0 \notin DOMAIN agents /\ agent \in Nat
  BY Positive DEF IInv, Typed
<1>1. PICK n : n = Len(requests) + 1
  OBVIOUS
<1>2. PICK step \in {"credential", "load"} : step = IF agent # 0 THEN "credential" ELSE "load"
  OBVIOUS
<1>3. PICK r \in Request : r = [kind |-> "run", step |-> step, agent |-> agent, pending |-> {}]
  BY <1>0 DEF Request, Kinds, RequestSteps
<1>4. requests' = Append(requests, r) /\ r.kind = "run" /\ r.step = step /\ r.agent = agent
  BY <1>2, <1>3 DEF Run, Asked
<1>5. Sets(n, "run", step) /\ Of(n)' = agent
  BY <1>0, <1>1, <1>4, ComesSets
<1>6. UNCHANGED <<exists, transcript, agent, agents, owner>> /\ ~starting
  BY DEF Run, MayRun
<1>7. Starts = {}
  BY <1>6 DEF RunsRight, StartRight
<1>8. /\ Prompting' = {i \in {n} : agent # 0} /\ Loading' = {i \in {n} : agent = 0} /\ Repairing' = {}
      /\ Dropping' = Dropping \ {n}
  BY <1>2, <1>5, <1>7, SetsSub DEF Sets
<1>9. n \notin Dropping
  BY <1>0, <1>1, InSub DEF Dropping
<1>10. /\ Unanswered' = Unanswered /\ Active' = Active /\ (\A a : Owned(a)' = Owned(a)) /\ (\A a : Busy(a)' = Busy(a))
       /\ WritesRight' = WritesRight /\ (Stays' => Stays)
  BY <1>6, <1>8, <1>9 DEF Unanswered, Active, Owned, Busy, WritesRight, Stays
<1>11. ASSUME Stays PROVE Undisturbed'
  <2>1. Active \subseteq {agent} /\ (agent # 0 => Owned(agent)) /\ (\A a, b \in Active : a = b) /\ \A a \in Active : Busy(a) => Owned(a)
    BY <1>6, <1>11 DEF CallsRight, Undisturbed
  <2>2. agent = 0 => Active = {}
    BY <1>0, <2>1 DEF Active
  <2>3. Owned(agent') = Owned(agent)
    BY <1>6
  <2>4. \A q \in Prompting' : Active' \subseteq {Of(q)'} /\ (\A c \in Unanswered' : owner'[c] = Of(q)') /\ Of(q)' = agent'
    BY <1>5, <1>6, <1>8, <1>10, <2>1 DEF Owned
  <2>5. Active' \subseteq {agent'} /\ (agent' # 0 => \A c \in Unanswered' : owner'[c] = agent')
    BY <1>6, <1>10, <2>1 DEF Owned
  <2> QED
    BY <1>8, <1>10, <2>1, <2>2, <2>4, <2>5 DEF Undisturbed, Owned
<1> QED
  BY <1>6, <1>10, <1>11 DEF CallsRight

\* What it finds unanswered is all there is.
LEMMA LoadsCalls ==
  ASSUME IInv, RunsRight, CallsRight, NEW q, RunLoads(q)
  PROVE  CallsRight'
<1>0. requests \in Seq(Request)
  BY Positive
<1>1. q \in Loading /\ q \in DOMAIN requests /\ requests[q] \in Request /\ requests[q].kind = "run"
  BY <1>0, Elements DEF RunLoads, At, Loading, In
<1>2. UNCHANGED <<exists, transcript, agent, agents, owner>>
  BY DEF RunLoads
<1>3. PICK step \in {"repair", "refused"} : requests' = [requests EXCEPT ![q].step = step, ![q].pending = Unanswered]
  BY DEF RunLoads
<1>4. PICK r \in Request : r = [requests[q] EXCEPT !.step = step, !.pending = Unanswered]
  BY <1>1 DEF Request, RequestSteps, Unanswered
<1>5. r.kind = "run" /\ r.step = step /\ r.pending = Unanswered
  BY <1>1, <1>4 DEF Request
<1>6. requests' = [requests EXCEPT ![q] = r]
  BY <1>3, <1>4
<1>7. Sets(q, "run", step) /\ requests'[q].pending = Unanswered
  BY <1>0, <1>1, <1>5, <1>6, GoesSets
<1>8. Starts = {q} /\ q \notin Closed /\ q \notin Dropping /\ q \notin Repairing /\ q \notin Prompting
  BY <1>1, SetsSub, SetsApart DEF RunsRight, StartRight, Dropping, In
<1>9. Prompting' = {} /\ Loading' = {} /\ Repairing' \subseteq {q} /\ Dropping' = Dropping /\ Closed' = Closed
  BY <1>3, <1>7, <1>8, SetsSub DEF Sets
<1>10. /\ Unanswered' = Unanswered /\ Active' = Active /\ (\A a : Owned(a)' = Owned(a)) /\ (\A a : Busy(a)' = Busy(a))
       /\ WritesRight' = WritesRight /\ (Stays' => Stays)
  BY <1>2, <1>9 DEF Unanswered, Active, Owned, Busy, WritesRight, Stays
<1>11. ASSUME Stays PROVE Undisturbed'
  <2>1. Active = {} /\ Undisturbed
    BY <1>1, <1>11 DEF CallsRight, Undisturbed
  <2>2. agent' # 0 => \A c \in Unanswered' : owner'[c] = agent'
    BY <1>2, <1>9, <1>10, <2>1 DEF Undisturbed, Owned
  <2> QED
    BY <1>7, <1>9, <1>10, <2>1, <2>2 DEF Undisturbed, Owned
<1> QED
  BY <1>2, <1>10, <1>11 DEF CallsRight

\* Its repair leaves no call unanswered for its new agent.
LEMMA RepairsCalls ==
  ASSUME IInv, RunsRight, CallsRight, NEW q, RunRepairs(q)
  PROVE  CallsRight'
<1>0. requests \in Seq(Request) /\ agents \in Seq(AgentState)
  BY Positive
<1>1. q \in Repairing /\ q \in DOMAIN requests /\ requests[q] \in Request /\ requests[q].kind = "run"
  BY <1>0, Elements DEF RunRepairs, At, Repairing, In
<1>2. UNCHANGED <<exists, owner>>
  BY DEF RunRepairs
<1>3. transcript \in [Tools -> {"none", "called", "answered", "twice"}]
  BY DEF IInv, Typed
<1>4. Unanswered' \subseteq Unanswered
  <2>1. transcript' = transcript \/ transcript' = Repaired(requests[q].pending)
    BY DEF RunRepairs
  <2> QED
    BY <1>3, <2>1, RepairedLess, UnansweredSame
<1>7. PICK found \in BOOLEAN :
        /\ exists /\ ~found => Closed # {}
        /\ IF found \/ requests[q].pending = {}
           THEN /\ transcript' = IF found THEN Repaired(requests[q].pending) ELSE transcript
                /\ agents' = Append(agents, NewAgent)
                /\ requests' = [requests EXCEPT ![q].step = "credential", ![q].agent = Len(agents) + 1]
                /\ agent' = Len(agents) + 1
           ELSE Goes(q, "refused") /\ UNCHANGED <<transcript, agents, agent>>
  BY DEF RunRepairs, Finds
<1>8. q \notin Closed
  BY <1>1 DEF Closed
<1>5. CASE found \/ requests[q].pending = {}
  <2>1. PICK n : n = Len(agents) + 1
    OBVIOUS
  <2>2. agents' = Append(agents, NewAgent) /\ agent' = n
    BY <1>5, <1>7, <2>1
  <2>3. DOMAIN agents' = DOMAIN agents \cup {n} /\ (\A a \in DOMAIN agents : agents'[a] = agents[a]) /\ agents'[n] = NewAgent
    BY <1>0, <2>1, <2>2
  <2>4. n \in Nat
    BY <1>0, <2>1
  <2>5. PICK r \in Request : r = [requests[q] EXCEPT !.step = "credential", !.agent = n]
    BY <1>1, <2>4 DEF Request, RequestSteps
  <2>6. r.kind = "run" /\ r.step = "credential" /\ r.agent = n
    BY <1>1, <2>5 DEF Request
  <2>7. requests' = [requests EXCEPT ![q] = r]
    BY <1>5, <1>7, <2>1, <2>5
  <2>8. Sets(q, "run", "credential") /\ Of(q)' = n
    BY <1>0, <1>1, <2>6, <2>7, GoesSets
  <2>9. Starts = {q} /\ q \notin Dropping
    BY <1>1, SetsSub, SetsApart DEF RunsRight, StartRight, Dropping, In
  <2>10. Prompting' = {q} /\ Loading' = {} /\ Repairing' = {} /\ Dropping' = Dropping
    <3>1. Loading \subseteq {q} /\ Repairing \subseteq {q} /\ Prompting \subseteq {q} /\ q \notin Loading /\ q \notin Prompting
      BY <1>1, <2>9, SetsSub, SetsApart
    <3> QED
      BY <2>8, <2>9, <3>1 DEF Sets
  <2>11. WritesRight'
    BY <1>2, <2>3 DEF CallsRight, WritesRight, Owns, NewAgent
  <2>12. ASSUME Stays' PROVE Undisturbed'
    <3>1. Stays /\ found
      BY <1>2, <1>7, <1>8, <2>8, <2>10, <2>12 DEF Stays, Sets
    <3>2. Active = {} /\ Unanswered \subseteq requests[q].pending
      BY <1>1, <3>1 DEF CallsRight, Undisturbed
    <3>3. Active' = {}
      BY <2>3, <3>2 DEF Active, NewAgent
    <3>4. Unanswered' = {}
      <4>1. transcript' = Repaired(requests[q].pending)
        BY <1>7, <3>1
      <4> QED
        BY <1>3, <3>2, <4>1, RepairedLess
    <3> QED
      BY <2>2, <2>8, <2>10, <3>3, <3>4 DEF Undisturbed, Owned
  <2> QED
    BY <1>2, <1>4, <2>11, <2>12 DEF CallsRight
<1>6. CASE ~(found \/ requests[q].pending = {})
  <2>1. UNCHANGED agents /\ Goes(q, "refused")
    BY <1>6, <1>7
  <2>2. ~Stays'
    <3>1. Closed' = Closed \ {q}
      BY <1>1, <2>1, StepSets DEF Sets, RequestSteps
    <3> QED
      BY <1>2, <1>6, <1>7, <1>8, <3>1 DEF Stays
  <2> QED
    BY <1>2, <1>4, <2>1, <2>2, CalmerCalls
<1> QED
  BY <1>5, <1>6

\* A prompt goes to the agent that is alone.
LEMMA PromptsCalls ==
  ASSUME IInv, RunsRight, CallsRight, NEW q, RunPrompts(q)
  PROVE  CallsRight'
<1>0. requests \in Seq(Request) /\ agents \in Seq(AgentState) /\ 0 \notin DOMAIN agents
  BY Positive
<1>1. q \in Prompting /\ q \in DOMAIN requests /\ requests[q].kind = "run"
  BY DEF RunPrompts, At, Prompting, In
<1>2. PICK a \in DOMAIN agents : a = Of(q)
  BY <1>1 DEF RunsRight, StartRight
<1>3. UNCHANGED <<exists, owner, transcript, agent>> /\ a = requests[q].agent
  BY <1>2 DEF RunPrompts, Of
<1>4. PICK step \in {"finishing", "streaming"} : Goes(q, step)
  BY DEF RunPrompts
<1>9. requests[q].step # "ended"
  BY <1>1 DEF Prompting, In
<1>5. Sets(q, "run", step) /\ Fewer
  BY <1>1, <1>4, <1>9, StepSets, GoesFewer DEF RequestSteps
<1>6. Unanswered' = Unanswered
  BY <1>3, UnansweredSame
<1>7. CASE UNCHANGED agents
  BY <1>3, <1>5, <1>6, <1>7, CalmerCalls DEF Stays
<1>8. CASE ~UNCHANGED agents
  <2>1. agents' = [agents EXCEPT ![a].busy = TRUE, ![a].aborted = FALSE]
    BY <1>3, <1>8 DEF RunPrompts
  <2>2. agents[a] \in AgentState
    BY <1>0, Elements
  <2>3. /\ DOMAIN agents' = DOMAIN agents /\ (\A b \in DOMAIN agents \ {a} : agents'[b] = agents[b])
        /\ agents'[a].writes = agents[a].writes
    BY <2>1, <2>2 DEF AgentState
  <2>4. WritesRight'
    BY <1>3, <2>3 DEF CallsRight, WritesRight
  <2>5. Active' \subseteq Active \cup {a}
    BY <2>3 DEF Active
  <2>6. Starts = {q} /\ q \notin Closed
    BY <1>1, SetsSub, SetsApart DEF RunsRight, StartRight
  <2>7. Loading' = {} /\ Repairing' = {} /\ Prompting' = {}
    BY <1>4, <1>5, <2>6, SetsSub DEF Sets
  <2>8. ASSUME Stays' PROVE Undisturbed'
    <3>1. Undisturbed
      BY <1>3, <1>5, <2>8 DEF Stays, Fewer, CallsRight
    <3>2. Active \subseteq {a} /\ Owned(a) /\ a = agent
      BY <1>1, <1>2, <3>1 DEF Undisturbed
    <3>3. Active' \subseteq {a} /\ \A c \in Unanswered' : owner'[c] = a
      BY <1>3, <1>6, <2>5, <3>2 DEF Owned
    <3>4. agent' = a
      BY <1>3, <3>2
    <3> QED
      BY <2>7, <3>3, <3>4 DEF Undisturbed, Owned
  <2> QED
    BY <1>3, <1>6, <2>4, <2>8 DEF CallsRight
<1> QED
  BY <1>7, <1>8

LEMMA RestartCalls ==
  ASSUME IInv, CallsRight, Restart
  PROVE  CallsRight'
<1>2. DOMAIN requests' = DOMAIN requests /\ \A q \in DOMAIN requests : requests'[q].step = "over"
  BY DEF Restart, Gone
<1>3. \A k, x : "over" \notin x => In(k, x)' = {}
  BY <1>2 DEF In
<1>4. Loading' = {} /\ Repairing' = {} /\ Prompting' = {}
  BY <1>3 DEF Loading, Repairing, Prompting
<1>5. UNCHANGED <<owner, transcript>> /\ agent' = 0
  BY DEF Restart
<1>6. DOMAIN agents' = DOMAIN agents /\ \A a \in DOMAIN agents : agents'[a] = NewAgent
  BY DEF Restart
<1>7. Active' = {} /\ WritesRight'
  BY <1>6 DEF Active, WritesRight, Owns, NewAgent
<1>8. Undisturbed'
  BY <1>4, <1>5, <1>7 DEF Undisturbed
<1>9. Unanswered' = Unanswered
  BY <1>5, UnansweredSame
<1> QED
  BY <1>5, <1>7, <1>8, <1>9 DEF CallsRight

\* A call that an agent makes or ends is its own, and it was busy before.
LEMMA ToolCalls ==
  ASSUME IInv, CallsRight, NEW a, CallTool(a) \/ ToolEnds(a)
  PROVE  CallsRight'
<1>0. a \in DOMAIN agents /\ agents[a] \in AgentState /\ owner \in Seq(Nat) /\ Valid(agents[a], a, owner, executed, approved)
  BY Positive, Elements DEF CallTool, ToolEnds, IInv, Decided, AllValid
<1>1. UNCHANGED <<requests, transcript, exists, agent>>
  BY DEF CallTool, ToolEnds, maps
<1>2. \A c \in DOMAIN owner : c \in DOMAIN owner' /\ owner'[c] = owner[c]
  <2>1. owner' = Append(owner, a) \/ owner' = owner
    BY DEF CallTool, ToolEnds
  <2> QED
    BY <1>0, <2>1
<1>3. PICK write : /\ agents'[a].writes = agents[a].writes \/ agents'[a].writes = Append(agents[a].writes, write)
                   /\ write.call \in DOMAIN owner' /\ owner'[write.call] = a
  <2>1. CASE CallTool(a)
    <3>1. PICK n : n = Len(owner')
      OBVIOUS
    <3>2. owner' = Append(owner, a)
      BY <2>1 DEF CallTool
    <3>3. n \in DOMAIN owner' /\ owner'[n] = a
      BY <1>0, <3>1, <3>2
    <3>4. agents'[a].writes = Told(a, n, "called")
      BY <1>0, <2>1, <3>1 DEF CallTool, AgentState
    <3> QED
      BY <3>3, <3>4 DEF Told
  <2>2. CASE ToolEnds(a)
    <3>1. agents'[a].writes = Told(a, agents[a].tool, "answered")
      BY <1>0, <2>2 DEF ToolEnds, AgentState
    <3>2. agents[a].tool \in DOMAIN owner /\ owner[agents[a].tool] = a
      BY <1>0, <2>2 DEF ToolEnds, Valid
    <3> QED
      BY <1>2, <3>1, <3>2 DEF Told
  <2> QED
    BY <2>1, <2>2
<1>4. /\ DOMAIN agents' = DOMAIN agents /\ (\A b \in DOMAIN agents \ {a} : agents'[b] = agents[b])
      /\ agents[a].busy /\ agents[a].writes \in Seq(Write)
  BY <1>0 DEF CallTool, ToolEnds, Valid, AgentState
<1>5. WritesRight'
  <2>1. \A b \in DOMAIN agents : Owns(owner, b, agents[b].writes)
    BY DEF CallsRight, WritesRight
  <2>2. \A b \in DOMAIN agents : Owns(owner', b, agents[b].writes)
    BY <1>2, <2>1 DEF Owns
  <2>3. \A i \in DOMAIN agents'[a].writes : (i \in DOMAIN agents[a].writes /\ agents'[a].writes[i] = agents[a].writes[i]) \/ agents'[a].writes[i] = write
    BY <1>3, <1>4
  <2>4. Owns(owner', a, agents'[a].writes)
    BY <1>0, <1>3, <2>2, <2>3 DEF Owns
  <2>5. \A b \in DOMAIN agents : Owns(owner', b, agents'[b].writes)
    BY <1>4, <2>2, <2>4
  <2> QED
    BY <1>4, <2>5 DEF WritesRight
<1>6. Active' \subseteq Active /\ \A b \in Active' : Busy(b)' => Busy(b)
  BY <1>0, <1>4 DEF Active, Busy
<1>7. Fewer /\ Unanswered' = Unanswered /\ (Stays' => Stays)
  BY <1>1, SameFewer, UnansweredSame DEF Stays, Fewer
<1> QED
  BY <1>1, <1>2, <1>5, <1>6, <1>7, CalmCalls DEF Stays

\* A message that is stored adds only a call of the one agent that still stores.
LEMMA PersistCalls ==
  ASSUME IInv, CallsRight, NEW a, Persist(a)
  PROVE  CallsRight'
<1>0. /\ a \in DOMAIN agents /\ agents[a] \in AgentState /\ agents[a].writes \in Seq(Write) /\ agents[a].writes # <<>>
      /\ transcript \in [Tools -> {"none", "called", "answered", "twice"}]
  <2>1. a \in DOMAIN agents /\ agents[a].writes # <<>>
    BY DEF Persist
  <2>2. agents[a] \in AgentState
    BY <2>1, Positive, Elements
  <2> QED
    BY <2>1, <2>2 DEF AgentState, IInv, Typed
<1>1. UNCHANGED <<requests, exists, agent, owner, starting, running>>
  BY DEF Persist, maps
<1>2. PICK write : write = Head(agents[a].writes)
  OBVIOUS
<1>3. write \in Write /\ write.call \in DOMAIN owner /\ owner[write.call] = a
  <2>1. 1 \in DOMAIN agents[a].writes /\ write = agents[a].writes[1]
    BY <1>0, <1>2
  <2> QED
    BY <1>0, <2>1 DEF CallsRight, WritesRight, Owns
<1>4. /\ DOMAIN agents' = DOMAIN agents /\ (\A b \in DOMAIN agents \ {a} : agents'[b] = agents[b])
      /\ agents'[a].busy = agents[a].busy /\ agents'[a].writes = Tail(agents[a].writes)
  BY <1>0 DEF Persist, AgentState
<1>5. WritesRight'
  <2>1. \A i \in DOMAIN agents'[a].writes : i + 1 \in DOMAIN agents[a].writes /\ agents'[a].writes[i] = agents[a].writes[i + 1]
    BY <1>0, <1>4
  <2>2. \A b \in DOMAIN agents : Owns(owner, b, agents[b].writes)
    BY DEF CallsRight, WritesRight
  <2>3. Owns(owner, a, agents'[a].writes)
    BY <1>0, <2>1, <2>2 DEF Owns
  <2>4. \A b \in DOMAIN agents : Owns(owner, b, agents'[b].writes)
    BY <1>4, <2>2, <2>3
  <2> QED
    BY <1>1, <1>4, <2>4 DEF WritesRight
<1>6. Active' \subseteq Active /\ a \in Active /\ \A b : Busy(b)' => Busy(b) \/ b \notin Active'
  BY <1>0, <1>4 DEF Active, Busy
<1>7. Fewer /\ (Stays' => Stays)
  BY <1>1, SameFewer DEF Stays, Fewer
<1>8. CASE Unanswered' \subseteq Unanswered
  BY <1>1, <1>5, <1>6, <1>7, <1>8, CalmCalls DEF Stays
<1>9. CASE ~(Unanswered' \subseteq Unanswered)
  <2>1. Unanswered' \subseteq Unanswered \cup {write.call}
    <3>1. transcript' = transcript \/ transcript' = [transcript EXCEPT ![write.call] = Stored(@, write.to)]
      BY <1>2 DEF Persist
    <3> QED
      BY <1>0, <3>1 DEF Unanswered
  <2>2. ASSUME Stays' PROVE Undisturbed'
    <3>1. Undisturbed
      BY <1>7, <2>2 DEF CallsRight
    <3>2. Active \subseteq {a}
      BY <1>6, <3>1 DEF Undisturbed
    <3>3. Owned(a) => \A c \in Unanswered' : owner'[c] = a
      BY <1>1, <1>3, <2>1 DEF Owned
    <3>4. Loading' = {} /\ Repairing' = {}
      BY <1>6, <1>7, <3>1 DEF Undisturbed, Fewer
    <3>5. \A q \in Prompting' : Of(q)' = a /\ Owned(a)
      BY <1>6, <1>7, <3>1, SetsSub DEF Undisturbed, Fewer
    <3>6. agent' = a /\ (a # 0 => Owned(a))
      BY <1>1, <1>6, <1>7, <3>1 DEF Undisturbed, Fewer
    <3>7. \A b \in Active' : b = a /\ (Busy(b)' => Owned(a))
      BY <1>6, <3>1, <3>2 DEF Undisturbed
    <3> QED
      BY <3>3, <3>4, <3>5, <3>6, <3>7 DEF Undisturbed, Owned
  <2> QED
    BY <1>1, <1>3, <1>5, <2>1, <2>2 DEF CallsRight
<1> QED
  BY <1>8, <1>9

\* Once a close has ended only agents and their calls matter.
LEMMA ClosedCalls ==
  ASSUME IInv, CallsRight, Closed' # {}, NEW q, Run \/ RunLoads(q) \/ RunRepairs(q) \/ RunPrompts(q)
  PROVE  CallsRight'
<1>0. agents \in Seq(AgentState) /\ \A a \in DOMAIN agents : agents[a] \in AgentState
  BY Positive, Elements
<1>1. UNCHANGED owner
  BY DEF Run, RunLoads, RunRepairs, RunPrompts
<1>2. Unanswered' \subseteq Unanswered
  <2>1. UNCHANGED transcript \/ transcript' = Repaired(requests[q].pending)
    BY DEF Run, RunLoads, RunRepairs, RunPrompts
  <2> QED
    BY <2>1, RepairedLess, UnansweredSame DEF IInv, Typed
<1>3. \A a \in DOMAIN agents' : agents'[a].writes = <<>> \/ (a \in DOMAIN agents /\ agents'[a].writes = agents[a].writes)
  <2>1. CASE UNCHANGED agents
    BY <2>1
  <2>2. CASE agents' = Append(agents, NewAgent)
    BY <1>0, <2>2 DEF NewAgent
  <2>3. CASE RunPrompts(q) /\ ~UNCHANGED agents
    <3>1. PICK b : agents' = [agents EXCEPT ![b].busy = TRUE, ![b].aborted = FALSE]
      BY <2>3 DEF RunPrompts
    <3> QED
      BY <1>0, <3>1 DEF AgentState
  <2> QED
    BY <2>1, <2>2, <2>3 DEF Run, RunLoads, RunRepairs
<1>4. WritesRight'
  BY <1>1, <1>3 DEF CallsRight, WritesRight, Owns
<1> QED
  BY <1>1, <1>2, <1>4 DEF CallsRight, Stays

LEMMA InitCalls ==
  ASSUME Init
  PROVE  CallsRight
<1>1. DOMAIN requests = {} /\ DOMAIN agents = {} /\ Unanswered = {}
  BY DEF Init, Unanswered
<1>2. Loading = {} /\ Repairing = {} /\ Prompting = {} /\ Active = {}
  BY <1>1 DEF Loading, Repairing, Prompting, Active, In
<1>3. agent = 0
  BY DEF Init
<1> QED
  BY <1>1, <1>2, <1>3 DEF CallsRight, WritesRight, Undisturbed

LEMMA CallsNext ==
  ASSUME IInv, RunsInv, CallsRight, [Next]_vars
  PROVE  CallsRight'
<1>1. CASE UNCHANGED vars
  <2>1. Unanswered' = Unanswered /\ Fewer /\ UNCHANGED <<owner, agents, exists, agent>>
    BY <1>1, UnansweredSame, SameFewer DEF vars, maps
  <2> QED
    BY <2>1, CalmerCalls DEF Stays
<1>6. ASSUME NEW q, Run \/ RunLoads(q) \/ RunRepairs(q) \/ RunPrompts(q) PROVE CallsRight'
  <2>1. CASE Closed' = {} /\ ~Restart
    <3>1. Closed = {} /\ RunsRight
      BY <2>1, ClosedStays DEF RunsInv
    <3> QED
      BY <1>6, <3>1, RunCalls, LoadsCalls, RepairsCalls, PromptsCalls
  <2>3. CASE Restart
    BY <2>3, RestartCalls
  <2>2. CASE Closed' # {}
    BY <1>6, <2>2, ClosedCalls
  <2> QED
    BY <2>1, <2>2, <2>3
<1>2. CASE Run \/ OpenSession \/ DeleteSession \/ Close \/ Restart
  BY <1>2, <1>6, AskedCalls, RestartCalls
<1>3. CASE Abort \/ \E c \in Tools, yes \in BOOLEAN : RespondApproval(c, yes)
  BY <1>3, PeopleCalls
<1>4. CASE \E q \in DOMAIN requests : Steps(q) \/ NoCredential(q)
  BY <1>4, <1>6, RestCalls, EndsCalls DEF Steps
<1>5. CASE \E a \in DOMAIN agents : Works(a) \/ CallTool(a) \/ AgentEnds(a)
  BY <1>5, PeopleCalls, ToolCalls, PersistCalls, AgentEndsCalls DEF Works
<1> QED
  BY <1>1, <1>2, <1>3, <1>4, <1>5 DEF Next

LEMMA CallsPrompted ==
  ASSUME CallsRight
  PROVE  NothingInterrupted
<1>1. ~Some({"delete"}, "drop") => Dropping = {}
  BY DEF Some, Dropping, In
<1>2. \A a \in DOMAIN agents : agents[a].busy => a \in Active
  BY DEF Active
<1> QED
  BY <1>1, <1>2 DEF CallsRight, Stays, Undisturbed, Busy, Owned, NothingInterrupted

\* Until a close has ended an agent is prompted only over a conversation in which every call without a result is its own:
\* whatever an earlier agent left, by a crash or a message that was not stored, is repaired first, and
\* nobody else comes to work or to store in between.
THEOREM PromptsNothingInterrupted == Spec => []NothingInterrupted
<1>1. Init => IInv /\ RunsInv /\ CallsRight
  BY InvInit, InitRuns, InitCalls, AssistantBounds DEF RunsInv
<1>2. IInv /\ RunsInv /\ CallsRight /\ [Next]_vars => (IInv /\ RunsInv /\ CallsRight)'
  BY InvNext, RunsInvNext, CallsNext, AssistantBounds
<1>3. CallsRight => NothingInterrupted
  BY CallsPrompted
<1> QED
  BY <1>1, <1>2, <1>3, PTL DEF Spec

=============================================================================
