------------------------------ MODULE Executors -------------------------------
(***************************************************************************)
(* The executors (runtime/executor): a worker drives one process, the      *)
(* Codex app server or Claude Code, through Turns that time out, stall,    *)
(* ask for approvals, are steered and interrupted, while the process may   *)
(* answer late, emit garbage or die. Codex is driven by requests that are  *)
(* answered and by a pump for each Turn; Claude Code by prompts, each of   *)
(* which it answers by one result, and by one pump for the worker.         *)
(*                                                                         *)
(* The process is external. What it says and does is a choice, as far as   *)
(* the protocol goes; contents of messages are left out. The caller is the *)
(* orchestration: it starts a Turn after a completed one only, and closes  *)
(* the worker in all other cases.                                          *)
(***************************************************************************)
EXTENDS Integers, Sequences, SequencesExt

CONSTANTS
  Refs,       \* the interventions the process may ask for
  MaxTurns,   \* bound: Turns of a worker
  MaxSteers,  \* bound: prompts sent into a Turn
  MaxFaults,  \* bound: broken lines, refused requests, wrong inits and Turns of other agents
  None

VARIABLES
  provider,  \* "codex" or "claude"
  receipt,   \* the version of Claude Code confirms interrupts
  worker,    \* "opening", "open", "closing" or "closed"
  turns,     \* the Turns so far: what the run handle keeps
  calls,     \* requests that wait for an answer: [kind, turn, answer]
  inbox,     \* messages that have been read from the process and not handled
  init,      \* the worker knows the session: of Codex the thread, of Claude the init message
  stream,    \* "open", "error" or "closed"
  process,   \* "running", "killed" or "gone"
  work,      \* the Turns of the prompts the process has not finished
  asks,      \* the interventions the process waits for
  steers, faults, used  \* history for the bounds; used: interventions that were asked for

ASSUME ExecutorBounds == {MaxTurns, MaxSteers, MaxFaults} \subseteq Nat

\* A request without an answer is told from one that has an answer.
ASSUME ExecutorNone == None \notin {"ok", "error"}

outside == <<process, work, asks>>
bounds == <<steers, faults, used>>
vars == <<provider, receipt, worker, turns, calls, inbox, init, stream, outside, bounds>>

Codex == provider = "codex"
Active == {t \in DOMAIN turns : turns[t].state = "active"}
Latest == Len(turns)
Writable == stream = "open" /\ process = "running"

NewTurn(state) ==
  [state |-> state, error |-> None, pending |-> {}, stall |-> state = "active",
   interrupted |-> FALSE, queued |-> 1]

CallOf(kind, t) == [kind |-> kind, turn |-> t, answer |-> None]

-----------------------------------------------------------------------------
(* Run handles *)

\* MUTANT: the timer is set although an intervention is open.
StallArmedBug(pending) == TRUE

\* resetStall and touch: no timer while the process waits for an answer.
StallArmed(pending) == pending = {}

Touched(turn) == [turn EXCEPT !.stall = StallArmed(turn.pending)]

\* finish: only the first outcome counts.
Finished(turn, outcome, error) ==
  IF turn.state = "active"
  THEN [turn EXCEPT !.state = outcome, !.error = error, !.stall = FALSE] ELSE turn

\* MUTANT: the first result ends the Turn.
LastResultBug(turn) == TRUE

\* result: the prompts of a Turn have one result each.
LastResult(turn) == turn.queued <= 1

\* MUTANT: the end of the process is not noticed by the run handle.
ExitFinishedBug(turn) == turn

\* The process has gone: a Turn that is still active has failed, or is interrupted if it was told.
ExitFinished(turn) ==
  IF turn.interrupted THEN Finished(turn, "interrupted", None) ELSE Finished(turn, "failed", "exited")

Requested(turn, ref) == [turn EXCEPT !.pending = @ \cup {ref}, !.stall = FALSE]

Responded(turn, ref) == Touched([turn EXCEPT !.pending = @ \ {ref}])

\* turn/completed of Codex, result of Claude Code.
Completed(turn, status) ==
  IF Codex THEN Finished(turn, status, IF status = "failed" THEN "turn" ELSE None)
  ELSE LET outcome == IF turn.interrupted THEN "interrupted" ELSE status
       IN  IF LastResult(turn) THEN Finished(turn, outcome, None)
                               ELSE Touched([turn EXCEPT !.queued = @ - 1])

-----------------------------------------------------------------------------
(* Requests *)

StartsTurn(c) == c.kind \in {"thread", "turn"}

\* A request that failed: opening and starting fail with it, the answer of others is dropped.
Refused(cs) ==
  /\ worker' = IF \E c \in cs : c.kind = "initialize" THEN "closing" ELSE worker
  /\ turns' = [t \in DOMAIN turns |->
                 IF \E c \in cs : c.turn = t /\ StartsTurn(c)
                 THEN [turns[t] EXCEPT !.state = "refused"] ELSE turns[t]]

\* The process takes a request and answers it; a Turn may end before the answer is read. It is at
\* work on one Turn at a time: an interrupt drops all prompts there are.
Handle(c) ==
  /\ process = "running" /\ c \in calls /\ c.answer = None
  /\ \/ /\ faults < MaxFaults /\ faults' = faults + 1
        /\ calls' = (calls \ {c}) \cup {[c EXCEPT !.answer = "error"]}
        /\ UNCHANGED <<work, asks, inbox>>
     \/ LET known == c.turn \in Range(work)
            ends == c.kind = "interrupt" /\ known
        IN  /\ calls' = (calls \ {c}) \cup
                 {[c EXCEPT !.answer = IF c.kind = "steer" /\ ~known THEN "error" ELSE "ok"]}
            /\ work' = IF c.kind = "turn" THEN Append(work, c.turn) ELSE IF ends THEN <<>> ELSE work
            /\ asks' = IF ends THEN {} ELSE asks
            /\ inbox' = IF ends THEN Append(inbox, [kind |-> "done", turn |-> c.turn, status |-> "interrupted"])
                                ELSE inbox
            /\ UNCHANGED faults
  /\ UNCHANGED <<provider, receipt, worker, turns, init, stream, process, steers, used>>

\* The answer is read. A thread is followed by its Turn; the answer to turn/start makes the handle.
Answered(c) ==
  /\ c \in calls /\ c.answer # None
  /\ IF c.answer = "error"
     THEN Refused({c}) /\ calls' = calls \ {c} /\ UNCHANGED init
     ELSE /\ worker' = IF c.kind = "initialize" THEN "open" ELSE worker
          /\ init' = (init \/ c.kind = "thread")
          /\ turns' = IF c.kind = "turn" THEN [turns EXCEPT ![c.turn] = NewTurn("active")]
                      ELSE IF c.kind = "thread" /\ ~Writable
                      THEN [turns EXCEPT ![c.turn].state = "refused"] ELSE turns
          /\ calls' = (calls \ {c}) \cup
               (IF c.kind = "thread" /\ Writable THEN {CallOf("turn", c.turn)} ELSE {})
  /\ UNCHANGED <<provider, receipt, inbox, stream, outside, bounds>>

\* MUTANT: requests wait for ever.
MayExpireBug(c) == FALSE

MayExpire(c) == c \in calls

\* The read timeout; the process may still do what it was asked for.
Expire(c) ==
  /\ MayExpire(c)
  /\ calls' = calls \ {c} /\ Refused({c})
  /\ UNCHANGED <<provider, receipt, inbox, init, stream, outside, bounds>>

-----------------------------------------------------------------------------
(* The caller *)

\* openWorker has started the process.
Open ==
  /\ worker = "opening" /\ calls = {} /\ turns = <<>>
  /\ IF Codex THEN /\ worker' = IF Writable THEN worker ELSE "closing"
                   /\ calls' = IF Writable THEN {CallOf("initialize", 0)} ELSE {}
              ELSE worker' = "open" /\ UNCHANGED calls
  /\ UNCHANGED <<provider, receipt, turns, inbox, init, stream, outside, bounds>>

\* startTurn, which the caller calls after a completed Turn only.
MayStart ==
  /\ worker = "open" /\ Len(turns) < MaxTurns
  /\ \A t \in DOMAIN turns : turns[t].state = "completed"

\* Codex is asked for the thread, once, and for the Turn.
StartCodexTurn ==
  /\ Codex /\ MayStart
  /\ turns' = Append(turns, NewTurn(IF Writable THEN "starting" ELSE "refused"))
  /\ calls' = IF Writable THEN calls \cup {CallOf(IF init THEN "turn" ELSE "thread", Len(turns) + 1)}
              ELSE calls
  /\ UNCHANGED <<provider, receipt, worker, inbox, init, stream, outside, bounds>>

\* Claude Code makes the handle at once and is sent the prompt; if that throws the caller has no
\* handle, and closes the worker.
StartClaudeTurn ==
  /\ ~Codex /\ MayStart
  /\ turns' = Append(turns, NewTurn("active"))
  /\ work' = IF Writable THEN Append(work, Len(turns) + 1) ELSE work
  /\ UNCHANGED <<provider, receipt, worker, calls, inbox, init, stream, process, asks, bounds>>

\* terminate: the process is told to stop, and killed if it does not.
Terminated == IF process = "running" THEN "killed" ELSE process

\* interrupt. Claude Code without the receipt is terminated.
Interrupt(t) ==
  /\ t = Latest /\ t \in Active /\ worker = "open" /\ ~turns[t].interrupted
  /\ turns' = [turns EXCEPT ![t].interrupted = ~Codex]
  /\ ~\E c \in calls : c.kind = "interrupt"
  /\ IF Codex \/ (init /\ receipt)
     THEN calls' = (IF Writable THEN calls \cup {CallOf("interrupt", t)} ELSE calls) /\ UNCHANGED process
     ELSE process' = Terminated /\ UNCHANGED calls
  /\ UNCHANGED <<provider, receipt, worker, inbox, init, stream, work, asks, bounds>>

Queued(turn) == Touched([turn EXCEPT !.queued = @ + 1])

\* steer. Claude Code queues the prompt, and it is queued too if it cannot be sent.
Steer(t) ==
  /\ t \in Active /\ worker = "open" /\ steers < MaxSteers
  /\ steers' = steers + 1
  /\ IF Codex
     THEN /\ calls' = (IF Writable THEN calls \cup {CallOf("steer", t)} ELSE calls)
          /\ UNCHANGED <<turns, work>>
     ELSE /\ turns' = [turns EXCEPT ![t] = Queued(@)]
          /\ work' = (IF Writable THEN Append(work, t) ELSE work)
          /\ UNCHANGED calls
  /\ UNCHANGED <<provider, receipt, worker, inbox, init, stream, process, asks, faults, used>>

\* respondToIntervention.
Respond(t, ref) ==
  /\ t \in Active /\ ref \in turns[t].pending /\ Writable
  /\ turns' = [turns EXCEPT ![t] = Responded(@, ref)]
  /\ asks' = asks \ {ref}
  /\ UNCHANGED <<provider, receipt, worker, calls, inbox, init, stream, process, work, bounds>>

\* close. The Turn of Codex is over when its process has gone.
CloseCodex ==
  /\ Codex /\ worker = "open"
  /\ worker' = "closing"
  /\ UNCHANGED <<provider, receipt, turns, calls, inbox, init, stream, outside, bounds>>

\* Claude Code settles its Turn first.
CloseClaude ==
  /\ ~Codex /\ worker = "open"
  /\ worker' = "closing"
  /\ turns' = [t \in DOMAIN turns |-> Finished(turns[t], "interrupted", None)]
  /\ UNCHANGED <<provider, receipt, calls, inbox, init, stream, outside, bounds>>

\* The transport is closed when the process has gone.
Closed ==
  /\ worker = "closing" /\ process = "gone"
  /\ worker' = "closed"
  /\ UNCHANGED <<provider, receipt, turns, calls, inbox, init, stream, outside, bounds>>

-----------------------------------------------------------------------------
(* Timers *)

\* The Turn fails; Codex is asked to stop, and nobody waits for its answer.
TimedOut(t, error) ==
  /\ turns' = [turns EXCEPT ![t] = Finished(@, "failed", error)]
  /\ calls' = IF Codex /\ Writable THEN calls \cup {CallOf("interrupt", t)} ELSE calls
  /\ UNCHANGED <<provider, receipt, worker, inbox, init, stream, outside, bounds>>

TurnTimeout(t) == t \in Active /\ TimedOut(t, "timed_out")

Stall(t) == t \in Active /\ turns[t].stall /\ TimedOut(t, "stalled")

-----------------------------------------------------------------------------
(* The process *)

Emit(message) == stream = "open" /\ inbox' = Append(inbox, message)

\* Claude Code says who it is before anything else; it may not be what was expected.
SayInit ==
  /\ ~Codex /\ process = "running" /\ work # <<>> /\ ~init /\ ~\E i \in DOMAIN inbox : inbox[i].kind = "init"
  /\ \E good \in BOOLEAN :
       /\ ~good => faults < MaxFaults
       /\ faults' = IF good THEN faults ELSE faults + 1
       /\ Emit([kind |-> "init", good |-> good])
  /\ UNCHANGED <<provider, receipt, worker, turns, calls, init, stream, outside, steers, used>>

Ask(ref) ==
  /\ process = "running" /\ work # <<>> /\ ref \notin used
  /\ Emit([kind |-> "ask", turn |-> Head(work), ref |-> ref])
  /\ asks' = asks \cup {ref} /\ used' = used \cup {ref}
  /\ UNCHANGED <<provider, receipt, worker, turns, calls, init, stream, process, work, steers, faults>>

\* A prompt is finished when no intervention is open.
Finish(status) ==
  /\ process = "running" /\ work # <<>> /\ asks = {}
  /\ work' = Tail(work)
  /\ Emit([kind |-> "done", turn |-> Head(work), status |-> status])
  /\ UNCHANGED <<provider, receipt, worker, turns, calls, init, stream, process, asks, bounds>>

\* An agent that the agent has started ends its own Turn, in a thread nobody knows here.
NestedEnds ==
  /\ Codex /\ process = "running" /\ work # <<>> /\ faults < MaxFaults
  /\ faults' = faults + 1
  /\ Emit([kind |-> "done", turn |-> 0, status |-> "completed"])
  /\ UNCHANGED <<provider, receipt, worker, turns, calls, init, stream, outside, steers, used>>

\* A line that cannot be parsed, or a broken pipe: the stream fails and the process is killed.
Garble ==
  /\ process = "running" /\ stream = "open" /\ faults < MaxFaults
  /\ stream' = "error" /\ process' = "killed" /\ faults' = faults + 1 /\ inbox' = <<>>
  /\ turns' = [t \in DOMAIN turns |-> Finished(turns[t], "failed", "protocol")]
  /\ UNCHANGED <<provider, receipt, worker, calls, init, work, asks, steers, used>>

\* The pump of a Turn that Codex has started in the meantime finds the stream broken.
PumpFails(t) ==
  /\ Codex /\ stream = "error" /\ t \in Active
  /\ turns' = [turns EXCEPT ![t] = Finished(@, "failed", "protocol")]
  /\ UNCHANGED <<provider, receipt, worker, calls, inbox, init, stream, outside, bounds>>

\* A stream that failed before stays so.
StreamEnded == IF stream = "open" THEN "closed" ELSE stream

\* The end of the process: open requests fail, the stream ends, the active Turn has its outcome.
\* What was received before has been handled.
Exit ==
  /\ process # "gone" /\ (Active # {} => inbox = <<>>)
  /\ process' = "gone" /\ work' = <<>> /\ asks' = {}
  /\ calls' = {}
  /\ stream' = StreamEnded
  /\ worker' = IF \E c \in calls : c.kind = "initialize" THEN "closing" ELSE worker
  /\ turns' = [t \in DOMAIN turns |->
                 IF turns[t].state = "starting" THEN [turns[t] EXCEPT !.state = "refused"]
                 ELSE ExitFinished(turns[t])]
  /\ UNCHANGED <<provider, receipt, inbox, init, bounds>>

-----------------------------------------------------------------------------
(* The pump *)

\* belongsToTurn: Codex names the Turn; Claude Code does not.
Belongs(message, t) == Codex => message.turn = t

\* One message. Between two Turns those of Codex wait, those of Claude Code are dropped.
Receive ==
  /\ inbox # <<>> /\ (Codex => Active # {})
  /\ inbox' = Tail(inbox)
  /\ LET message == Head(inbox)
     IN  IF Active = {} THEN UNCHANGED <<turns, init>>
         ELSE LET t == CHOOSE t \in Active : TRUE
              IN  IF message.kind = "init"
                  THEN /\ turns' = [turns EXCEPT ![t] = IF message.good THEN Touched(@)
                                                        ELSE Finished(@, "failed", "init")]
                       /\ init' = (init \/ message.good)
                  ELSE /\ turns' = IF ~Belongs(message, t) THEN turns
                                   ELSE [turns EXCEPT ![t] = IF message.kind = "ask"
                                                             THEN Requested(@, message.ref)
                                                             ELSE Completed(@, message.status)]
                       /\ UNCHANGED init
  /\ UNCHANGED <<provider, receipt, worker, calls, stream, outside, bounds>>

-----------------------------------------------------------------------------
Init ==
  /\ provider \in {"codex", "claude"} /\ receipt \in BOOLEAN /\ (Codex => receipt)
  /\ worker = "opening" /\ turns = <<>> /\ calls = {} /\ inbox = <<>> /\ init = FALSE
  /\ stream = "open" /\ process = "running" /\ work = <<>> /\ asks = {}
  /\ steers = 0 /\ faults = 0 /\ used = {}

Program ==
  \/ Receive
  \/ \E c \in calls : Answered(c) \/ Expire(c)
  \/ Open \/ Closed
  \/ \E t \in DOMAIN turns : TurnTimeout(t) \/ Stall(t) \/ PumpFails(t)

Next ==
  \/ Program
  \/ StartCodexTurn \/ StartClaudeTurn \/ CloseCodex \/ CloseClaude
  \/ \E t \in DOMAIN turns :
       \/ Interrupt(t) \/ Steer(t)
       \/ \E ref \in Refs : Respond(t, ref)
  \/ \E c \in calls : Handle(c)
  \/ SayInit \/ NestedEnds \/ Garble \/ Exit
  \/ \E ref \in Refs : Ask(ref)
  \/ \E status \in {"completed", "failed"} : Finish(status)

\* Timers fire and handlers run. A process that is killed, or closed, ends. Nothing is assumed of a
\* running process, nor of the people who are asked.
Fairness ==
  /\ WF_vars(Receive) /\ WF_vars(Open) /\ WF_vars(Closed)
  /\ WF_vars(\E c \in calls : Expire(c))
  /\ WF_vars(\E t \in DOMAIN turns : TurnTimeout(t))
  /\ WF_vars((process = "killed" \/ worker = "closing") /\ Exit)

Spec == Init /\ [][Next]_vars /\ Fairness

-----------------------------------------------------------------------------
(* Properties *)

States == {"starting", "refused", "active", "completed", "failed", "interrupted"}

\* Every variable keeps its type, and a Turn that is starting has a request that can fail it.
TypeOK ==
  /\ worker \in {"opening", "open", "closing", "closed"}
  /\ stream \in {"open", "error", "closed"} /\ process \in {"running", "killed", "gone"}
  /\ \A t \in DOMAIN turns :
       /\ turns[t].state \in States /\ turns[t].pending \subseteq Refs
       /\ turns[t].queued \in 1..(1 + MaxSteers)
       /\ turns[t].state = "starting" => \E c \in calls : c.turn = t /\ c.kind \in {"thread", "turn"}
  /\ Range(work) \subseteq DOMAIN turns /\ asks \subseteq used

\* A Turn is reported completed when the process is at work on none of its prompts: the next Turn,
\* a verification or a person that takes the workspace over finds nobody writing in it.
CompletedIsIdle ==
  \A t \in DOMAIN turns : turns[t].state = "completed" => t \notin Range(work)

\* The stall timer watches an active Turn exactly when no answer is owed to the process: a process
\* that hangs is noticed after each answer, and nobody loses a Turn by thinking about a question.
StallWatches ==
  \A t \in Active : turns[t].stall <=> turns[t].pending = {}

\* What the process waits for can be answered: while its Turn is active an intervention is on its
\* way or pending, through answers, steering and messages in between.
AsksAreOpen ==
  \A t \in Active :
    Range(work) = {t} /\ stream = "open" => asks \subseteq
      turns[t].pending \cup {inbox[i].ref : i \in {j \in DOMAIN inbox : inbox[j].kind = "ask"}}

\* Every request has its answer, an error included, whatever the process does.
CallsReturn ==
  \A kind \in {"initialize", "thread", "turn", "interrupt", "steer"} :
    (\E c \in calls : c.kind = kind) ~> ~\E c \in calls : c.kind = kind

\* The Turns of which the caller has got a handle; only the latest may have none.
Started == {t \in DOMAIN turns : turns[t].state \notin {"starting", "refused"}}
Outcomes == [t \in Started |-> turns[t].state]

\* Both executors keep the contract of an Attempt Worker: one Turn at a time, one outcome for each,
\* always one in the end, and nothing at work when close has returned.
Turns == INSTANCE AgentTurns WITH
  turns <- Outcomes, closed <- worker = "closed"

KeepsContract == Turns!Spec

\* The part of the contract that says what never happens.
KeepsOrder == Turns!Safety

\* Questions are held open: the process waits for nothing that cannot be answered, and the stall
\* timer is on exactly while nothing is asked.
QuestionsHeld == TypeOK /\ StallWatches /\ AsksAreOpen

=============================================================================
