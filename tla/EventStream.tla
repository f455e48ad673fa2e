----------------------------- MODULE EventStream -----------------------------
(***************************************************************************)
(* The events of the desktop host on their way to a workbench: the host    *)
(* numbers the events of its projects (runtime/host), the HTTP server      *)
(* streams them (runtime/http), the transport reconnects and resumes by    *)
(* number (runtime-client), the workbench reads a snapshot for each event  *)
(* and sends commands that say which snapshot they were given on           *)
(* (web/stores/workbench).                                                 *)
(*                                                                         *)
(* Of the log of a project only the number of its events matters here;     *)
(* the module EventLog says how it survives a crash.                       *)
(***************************************************************************)
EXTENDS Integers, Sequences, FiniteSets

CONSTANTS
  Projects,     \* project ids, as numbers: the order of the registry
  MaxEvents,    \* bound: events of all projects
  MaxBreaks,    \* bound: connections lost
  MaxRestarts,  \* bound: restarts of the host
  MaxRemovals,  \* bound: projects removed
  MaxCommands,  \* bound: commands given
  None

VARIABLES
  logs,        \* project -> the number of events in its log
  open,        \* the projects of the registry
  events,      \* host: #events, each <<project, its number in the log>>
  hostUp,
  stream,      \* server: the open stream, or None
  after,       \* transport: the last sequence number it has seen
  link,        \* transport: "down" or "open"
  shown,       \* workbench: the snapshot it shows, or None
  asked,       \* server: the refreshes it has not answered yet
  answers,     \* the snapshots on their way to the workbench
  command,     \* the command under way
  got,         \* the domain events the workbench received, in order
  breaks, restarts, given,
  newest       \* history: of each project, the most events that were ever shown

ASSUME ProjectsAreNumbered == Projects \subseteq Nat
ASSUME StreamBounds ==
  {MaxEvents, MaxBreaks, MaxRestarts, MaxRemovals, MaxCommands} \subseteq Nat

Views == [seen : [Projects -> Nat], sequence : Nat]
Frames == [kind : {"snapshot"}, view : Views]
            \cup [kind : {"domain"}, sequence : Nat, event : Projects \X Nat]
Streams == [last : Nat, buffer : Seq(Frames)]

ASSUME StreamNone == None \notin Streams \cup Views

host == <<logs, open, events, hostUp>>
screen == <<shown, newest>>
client == <<after, link, screen, asked, answers, got>>
bounds == <<breaks, restarts, given>>
vars == <<host, stream, client, command, bounds>>

Idle == [pc |-> "idle"]

\* snapshot(): what the host knows, and how many events led to it.
Snapshot == [seen |-> [p \in Projects |-> IF p \in open THEN logs[p] ELSE 0],
             sequence |-> Len(events)]

Domain(i) == [kind |-> "domain", sequence |-> i, event |-> events'[i]]

\* The elements of a finite set, in an order.
InOrder(set, Before(_, _)) ==
  CHOOSE s \in [1..Cardinality(set) -> set] :
    \A i, j \in 1..Cardinality(set) : i < j => Before(s[i], s[j])

-----------------------------------------------------------------------------
(* The host and the stream *)

\* MUTANT: an event with the number of the last one passes.
PassesBug(sequence, last) == sequence >= last

\* send: what the client has seen is not sent again.
Passes(sequence, last) == sequence > last

\* #appendProjectEvent, to the list of the host and to its listeners.
AppendEvent(p) ==
  /\ logs' = [logs EXCEPT ![p] = @ + 1]
  /\ events' = Append(events, <<p, logs[p] + 1>>)
  /\ stream' = IF stream # None /\ Passes(Len(events) + 1, stream.last)
               THEN [last |-> Len(events) + 1, buffer |-> Append(stream.buffer, Domain(Len(events) + 1))]
               ELSE stream

\* The Runtime of a project commits an event.
Publish(p) ==
  /\ hostUp /\ p \in open /\ Len(events) < MaxEvents
  /\ AppendEvent(p)
  /\ UNCHANGED <<open, hostUp, client, command, bounds>>

\* events(after), past the numbers the client has.
Backlog ==
  LET passing == InOrder({i \in 1..Len(events) : Passes(i, after)}, <)
  IN  [j \in DOMAIN passing |->
         [kind |-> "domain", sequence |-> passing[j], event |-> events[passing[j]]]]

\* #stream: subscribed, the snapshot and the events after the given number are sent, without
\* a step of anybody else in between.
Connect ==
  /\ link = "down" /\ hostUp
  /\ link' = "open"
  /\ stream' = [last |-> IF Backlog = <<>> THEN after ELSE Len(events),
                buffer |-> <<[kind |-> "snapshot", view |-> Snapshot]>> \o Backlog]
  /\ UNCHANGED <<host, after, screen, asked, answers, got, command, bounds>>

\* The connection is lost with all that was on its way; the transport will connect again.
Break ==
  /\ link = "open" /\ breaks < MaxBreaks
  /\ link' = "down" /\ stream' = None
  /\ breaks' = breaks + 1
  /\ UNCHANGED <<host, after, screen, asked, answers, got, command, restarts, given>>

\* removeProject; the events of the project stay in the list of the host.
Remove(p) ==
  /\ hostUp /\ p \in open /\ Cardinality(Projects \ open) < MaxRemovals
  /\ open' = open \ {p}
  /\ UNCHANGED <<logs, events, hostUp, stream, client, command, bounds>>

\* The host stops or dies: connections, requests and the numbers of events are gone.
Stop ==
  /\ hostUp /\ restarts < MaxRestarts
  /\ hostUp' = FALSE /\ events' = <<>>
  /\ stream' = None /\ link' = "down"
  /\ asked' = 0 /\ command' = Idle
  /\ restarts' = restarts + 1
  /\ UNCHANGED <<logs, open, after, screen, answers, got, breaks, given>>

\* The events in the logs of some projects, when so many were seen of each.
Stored(seen, of) == UNION {{<<p, n>> : n \in 1..seen[p]} : p \in of}

\* The order of the registry, and in a log the order of its events.
Earlier(e, f) == e[1] < f[1] \/ (e[1] = f[1] /\ e[2] < f[2])

\* start: the logs one after the other, in the order of the registry.
Numbered(of) == InOrder(Stored(logs, of), Earlier)

\* What the stopped host had answered may still be on its way.
Start ==
  /\ ~hostUp
  /\ hostUp' = TRUE
  /\ events' = Numbered(open)
  /\ UNCHANGED <<logs, open, stream, client, command, bounds>>

-----------------------------------------------------------------------------
(* The transport and the workbench *)

\* MUTANT: an event that comes during a refresh asks for no other one.
AskedBug == IF asked > 0 \/ answers # <<>> THEN asked ELSE asked + 1

\* Every event of the stream asks for a refresh of its own.
Asked == asked + 1

SetSnapshot(view) ==
  /\ shown' = view
  /\ newest' = [p \in Projects |-> IF view.seen[p] > newest[p] THEN view.seen[p] ELSE newest[p]]

\* A frame arrives: the transport notes its number, the workbench shows a snapshot, or asks
\* for one when it hears of an event.
Deliver ==
  /\ stream # None /\ stream.buffer # <<>>
  /\ LET frame == Head(stream.buffer)
     IN  IF frame.kind = "snapshot"
         THEN SetSnapshot(frame.view) /\ UNCHANGED <<after, asked, got>>
         ELSE /\ after' = IF frame.sequence > after THEN frame.sequence ELSE after
              /\ asked' = Asked
              /\ got' = Append(got, frame.event)
              /\ UNCHANGED screen
  /\ stream' = [stream EXCEPT !.buffer = Tail(@)]
  /\ UNCHANGED <<host, link, answers, command, bounds>>

\* The server answers a refresh.
Serve ==
  /\ hostUp /\ asked > 0
  /\ asked' = asked - 1
  /\ answers' = Append(answers, Snapshot)
  /\ UNCHANGED <<host, stream, after, link, screen, got, command, bounds>>

\* The elements of a sequence but the i-th.
Others(s, i) == [j \in 1..(Len(s) - 1) |-> IF j < i THEN s[j] ELSE s[j + 1]]

\* refresh and sendCommand show the snapshot they were answered.  Each is a request of its own:
\* the answers arrive in any order, and the one that comes last stays.
Answered(i) ==
  /\ SetSnapshot(answers[i])
  /\ answers' = Others(answers, i)
  /\ UNCHANGED <<host, stream, after, link, asked, got, command, bounds>>

-----------------------------------------------------------------------------
(* A command *)

\* sendCommand: on the snapshot that is shown.
Send(p) ==
  /\ command.pc = "idle" /\ shown # None /\ given < MaxCommands
  /\ given' = given + 1
  /\ command' = [pc |-> "sent", project |-> p, view |-> shown]
  /\ UNCHANGED <<host, stream, client, breaks, restarts>>

\* commandBelongsToSnapshot: the Task of a command is one of this project.
Belongs(p) == command.project = p

\* #route: there is a project for the command.
Routed == \E p \in open : Belongs(p)

\* DesktopRuntimeHost.execute: checked against the list of the host, the command goes to its
\* project with the number of events the project has now.
Execute ==
  /\ command.pc = "sent" /\ hostUp
  /\ command' = IF Routed /\ command.view.sequence = Len(events)
                THEN [pc |-> "queued", project |-> command.project, view |-> command.view,
                      expected |-> logs[command.project]]
                ELSE Idle
  /\ UNCHANGED <<host, stream, client, bounds>>

\* MUTANT: the check in the critical section is left to the host.
UnchangedSinceBug == TRUE

\* The projection of the project is the one the host has checked.
UnchangedSince == command.expected = logs[command.project]

\* executeCommand, in the critical section of the project.
Commit ==
  /\ command.pc = "queued" /\ hostUp /\ Len(events) < MaxEvents
  /\ IF UnchangedSince /\ command.project \in open
     THEN /\ AppendEvent(command.project)
          /\ answers' = Append(answers, [seen |-> [Snapshot.seen EXCEPT ![command.project] = @ + 1],
                                         sequence |-> Len(events) + 1])
     ELSE UNCHANGED <<logs, events, stream, answers>>
  /\ command' = Idle
  /\ UNCHANGED <<open, hostUp, after, link, screen, asked, got, bounds>>

-----------------------------------------------------------------------------
Init ==
  /\ logs = [p \in Projects |-> 0] /\ open = Projects
  /\ events = <<>> /\ hostUp = TRUE
  /\ stream = None /\ after = 0 /\ link = "down"
  /\ shown = None /\ asked = 1 /\ answers = <<>>
  /\ command = Idle /\ got = <<>>
  /\ breaks = 0 /\ restarts = 0 /\ given = 0 /\ newest = [p \in Projects |-> 0]

Next ==
  \/ Connect \/ Break \/ Stop \/ Start \/ Deliver \/ Serve
  \/ Execute \/ Commit
  \/ \E i \in DOMAIN answers : Answered(i)
  \/ \E p \in Projects : Publish(p) \/ Remove(p) \/ Send(p)

Spec == Init /\ [][Next]_vars

\* A host that stopped comes back, and what is under way over HTTP goes on.
Fairness ==
  /\ WF_vars(Start) /\ WF_vars(Connect) /\ WF_vars(Deliver) /\ WF_vars(Serve)
  /\ WF_vars(\E i \in DOMAIN answers : Answered(i)) /\ WF_vars(Execute) /\ WF_vars(Commit)

FairSpec == Spec /\ Fairness

-----------------------------------------------------------------------------
(* Properties *)

\* Every variable keeps its type, and the host lists each event of an open project once.
TypeOK ==
  /\ link \in {"down", "open"} /\ (link = "open" => stream # None)
  /\ after \in 0..MaxEvents /\ open \subseteq Projects
  /\ hostUp => \A p \in open : \A n \in 1..logs[p] :
                 Cardinality({i \in 1..Len(events) : events[i] = <<p, n>>}) = 1

\* While the host runs the workbench receives its events in order, each once and without a gap,
\* however often the connection is lost.
GapFree ==
  restarts = 0 => Len(got) <= Len(events) /\ got = SubSeq(events, 1, Len(got))

\* A command is accepted only if its project has no event the person's snapshot did not have,
\* across lost connections, other commands and restarts, as long as no project is removed.
CommandSeesCurrent ==
  [][Commit /\ logs' # logs /\ open = Projects
       => command.view.seen[command.project] = logs[command.project]]_vars

\* Once nothing is published any more the workbench has heard of every event and has shown the
\* state they led to of every open project, whatever was lost on the way, and everything it asked
\* for has been answered.  An older answer may come after that and stay: nothing asks again.  A
\* restart after a project was removed is left out: the numbers of the events are then smaller
\* than before.
EventuallyShown ==
  <>[](open = Projects \/ restarts = 0
         => /\ after = Len(events) /\ asked = 0 /\ answers = <<>>
            /\ restarts = 0 => got = events
            /\ \A p \in open : newest[p] = logs[p])

\* The host lists each event once and the workbench receives each of them once, in order.
EachOnce == TypeOK /\ GapFree

=============================================================================
