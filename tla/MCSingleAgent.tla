---------------------------- MODULE MCSingleAgent ----------------------------
(* One Runtime with a few Tasks, Attempts and commands, for TLC. *)
EXTENDS SingleAgent, TLC

CONSTANTS t1, t2

\* People start, retry, pause and delete; or the Runtime is stopped under its work.
People ==
  {[tasks |-> {t1}, drawn |-> 2, kinds |-> {"start", "retry", "pause", "input", "delete"},
    commands |-> 2, restarts |-> 0, faults |-> {"prepare"}, views |-> {"eligible"}],
   [tasks |-> {t1}, drawn |-> 2, kinds |-> {"start", "retry", "stop"}, commands |-> 1,
    restarts |-> 0, faults |-> {"tracker", "install", "turn"}, views |-> {"eligible"}]}

\* Nobody interferes: the Task moves in the Tracker, and every call may fail.
Alone ==
  [tasks |-> {t1}, drawn |-> 2, kinds |-> {}, commands |-> 0, restarts |-> 0,
   faults |-> {"tracker", "prepare", "install", "open", "turn", "remove"},
   views |-> {"eligible", "held", "closed"}]

\* A Task goes to Codex and comes back, across a crash.
WithCodex ==
  [tasks |-> {t1}, drawn |-> 2, kinds |-> {"start", "handoff", "return"}, commands |-> 2,
   restarts |-> 1, faults |-> {"turn", "tracker"}, views |-> {"eligible"}]

\* Two Tasks want the one place.
Crowded ==
  [tasks |-> {t1, t2}, drawn |-> 2, kinds |-> {"start", "retry"}, commands |-> 1,
   restarts |-> 0, faults |-> {"open"}, views |-> {"eligible"}]

\* A Task fails more often than it may be tried by itself, and a person tries again.
Stubborn == [Crowded EXCEPT !.tasks = {t1}, !.drawn = 3, !.commands = 2]

Automatic == {Alone, WithCodex, Crowded, Stubborn}

\* One handoff and nothing else.
HandedOver ==
  {[tasks |-> {t1}, drawn |-> 2, kinds |-> {"handoff"}, commands |-> 1, restarts |-> 0,
    faults |-> {}, views |-> {"eligible"}]}

\* Tasks are chosen between only by \E, and ordered only in the lock: they are symmetric.
TaskSymmetry == Permutations(Tasks)
=============================================================================
