----------------------------- MODULE MCEventLog -----------------------------
(* Small instances of the log, of what is asked of it and of what fails, for TLC. *)
EXTENDS EventLog, TLC

CONSTANTS a1, a2

Question == [attempt |-> a1, ref |-> 1]
MCQuestions == {Question}

Request(kind, key, about) ==
  [kind |-> kind, key |-> <<"command", key>>, about |-> about]
Attempt == Request("attempt", 1, a1)
Delete == Request("delete", 2, a2)
DeleteAsking == Request("delete", 3, a1)
Yes == Request("respond", 4, Question)
No == Request("respond", 5, Question)
Enable == Request("enable", 6, None)
SyncSession == Request("sync", 7, a1)
Review == Request("review", 8, a1)
RefreshAll == Request("refresh", 9, None)
MCRequests == {Attempt, Delete, DeleteAsking, Yes, No, Enable, SyncSession, Review, RefreshAll}

Setting(bad, attempts, requests, questions, contents) ==
  [faults |-> bad, attempts |-> attempts, requests |-> requests, questions |-> questions,
   contents |-> contents]

\* A disk that only loses what was not synced, and one where every write may fail.
Sound == {"crash", "effect"}
Broken == {"crash", "torn", "sync"}

MCSettings ==
  {Setting(Sound, {a1, a2}, {Attempt, Delete}, {}, Contents),
   Setting(Broken, {a1, a2}, {Delete}, {}, Contents),
   Setting(Broken, {a1}, {Attempt}, {}, Contents),
   Setting(Broken, {a1}, {Enable, SyncSession}, {}, {}),
   Setting(Sound, {a1}, {Enable, SyncSession, Review, RefreshAll}, {}, {})}
    \cup {Setting(bad, {a1}, {Yes, No, DeleteAsking}, MCQuestions, {}) : bad \in {Sound, Broken}}
=============================================================================
