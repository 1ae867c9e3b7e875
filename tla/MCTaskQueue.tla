---------------------------- MODULE MCTaskQueue ----------------------------
(* Small instances of TaskQueue for TLC.                                   *)
EXTENDS TaskQueue

\* A work of agent a on runtime r; only a comment-backed one has a receipt.
W(kind, a, r) == [name |-> kind, agent |-> a, runtime |-> r, kind |-> kind,
                  prio |-> IF kind = "chat" THEN 2 ELSE 1, receipt |-> kind = "issue"]

Issue == {W("issue", "a", "r")}
Chat == {W("chat", "a", "r")}
\* Two agents on one issue: b is the assignee, a owns the thread.
Thread == W("issue", "a", "r")
Assignee == W("issue", "b", "r")
TwoAgents == {Thread, Assignee}
Fallback == {<<Thread, Assignee>>}
\* The thread owner also has a row on another daemon, as after a change of
\* its runtime.
ThreadAndQuick == TwoAgents \cup {W("quick", "a", "s")}

NoFallback == {}
One == [a \in Agent |-> 1]
Two == [a \in Agent |-> 2]
=============================================================================
