---------------------------- MODULE MCIssueBoard ----------------------------
(* Small instances of IssueBoard for TLC.                                  *)
EXTENDS IssueBoard

TwoStatuses == {"todo", "done"}
Todo(mine) == [status |-> "todo", mine |-> mine]
\* With windows of one card, the second issue is beyond the window.
OneMine == {<<Todo(TRUE), Todo(FALSE)>>}

Set(status, mine) == [status |-> status, mine |-> mine]
\* A move, an unassignment, and a move that assigns.
SomePatches == {Set("done", None), Set(None, FALSE), Set("done", TRUE)}
=============================================================================
