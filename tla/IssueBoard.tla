----------------------------- MODULE IssueBoard -----------------------------
(***************************************************************************)
(* The issue lists of one client.  A list is a TanStack query keyed by its *)
(* server contract; its data are, per status, the cards of the loaded      *)
(* window and the total the server counted.  The lists are not refetched   *)
(* when an issue changes: edits of this client are patched in              *)
(* optimistically and rolled back when they fail, edits of everybody come  *)
(* in over the WebSocket, and both go through applyIssueChange, which      *)
(* patches what it can decide and marks the rest stale.                    *)
(*                                                                         *)
(* Titles, labels and the other fields that move no card are abstracted,   *)
(* and so is the order of cards within a window: issues are numbered in    *)
(* the order the server sorts them.                                        *)
(***************************************************************************)
EXTENDS Naturals, Sequences, FiniteSets

CONSTANTS
  N,            \* issues are 1..N, in the server's sort order
  Statuses,     \* the board columns
  Lists,        \* the mounted lists, among "board", "mine" and "all"
  Page,         \* ISSUE_PAGE_SIZE
  Start,        \* the tables the client may find
  Patches,      \* the changes users make
  MaxEdits,     \* edits of this user
  MaxActs,      \* these, edits of other users, opened issue pages, failed or
                \* unanswered edits and lost connections, together
  None

ASSUME BoardAssumption ==
  /\ N \in Nat \ {0} /\ Page \in Nat \ {0} /\ Statuses # {}
  /\ MaxEdits \in Nat /\ MaxActs \in Nat
  /\ Lists \subseteq {"board", "mine", "all"}
  /\ None \notin {"board", "mine", "all"}

VARIABLES
  db,       \* the issue table
  wire,     \* events on their way to this client, oldest first
  online,   \* the WebSocket is up
  list,     \* the list queries
  detail,   \* the issue detail queries that have data
  load,     \* the detail requests in flight
  more,     \* the load-more request in flight
  edit,     \* the mutations of this client
  acts,     \* what the users and the network have done so far
  view      \* history: the table as the delivered events tell it

vars == <<db, wire, online, list, detail, load, more, edit, acts, view>>

Issues == 1..N
Row == [status: Statuses, mine: BOOLEAN]
Card == [id: Issues, mine: BOOLEAN]
Bucket == [cards: SUBSET Card, total: Nat]
Data == [Statuses -> Bucket]
\* A field a patch leaves out is None.
Patch == [status: Statuses \cup {None}, mine: BOOLEAN \cup {None}]

\* None is no value of these kinds, and the tables to start from are tables.
ASSUME DataAssumption ==
  /\ None \notin Statuses /\ None \notin BOOLEAN /\ None \notin Row
  /\ None \notin Bucket /\ None \notin Data /\ None \notin [Statuses -> Bucket \cup {None}]
  /\ Start \subseteq [Issues -> Row \cup {None}] /\ Patches \subseteq Patch

-----------------------------------------------------------------------------
\* What the server answers

\* my:all is the union of relations; here the assigned issues stand for it.
Member(l, row) == l = "board" \/ row.mine
Column(T, l, s) == {i \in Issues : T[i] # None /\ T[i].status = s /\ Member(l, T[i])}
Count(T, l, s) == Cardinality(Column(T, l, s))
InColumn(l, s) == Column(db, l, s)
Rank(l, s, i) == Cardinality({j \in InColumn(l, s) : j < i})
Window(l, s, offset) ==
  {[id |-> i, mine |-> db[i].mine] :
     i \in {j \in InColumn(l, s) : Rank(l, s, j) \in offset..(offset + Page - 1)}}
ServerBucket(l, s) ==
  [cards |-> Window(l, s, 0), total |-> Count(db, l, s)]

-----------------------------------------------------------------------------
\* The query cache

Idle == None      \* no fetch in flight
Asked == [s \in Statuses |-> None]    \* one request per status, none answered

Invalidate(q) ==
  [q EXCEPT !.stale = TRUE,
            !.fetch = IF q.data = None /\ q.fetch # Idle THEN @ ELSE Asked]
CancelQuery(q) == [q EXCEPT !.fetch = Idle]
SetData(q, d) == [q EXCEPT !.data = d, !.stale = FALSE]
InvalidateAll(qs, ls) ==
  [l \in Lists |-> IF l \in ls THEN Invalidate(qs[l]) ELSE qs[l]]

-----------------------------------------------------------------------------
\* cache-helpers.ts

Columns(d, i) == {s \in Statuses : \E c \in d[s].cards : c.id = i}
Without(b, i) == [b EXCEPT !.cards = {c \in @ : c.id # i}]
Less(n) == IF n = 0 THEN 0 ELSE n - 1

AddIssue(d, i, row) ==
  IF row.status \in Columns(d, i) THEN d
  ELSE [d EXCEPT ![row.status] =
          [cards |-> @.cards \cup {[id |-> i, mine |-> row.mine]},
           total |-> @.total + 1]]

\* findIssueLocation returns one column; which one matters only when there
\* are two.
Location(d, i) == CHOOSE s \in Columns(d, i) : TRUE
CardOf(d, i) == CHOOSE c \in d[Location(d, i)].cards : c.id = i
RowOf(d, i) == [status |-> Location(d, i), mine |-> CardOf(d, i).mine]

RemoveIssue(d, i) ==
  IF Columns(d, i) = {} THEN d
  ELSE [d EXCEPT ![Location(d, i)] =
          [cards |-> Without(@, i).cards, total |-> Less(@.total)]]

MoveTotalOut(d, from, to) ==
  IF from = to THEN d ELSE [d EXCEPT ![from].total = Less(@)]
MoveTotal(d, from, to) ==
  IF from = to THEN d
  ELSE [d EXCEPT ![from].total = Less(@), ![to].total = @ + 1]

DecrementTotal(d, s) == [d EXCEPT ![s].total = Less(@)]

MergeOverwrite(row, patch) == patch
Merge(row, patch) ==
  [status |-> IF patch.status = None THEN row.status ELSE patch.status,
   mine |-> IF patch.mine = None THEN row.mine ELSE patch.mine]

PatchIssue(d, i, patch) ==
  LET from == Location(d, i)
      new  == Merge(RowOf(d, i), patch)
      card == [id |-> i, mine |-> new.mine]
      out  == [d EXCEPT ![from] = Without(@, i)]
  IN  [MoveTotal(out, from, new.status) EXCEPT
         ![new.status].cards = @ \cup {card}]

-----------------------------------------------------------------------------
\* membership.ts and applyIssueChange

FilterDependsOn(l, changed) == l # "board" /\ changed.assignee

Matches(l, mine) ==
  CASE l = "board" -> "yes"
    [] l # "board" /\ (l = "all" \/ mine = None) -> "unknown"
    [] OTHER -> IF mine THEN "yes" ELSE "no"

Changed(patch, base) ==
  [assignee |-> patch.mine # None /\ (base = None \/ base.mine # patch.mine),
   status |-> patch.status # None /\ (base = None \/ base.status # patch.status)]

\* What the change does to list l with data d: the new data, whether they
\* are written, whether the key is reported stale.
Change(l, d, i, patch, changed, base) ==
  LET loaded == Columns(d, i) # {}
      touched == FilterDependsOn(l, changed)
      was == IF base = None THEN "unknown" ELSE Matches(l, base.mine)
      is  == Matches(l, IF base = None THEN patch.mine ELSE Merge(base, patch).mine)
      now == Matches(l, Merge(RowOf(d, i), patch).mine)
      moved == changed.status /\ patch.status \notin {None, base.status}
      Write(data, stale) == [data |-> data, write |-> TRUE, stale |-> stale]
      Skip(stale) == [data |-> d, write |-> FALSE, stale |-> stale]
  IN  IF loaded
      THEN IF touched /\ now = "no"
             THEN Write(RemoveIssue(d, i), FALSE)
             ELSE Write(PatchIssue(d, i, patch), touched /\ now = "unknown")
      ELSE CASE ~touched /\ ~changed.status -> Skip(FALSE)
             [] OTHER ->
                CASE was = "no" /\ is = "no" -> Skip(FALSE)
                  [] was = "yes" /\ is = "yes" ->
                       IF moved
                         THEN Write(MoveTotal(d, base.status, patch.status), TRUE)
                         ELSE Skip(FALSE)
                  [] was = "yes" /\ is = "no" ->
                       Write(DecrementTotal(d, base.status), FALSE)
                  [] OTHER -> Skip(TRUE)

Loaded(qs) == {l \in Lists : qs[l].data # None}

\* The results of one applyIssueChange, for every list.
ChangeOf(qs, i, patch, changed, base) ==
  [l \in Lists |->
     IF qs[l].data = None THEN [data |-> None, write |-> FALSE, stale |-> FALSE]
     ELSE Change(l, qs[l].data, i, patch, changed, base)]

Apply(qs, change) ==
  [l \in Lists |-> IF change[l].write THEN SetData(qs[l], change[l].data) ELSE qs[l]]
StaleKeysForgotten(change) == {}
StaleKeys(change) == {l \in Lists : change[l].stale}
PrevLists(qs, change) ==
  [l \in Lists |-> IF change[l].write THEN qs[l].data ELSE None]

\* rollbackIssueChange, and the same loop for a failed delete
Restore(qs, prev) ==
  [l \in Lists |-> IF prev[l] = None THEN qs[l] ELSE SetData(qs[l], prev[l])]

PatchDetail(i, patch) ==
  [detail EXCEPT ![i] = IF @ = None THEN None ELSE Merge(@, patch)]

\* pruneDeletedIssueFromListCaches
Prune(qs, i) ==
  [l \in Lists |-> IF qs[l].data = None THEN qs[l]
                   ELSE SetData(qs[l], RemoveIssue(qs[l].data, i))]

\* addIssueToBuckets over the workspace board; the filtered lists refetch.
AddToBoard(qs, i, row) ==
  [l \in Lists |-> IF l # "board" \/ qs[l].data = None THEN qs[l]
                   ELSE SetData(qs[l], AddIssue(qs[l].data, i, row))]

-----------------------------------------------------------------------------
\* The server

Event(type, i, row, changed) ==
  [type |-> type, id |-> i, row |-> row, changed |-> changed]
Unchanged == [assignee |-> FALSE, status |-> FALSE]
\* A handler reads the row, commits, publishes and then answers.  All but the
\* answer is one step here: two handlers of one issue that overlap, commit in
\* one order and publish in the other, are not modelled.
Publish(e) == wire' = IF online THEN Append(wire, e) ELSE wire

Act == acts < MaxActs /\ acts' = acts + 1

\* UpdateIssue, CreateIssue and DeleteIssue of other users
Commit ==
  /\ Act
  /\ \E i \in Issues :
       \/ \E patch \in Patches :
            /\ db[i] # None /\ Merge(db[i], patch) # db[i]
            /\ db' = [db EXCEPT ![i] = Merge(@, patch)]
            /\ Publish(Event("updated", i, db'[i], Changed(patch, db[i])))
       \/ \E row \in Row :
            /\ db[i] = None
            /\ db' = [db EXCEPT ![i] = row]
            /\ Publish(Event("created", i, row, Unchanged))
       \/ /\ db[i] # None
          /\ db' = [db EXCEPT ![i] = None]
          /\ Publish(Event("deleted", i, None, Unchanged))
  /\ UNCHANGED <<online, list, detail, load, more, edit, view>>

-----------------------------------------------------------------------------
\* Queries

\* A fetch sends one request per status, which are answered in any order.
Read(l, s) ==
  /\ list[l].fetch # Idle /\ list[l].fetch[s] = None
  /\ list' = [list EXCEPT ![l].fetch[s] = ServerBucket(l, s)]
  /\ UNCHANGED <<db, wire, online, detail, load, more, edit, acts, view>>

Fetched(l) ==
  /\ list[l].fetch # Idle
  /\ \A s \in Statuses : list[l].fetch[s] # None
  /\ list' = [list EXCEPT ![l] = [data |-> @.fetch, stale |-> FALSE, fetch |-> Idle]]
  /\ UNCHANGED <<db, wire, online, detail, load, more, edit, acts, view>>

\* A view is left and opened again: refetchOnMount applies to stale data.
Remount(l) ==
  /\ list[l].fetch = Idle /\ (list[l].stale \/ list[l].data = None)
  /\ list' = [list EXCEPT ![l].fetch = Asked]
  /\ UNCHANGED <<db, wire, online, detail, load, more, edit, acts, view>>

\* An issue page is opened; its query loads and stays in the cache.
NoLoad == [sent |-> FALSE, row |-> None]
Ask == [sent |-> TRUE, row |-> None]

OpenDetail(i) ==
  /\ Act /\ detail[i] = None /\ ~load[i].sent
  /\ load' = [load EXCEPT ![i] = Ask]
  /\ UNCHANGED <<db, wire, online, list, detail, more, edit, view>>

\* An issue that is gone is answered with an error, which keeps the data.
ReadDetail(i) ==
  /\ load[i].sent /\ load[i].row = None
  /\ load' = [load EXCEPT ![i] = [sent |-> db[i] # None, row |-> db[i]]]
  /\ UNCHANGED <<db, wire, online, list, detail, more, edit, acts, view>>

DetailLoaded(i) ==
  /\ load[i].row # None
  /\ detail' = [detail EXCEPT ![i] = load[i].row]
  /\ load' = [load EXCEPT ![i] = NoLoad]
  /\ UNCHANGED <<db, wire, online, list, more, edit, acts, view>>

\* useLoadMoreByStatus: the offset is the number of loaded cards.
LoadMore(l, s) ==
  LET b == list[l].data[s] IN
  /\ more = None /\ list[l].data # None
  /\ Cardinality(b.cards) < b.total
  /\ more' = [list |-> l, status |-> s, offset |-> Cardinality(b.cards), page |-> None]
  /\ UNCHANGED <<db, wire, online, list, detail, load, edit, acts, view>>

ReadMore ==
  /\ more # None /\ more.page = None
  /\ more' = [more EXCEPT !.page =
                [cards |-> Window(more.list, more.status, more.offset),
                 total |-> Count(db, more.list, more.status)]]
  /\ UNCHANGED <<db, wire, online, list, detail, load, edit, acts, view>>

MoreLoaded ==
  /\ more # None /\ more.page # None
  /\ LET l == more.list
         s == more.status
         old == list[l].data[s].cards
         new == {c \in more.page.cards : \A o \in old : o.id # c.id}
     IN  list' = [list EXCEPT ![l] =
                    SetData(@, [@.data EXCEPT ![s] = [cards |-> old \cup new,
                                                      total |-> more.page.total]])]
  /\ more' = None
  /\ UNCHANGED <<db, wire, online, detail, load, edit, acts, view>>

-----------------------------------------------------------------------------
\* Edits of this client

NoUndo == [l \in Lists |-> None]
NoEdit == [stage |-> "new", type |-> "updated", id |-> 1,
           patch |-> [status |-> None, mine |-> None],
           undo |-> NoUndo, undoDetail |-> None, stale |-> {}, reply |-> None]

FirstNew(n) == \A m \in 1..(n - 1) : edit[m].stage # "new"

\* onMutate of useUpdateIssue.  The user edits a card or an open issue.
Update(n, i, patch) ==
  LET changed == Changed(patch, detail[i])
      qs == [l \in Lists |-> CancelQuery(list[l])]
      change == ChangeOf(qs, i, patch, changed, detail[i])
  IN  /\ Act /\ FirstNew(n) /\ edit[n].stage = "new"
      /\ patch # NoEdit.patch
      /\ \/ detail[i] # None
         \/ \E l \in Lists : list[l].data # None /\ Columns(list[l].data, i) # {}
      /\ list' = Apply(qs, change)
      /\ detail' = PatchDetail(i, patch)
      /\ edit' = [edit EXCEPT ![n] = [NoEdit EXCEPT
                    !.stage = "sent", !.id = i, !.patch = patch,
                    !.undo = PrevLists(qs, change), !.undoDetail = detail[i],
                    !.stale = StaleKeys(change)]]
      /\ UNCHANGED <<db, wire, online, load, more, view>>

\* onMutate of useDeleteIssue cancels the fetches, waits for that, and only
\* then takes the snapshots and prunes.
Delete(n, i) ==
  /\ Act /\ FirstNew(n) /\ edit[n].stage = "new"
  /\ \/ detail[i] # None
     \/ \E l \in Lists : list[l].data # None /\ Columns(list[l].data, i) # {}
  /\ list' = [l \in Lists |-> CancelQuery(list[l])]
  /\ edit' = [edit EXCEPT ![n] = [NoEdit EXCEPT
                !.stage = "cancelling", !.type = "deleted", !.id = i]]
  /\ UNCHANGED <<db, wire, online, detail, load, more, view>>

PruneDeleted(n) ==
  LET i == edit[n].id IN
  /\ edit[n].stage = "cancelling"
  /\ list' = Prune(list, i)
  /\ detail' = [detail EXCEPT ![i] = None]
  /\ load' = [load EXCEPT ![i] = NoLoad]
  /\ edit' = [edit EXCEPT ![n].stage = "sent", ![n].undoDetail = detail[i],
                          ![n].undo = [l \in Lists |-> list[l].data]]
  /\ UNCHANGED <<db, wire, online, more, acts, view>>

\* The server handles the request: it commits and answers, or refuses.
Serve(n) ==
  LET e == edit[n]
      row == IF e.type = "deleted" THEN None ELSE Merge(db[e.id], e.patch)
  IN  /\ e.stage = "sent"
      /\ \/ /\ db[e.id] # None
            /\ db' = [db EXCEPT ![e.id] = row]
            /\ Publish(Event(e.type, e.id, row,
                             IF row = None THEN Unchanged ELSE Changed(e.patch, db[e.id])))
            /\ \/ edit' = [edit EXCEPT ![n].stage = "ok", ![n].reply = row]
                  /\ UNCHANGED acts
               \/ /\ Act                      \* the answer is lost
                  /\ edit' = [edit EXCEPT ![n].stage = "failed"]
         \/ /\ db[e.id] = None
            /\ edit' = [edit EXCEPT ![n].stage = "failed"]
            /\ UNCHANGED <<db, wire, acts>>
         \/ /\ Act
            /\ edit' = [edit EXCEPT ![n].stage = "failed"]
            /\ UNCHANGED <<db, wire>>
      /\ UNCHANGED <<online, list, detail, load, more, view>>

\* cleanupDeletedIssueCaches
CleanUp(qs, i) == InvalidateAll(Prune(qs, i), Lists)

\* onSuccess and onSettled
Success(n) ==
  LET e == edit[n]
      change == ChangeOf(list, e.id, e.reply, Changed(e.patch, e.reply), e.reply)
  IN  /\ e.stage = "ok"
      /\ edit' = [edit EXCEPT ![n] = [NoEdit EXCEPT !.stage = "settled"]]
      /\ \/ /\ e.type = "updated"
            /\ list' = InvalidateAll(Apply(list, change), StaleKeys(change) \cup e.stale)
            /\ detail' = PatchDetail(e.id, e.reply) /\ UNCHANGED load
         \/ /\ e.type = "deleted"
            /\ list' = CleanUp(list, e.id)
            /\ detail' = [detail EXCEPT ![e.id] = None]
            /\ load' = [load EXCEPT ![e.id] = NoLoad]
      /\ UNCHANGED <<db, wire, online, more, acts, view>>

\* onError and onSettled
Failure(n) ==
  LET e == edit[n] IN
  /\ e.stage = "failed"
  /\ edit' = [edit EXCEPT ![n] = [NoEdit EXCEPT !.stage = "settled"]]
  /\ list' = InvalidateAll(Restore(list, e.undo),
                           IF e.type = "updated" THEN e.stale ELSE Lists \cap {"board"})
  /\ detail' = [detail EXCEPT ![e.id] = IF e.undoDetail = None THEN @ ELSE e.undoDetail]
  /\ UNCHANGED <<db, wire, online, load, more, acts, view>>

-----------------------------------------------------------------------------
\* Events

\* The copy of the issue that onIssueUpdated compares with.
Cached(i) ==
  CASE detail[i] # None -> detail[i]
    [] detail[i] = None /\ "board" \in Loaded(list) /\ Columns(list["board"].data, i) # {} ->
         RowOf(list["board"].data, i)
    [] OTHER -> None

\* The table with one row rewritten.
Put(T, i, v) == [T EXCEPT ![i] = v]

Deliver ==
  /\ wire # <<>>
  /\ wire' = Tail(wire)
  /\ view' = Put(view, Head(wire).id, Head(wire).row)
  /\ LET e == Head(wire)
         change == ChangeOf(list, e.id, e.row, e.changed, Cached(e.id))
     IN  \/ /\ e.type = "updated"
            /\ list' = InvalidateAll(Apply(list, change), StaleKeys(change))
            /\ detail' = PatchDetail(e.id, e.row) /\ UNCHANGED load
         \/ /\ e.type = "created"
            /\ list' = InvalidateAll(AddToBoard(list, e.id, e.row), Lists \ {"board"})
            /\ UNCHANGED <<detail, load>>
         \/ /\ e.type = "deleted"
            /\ list' = CleanUp(list, e.id)
            /\ detail' = [detail EXCEPT ![e.id] = None]
            /\ load' = [load EXCEPT ![e.id] = NoLoad]
  /\ UNCHANGED <<db, online, more, edit, acts>>

\* The socket drops with the events on it; after the reconnection everything
\* under the workspace is invalidated.
Disconnect ==
  /\ Act /\ online
  /\ online' = FALSE /\ wire' = <<>>
  /\ UNCHANGED <<db, list, detail, load, more, edit, view>>

Reconnect ==
  /\ ~online
  /\ online' = TRUE
  /\ list' = InvalidateAll(list, Lists)
  /\ load' = [i \in Issues |-> IF detail[i] = None THEN load[i] ELSE Ask]
  /\ view' = db
  /\ UNCHANGED <<db, wire, detail, more, edit, acts>>

-----------------------------------------------------------------------------
Init ==
  /\ db \in Start
  /\ wire = <<>> /\ online = TRUE
  /\ list = [l \in Lists |-> [data |-> None, stale |-> FALSE, fetch |-> Asked]]
  /\ detail = [i \in Issues |-> None]
  /\ load = [i \in Issues |-> NoLoad]
  /\ more = None
  /\ edit = [n \in 1..MaxEdits |-> NoEdit]
  /\ acts = 0
  /\ view = db

Next ==
  \/ Commit \/ ReadMore \/ MoreLoaded \/ Deliver \/ Disconnect \/ Reconnect
  \/ \E l \in Lists : \/ Fetched(l) \/ Remount(l)
                      \/ \E s \in Statuses : Read(l, s) \/ LoadMore(l, s)
  \/ \E i \in Issues : OpenDetail(i) \/ ReadDetail(i) \/ DetailLoaded(i)
  \/ \E n \in DOMAIN edit : \/ PruneDeleted(n) \/ Serve(n) \/ Success(n) \/ Failure(n)
                            \/ \E i \in Issues : \/ Delete(n, i)
                                                 \/ \E p \in Patches : Update(n, i, p)

Spec == Init /\ [][Next]_vars

-----------------------------------------------------------------------------
\* Properties

Message ==
  {m \in [type: {"created", "updated", "deleted"}, id: Issues, row: Row \cup {None},
          changed: [assignee: BOOLEAN, status: BOOLEAN]] :
     m.type # "deleted" => m.row # None}
Edit ==
  {e \in [stage: {"new", "cancelling", "sent", "ok", "failed", "settled"},
          type: {"updated", "deleted"}, id: Issues, patch: Patch,
          undo: [Lists -> Data \cup {None}], undoDetail: Row \cup {None},
          stale: SUBSET Lists, reply: Row \cup {None}] :
     e.stage = "ok" /\ e.type = "updated" => e.reply # None}
Awaited == [list: Lists, status: Statuses, offset: Nat, page: Bucket \cup {None}]

\* Rows, cards, totals and pending answers keep their shape: no merged row has
\* a field left out, whatever patch met it; a page is only awaited for a list
\* with data.
TypeOK ==
  /\ db \in [Issues -> Row \cup {None}]
  /\ view \in [Issues -> Row \cup {None}]
  /\ detail \in [Issues -> Row \cup {None}]
  /\ load \in [Issues -> [sent: BOOLEAN, row: Row \cup {None}]]
  /\ online \in BOOLEAN /\ wire \in Seq(Message)
  /\ list \in [Lists -> [data: Data \cup {None}, stale: BOOLEAN,
                         fetch: [Statuses -> Bucket \cup {None}] \cup {Idle}]]
  /\ edit \in [1..MaxEdits -> Edit]
  /\ \/ more = None
     \/ more \in Awaited /\ list[more.list].data # None
  /\ acts \in Nat

\* What a list with data d owes to a table T: its cards are issues of their
\* columns, its totals count the columns.
CardsIn(T, l, s, cards) == \A c \in cards : c.id \in Column(T, l, s) /\ c.mine = T[c.id].mine
Telling(T, l, d) == \A s \in Statuses : CardsIn(T, l, s, d[s].cards)
Counted(T, l, d) == \A s \in Statuses : d[s].total = Count(T, l, s)
AccurateIn(T, l, d) == Telling(T, l, d) /\ Counted(T, l, d)

\* The event at the head of the wire reaches a client whose copy of the issue,
\* where it has one, is the row before the event.
EventKnown ==
  /\ wire # <<>> /\ wire' = Tail(wire) /\ online'
  /\ Cached(Head(wire).id) \in {None, view[Head(wire).id]}

\* An event leaves every list that was right about the events before it right
\* about this one too, or marks it for a refetch: the deltas applyIssueChange
\* decides on -- patch, move, remove, count, or nothing at all, for a card in
\* the window or beyond it, a list with or without a filter -- lose no change.
EventsReconcile ==
  [][EventKnown =>
       \A l \in Loaded(list) :
         AccurateIn(view, l, list[l].data) =>
           AccurateIn(view', l, list'[l].data) \/ list'[l].stale]_vars

\* An issue that an event brings into a column of a list is shown there
\* afterwards, or the list is marked: also where the window of the list ends
\* before it, so that the totals alone could follow, and in a list that was
\* wrong before.
EntersOrMarked ==
  [][EventKnown =>
       LET i == Head(wire).id IN
       \A l \in Loaded(list), s \in Statuses :
         i \in Column(view', l, s) \ Column(view, l, s) =>
           s \in Columns(list'[l].data, i) \/ list'[l].stale]_vars

\* An optimistic edit makes of a list that was right about the delivered
\* events one that is right about the row it asks for, or records the list
\* among those to refetch on settle; and the answer takes nothing back from a
\* list that is right about the row it carries.
EditsReconcile ==
  [][\A n \in DOMAIN edit, l \in Loaded(list) :
       LET e == edit[n]
           i == edit'[n].id
           wanted == Put(view, i, Merge(view[i], edit'[n].patch))
           answered == Put(view, e.id, e.reply)
       IN  /\ /\ e.stage = "new" /\ edit'[n].stage = "sent"
              /\ view[i] # None /\ detail[i] \in {None, view[i]}
              /\ AccurateIn(view, l, list[l].data)
              => AccurateIn(wanted, l, list'[l].data) \/ l \in edit'[n].stale
           /\ /\ e.stage = "ok" /\ e.type = "updated" /\ edit'[n].stage = "settled"
              /\ AccurateIn(answered, l, list[l].data)
              => AccurateIn(answered, l, list'[l].data) \/ list'[l].stale]_vars

\* A failed edit reconciles the lists: one that is right about the table, with
\* no event under way that could still correct it, is right afterwards too or
\* marked for a refetch.
OnErrorReconciles ==
  [][\A n \in DOMAIN edit, l \in Loaded(list) :
       /\ edit[n].stage = "failed" /\ edit'[n].stage = "settled"
       /\ wire = <<>> /\ online
       /\ AccurateIn(db, l, list[l].data)
       => AccurateIn(db, l, list'[l].data) \/ list'[l].stale]_vars
=============================================================================
