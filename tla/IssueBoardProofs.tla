-------------------------- MODULE IssueBoardProofs --------------------------
EXTENDS IssueBoard, FiniteSetTheorems, TLAPS

-----------------------------------------------------------------------------
(* Kinds                                                                   *)

Table == [Issues -> Row \cup {None}]
Fetch == [Statuses -> Bucket \cup {None}] \cup {Idle}
Query == [data: Data \cup {None}, stale: BOOLEAN, fetch: Fetch]
Queries == [Lists -> Query]

LEMMA NoneFacts ==
  /\ None \notin Statuses /\ None \notin BOOLEAN /\ None \notin Row
  /\ None \notin Bucket /\ None \notin Data /\ None \notin [Statuses -> Bucket \cup {None}]
  BY DataAssumption DEF DataAssumption

LEMMA IssuesFinite ==
  /\ IsFiniteSet(Issues)
  /\ \A S \in SUBSET Issues : IsFiniteSet(S) /\ Cardinality(S) \in Nat
<1>1. IsFiniteSet(Issues)
  BY BoardAssumption, FS_Interval DEF BoardAssumption, Issues
<1> QED
  BY <1>1, FS_Subset, FS_CardinalityType

LEMMA MergeType ==
  ASSUME NEW row \in Row, NEW patch \in Patch PROVE Merge(row, patch) \in Row
  BY DEF Row, Patch, Merge

LEMMA RowPatch == ASSUME NEW row \in Row PROVE row \in Patch /\ Merge(row, row) = row
  BY NoneFacts DEF Row, Patch, Merge

LEMMA WindowType ==
  ASSUME db \in Table, NEW l \in Lists, NEW s \in Statuses, NEW offset
  PROVE  Window(l, s, offset) \in SUBSET Card
<1>1. \A i \in InColumn(l, s) : i \in Issues /\ db[i] \in Row
  BY DEF InColumn, Column, Table
<1> QED
  BY <1>1 DEF Window, Card, Row

LEMMA ColumnCount ==
  ASSUME NEW l, NEW s PROVE Cardinality(InColumn(l, s)) \in Nat
<1>1. InColumn(l, s) \in SUBSET Issues
  BY DEF InColumn, Column
<1> QED
  BY <1>1, IssuesFinite

LEMMA ServerBucketType ==
  ASSUME db \in Table, NEW l \in Lists, NEW s \in Statuses PROVE ServerBucket(l, s) \in Bucket
  BY WindowType, ColumnCount DEF ServerBucket, Count, InColumn, Bucket

LEMMA AskedType == Asked \in Fetch /\ Asked # Idle
  BY NoneFacts DEF Asked, Fetch, Idle

-----------------------------------------------------------------------------
(* Cards                                                                   *)

LEMMA CardsFinite ==
  ASSUME NEW d \in Data, NEW s \in Statuses PROVE Cardinality(d[s].cards) \in Nat
<1> DEFINE C(b) == {c \in Card : c.mine = b}
<1>1. \A b \in BOOLEAN : IsFiniteSet(C(b))
  <2> TAKE b \in BOOLEAN
  <2> DEFINE f == [i \in Issues |-> [id |-> i, mine |-> b]]
  <2>1. f \in [Issues -> C(b)]
    BY DEF Card
  <2>2. \A c \in C(b) : c.id \in Issues /\ f[c.id] = c
    BY DEF Card
  <2> HIDE DEF f, C
  <2>3. f \in Surjection(Issues, C(b))
    BY <2>1, <2>2 DEF Surjection
  <2> QED
    BY <2>3, IssuesFinite, FS_Surjection
<1>2. Card = C(TRUE) \cup C(FALSE)
  BY DEF Card
<1>3. IsFiniteSet(Card)
  <2> HIDE DEF C
  <2> QED
    BY <1>1, <1>2, FS_Union
<1>4. d[s].cards \in SUBSET Card
  BY DEF Data, Bucket
<1> QED
  BY <1>3, <1>4, FS_Subset, FS_CardinalityType

LEMMA LessType == ASSUME NEW n \in Nat PROVE Less(n) \in Nat
  BY DEF Less

LEMMA DataAt ==
  ASSUME NEW d \in Data, NEW s \in Statuses
  PROVE  d[s] \in Bucket /\ d[s].cards \in SUBSET Card /\ d[s].total \in Nat
  BY DEF Data, Bucket

LEMMA Found ==
  ASSUME NEW d \in Data, NEW i \in Issues, Columns(d, i) # {}
  PROVE  /\ Location(d, i) \in Columns(d, i) /\ Location(d, i) \in Statuses
         /\ CardOf(d, i) \in d[Location(d, i)].cards /\ CardOf(d, i).id = i
         /\ CardOf(d, i) \in Card
         /\ RowOf(d, i) \in Row
<1>1. Location(d, i) \in Columns(d, i) /\ Location(d, i) \in Statuses
  BY DEF Location, Columns
<1>2. CardOf(d, i) \in d[Location(d, i)].cards /\ CardOf(d, i).id = i
  BY <1>1 DEF CardOf, Columns
<1>3. CardOf(d, i) \in Card
  BY <1>1, <1>2, DataAt
<1> QED
  BY <1>1, <1>2, <1>3 DEF RowOf, Row, Card

LEMMA WithoutType ==
  ASSUME NEW b \in Bucket, NEW i
  PROVE  /\ Without(b, i) \in Bucket
         /\ Without(b, i).cards = {c \in b.cards : c.id # i} /\ Without(b, i).total = b.total
  BY DEF Without, Bucket

LEMMA MoveTotalType ==
  ASSUME NEW d \in Data, NEW from \in Statuses, NEW to \in Statuses
  PROVE  /\ MoveTotal(d, from, to) \in Data
         /\ \A s \in Statuses : MoveTotal(d, from, to)[s].cards = d[s].cards
         /\ from = to => MoveTotal(d, from, to) = d
         /\ from # to => /\ MoveTotal(d, from, to)[from].total = Less(d[from].total)
                         /\ MoveTotal(d, from, to)[to].total = d[to].total + 1
         /\ \A s \in Statuses \ {from, to} : MoveTotal(d, from, to)[s] = d[s]
  BY LessType DEF MoveTotal, Data, Bucket

LEMMA DecrementTotalType ==
  ASSUME NEW d \in Data, NEW s \in Statuses
  PROVE  /\ DecrementTotal(d, s) \in Data
         /\ DecrementTotal(d, s)[s].cards = d[s].cards
         /\ DecrementTotal(d, s)[s].total = Less(d[s].total)
         /\ \A t \in Statuses \ {s} : DecrementTotal(d, s)[t] = d[t]
  BY LessType DEF DecrementTotal, Data, Bucket

LEMMA RemoveIssueType ==
  ASSUME NEW d \in Data, NEW i \in Issues
  PROVE  /\ RemoveIssue(d, i) \in Data
         /\ Columns(d, i) = {} => RemoveIssue(d, i) = d
         /\ Columns(d, i) # {} =>
              LET f == Location(d, i) IN
              /\ RemoveIssue(d, i)[f].cards = {c \in d[f].cards : c.id # i}
              /\ RemoveIssue(d, i)[f].total = Less(d[f].total)
              /\ \A s \in Statuses \ {f} : RemoveIssue(d, i)[s] = d[s]
<1>1. CASE Columns(d, i) = {}
  BY <1>1 DEF RemoveIssue
<1>2. CASE Columns(d, i) # {}
  <2> DEFINE f == Location(d, i)
             b == [cards |-> Without(d[f], i).cards, total |-> Less(d[f].total)]
  <2>1. f \in Statuses
    BY <1>2, Found
  <2>2. /\ b \in Bucket
        /\ b.cards = {c \in d[f].cards : c.id # i} /\ b.total = Less(d[f].total)
    <3>1. /\ Without(d[f], i) \in Bucket
          /\ Without(d[f], i).cards = {c \in d[f].cards : c.id # i}
          /\ Without(d[f], i).total = d[f].total
      BY <2>1, DataAt, WithoutType
    <3>2. Less(d[f].total) \in Nat
      BY <2>1, DataAt, LessType
    <3> HIDE DEF f
    <3> QED
      BY <3>1, <3>2 DEF Bucket
  <2>3. RemoveIssue(d, i) = [d EXCEPT ![f] = b]
    BY <1>2 DEF RemoveIssue
  <2> HIDE DEF b, f
  <2>4. /\ RemoveIssue(d, i) \in Data /\ RemoveIssue(d, i)[f] = b
        /\ \A s \in Statuses \ {f} : RemoveIssue(d, i)[s] = d[s]
    BY <2>1, <2>2, <2>3 DEF Data
  <2> QED
    BY <1>2, <2>2, <2>4 DEF f
<1> QED
  BY <1>1, <1>2

\* The cards of a column without those of an issue.
Kept(d, i, s) ==
  IF s = Location(d, i) THEN {c \in d[s].cards : c.id # i} ELSE d[s].cards

\* The card leaves its column and enters that of its new row.
LEMMA PatchIssueType ==
  ASSUME NEW d \in Data, NEW i \in Issues, NEW patch \in Patch, Columns(d, i) # {}
  PROVE  LET f == Location(d, i)
             new == Merge(RowOf(d, i), patch)
         IN  /\ f \in Statuses /\ new \in Row
             /\ PatchIssue(d, i, patch) \in Data
             /\ PatchIssue(d, i, patch)[new.status].cards
                  = Kept(d, i, new.status) \cup {[id |-> i, mine |-> new.mine]}
             /\ \A s \in Statuses \ {new.status} : PatchIssue(d, i, patch)[s].cards = Kept(d, i, s)
             /\ \A s \in Statuses :
                  PatchIssue(d, i, patch)[s].total =
                    IF f = new.status THEN d[s].total
                    ELSE IF s = f THEN Less(d[s].total)
                    ELSE IF s = new.status THEN d[s].total + 1
                    ELSE d[s].total
<1> DEFINE f == Location(d, i)
           new == Merge(RowOf(d, i), patch)
           out == [d EXCEPT ![f] = Without(d[f], i)]
           moved == MoveTotal(out, f, new.status)
           card == [id |-> i, mine |-> new.mine]
           res == PatchIssue(d, i, patch)
<1>1. f \in Statuses /\ RowOf(d, i) \in Row
  BY Found
<1>2. new \in Row
  BY <1>1, MergeType
<1>3. new.status \in Statuses /\ card \in Card
  BY <1>2 DEF Row, Card
<1>4. out \in Data
  <2>1. Without(d[f], i) \in Bucket
    BY <1>1, DataAt, WithoutType
  <2> HIDE DEF f
  <2> QED
    BY <1>1, <2>1 DEF Data
<1>9. \A s \in Statuses : out[s].total = d[s].total /\ out[s].cards = Kept(d, i, s)
  <2>1. /\ Without(d[f], i).total = d[f].total
        /\ Without(d[f], i).cards = {c \in d[f].cards : c.id # i}
    BY <1>1, DataAt, WithoutType
  <2>2. \A s \in Statuses : out[s] = IF s = f THEN Without(d[f], i) ELSE d[s]
    BY DEF Data
  <2>3. \A s \in Statuses : Kept(d, i, s) = IF s = f THEN {c \in d[f].cards : c.id # i} ELSE d[s].cards
    BY DEF Kept
  <2> HIDE DEF out, f
  <2> QED
    BY <2>1, <2>2, <2>3
<1>5. res = [moved EXCEPT ![new.status].cards = moved[new.status].cards \cup {card}]
  BY DEF PatchIssue
<1> HIDE DEF f, new, out, card, res
<1>6. /\ moved \in Data
      /\ \A s \in Statuses : moved[s].cards = out[s].cards
      /\ f = new.status => moved = out
      /\ f # new.status => /\ moved[f].total = Less(out[f].total)
                           /\ moved[new.status].total = out[new.status].total + 1
      /\ \A s \in Statuses \ {f, new.status} : moved[s] = out[s]
  BY <1>1, <1>3, <1>4, MoveTotalType
<1> HIDE DEF moved
<1>7. moved[new.status].cards \cup {card} \in SUBSET Card
  BY <1>3, <1>6, DataAt
<1>8. /\ res \in Data
      /\ res[new.status].cards = moved[new.status].cards \cup {card}
      /\ res[new.status].total = moved[new.status].total
      /\ \A s \in Statuses \ {new.status} : res[s] = moved[s]
  BY <1>3, <1>5, <1>6, <1>7 DEF Data, Bucket
<1>10. \A s \in Statuses :
         res[s].total = IF f = new.status THEN d[s].total
                        ELSE IF s = f THEN Less(d[s].total)
                        ELSE IF s = new.status THEN d[s].total + 1
                        ELSE d[s].total
  BY <1>1, <1>3, <1>6, <1>8, <1>9
<1>11. /\ res[new.status].cards = Kept(d, i, new.status) \cup {card}
       /\ \A s \in Statuses \ {new.status} : res[s].cards = Kept(d, i, s)
  BY <1>3, <1>6, <1>8, <1>9
<1> QED
  BY <1>1, <1>2, <1>8, <1>10, <1>11 DEF f, new, card, res

LEMMA AddIssueType ==
  ASSUME NEW d \in Data, NEW i \in Issues, NEW row \in Row
  PROVE  /\ AddIssue(d, i, row) \in Data
         /\ row.status \in Columns(d, i) => AddIssue(d, i, row) = d
         /\ row.status \notin Columns(d, i) =>
              /\ AddIssue(d, i, row)[row.status].cards
                   = d[row.status].cards \cup {[id |-> i, mine |-> row.mine]}
              /\ AddIssue(d, i, row)[row.status].total = d[row.status].total + 1
              /\ \A s \in Statuses \ {row.status} : AddIssue(d, i, row)[s] = d[s]
<1> DEFINE b == [cards |-> d[row.status].cards \cup {[id |-> i, mine |-> row.mine]},
                 total |-> d[row.status].total + 1]
<1>1. row.status \in Statuses /\ [id |-> i, mine |-> row.mine] \in Card
  BY DEF Row, Card
<1>2. b \in Bucket
  BY <1>1, DataAt DEF Bucket
<1>3. row.status \notin Columns(d, i) => AddIssue(d, i, row) = [d EXCEPT ![row.status] = b]
  BY DEF AddIssue
<1>4. /\ b.cards = d[row.status].cards \cup {[id |-> i, mine |-> row.mine]}
      /\ b.total = d[row.status].total + 1
  OBVIOUS
<1>5. row.status \in Columns(d, i) => AddIssue(d, i, row) = d
  BY DEF AddIssue
<1> HIDE DEF b
<1>6. row.status \notin Columns(d, i) =>
        /\ AddIssue(d, i, row) \in Data /\ AddIssue(d, i, row)[row.status] = b
        /\ \A s \in Statuses \ {row.status} : AddIssue(d, i, row)[s] = d[s]
  BY <1>1, <1>2, <1>3 DEF Data
<1> QED
  BY <1>4, <1>5, <1>6

-----------------------------------------------------------------------------
(* applyIssueChange                                                        *)

Bits == [assignee: BOOLEAN, status: BOOLEAN]

LEMMA ChangedType ==
  ASSUME NEW patch, NEW base PROVE Changed(patch, base) \in Bits
  BY DEF Changed, Bits

Touched(l, changed) == l # "board" /\ changed.assignee
NowMatches(l, d, i, patch) == Matches(l, Merge(RowOf(d, i), patch).mine)
WasMatches(l, base) == IF base = None THEN "unknown" ELSE Matches(l, base.mine)
IsMatches(l, patch, base) == Matches(l, IF base = None THEN patch.mine ELSE Merge(base, patch).mine)
Moved(patch, changed, base) == changed.status /\ patch.status \notin {None, base.status}

\* A loaded card is patched, or removed where the list decides that it left.
LEMMA ChangeLoaded ==
  ASSUME NEW l, NEW d, NEW i, NEW patch, NEW changed, NEW base, Columns(d, i) # {}
  PROVE  \/ /\ Touched(l, changed) /\ NowMatches(l, d, i, patch) = "no"
            /\ Change(l, d, i, patch, changed, base)
                 = [data |-> RemoveIssue(d, i), write |-> TRUE, stale |-> FALSE]
         \/ /\ ~(Touched(l, changed) /\ NowMatches(l, d, i, patch) = "no")
            /\ LET res == Change(l, d, i, patch, changed, base) IN
               /\ res.data = PatchIssue(d, i, patch) /\ res.write
               /\ res.stale <=> Touched(l, changed) /\ NowMatches(l, d, i, patch) = "unknown"
  BY DEF Change, Touched, NowMatches, FilterDependsOn

\* Beyond the window, the totals follow, the list is marked, or nothing changed.
LEMMA ChangeBeyond ==
  ASSUME NEW l, NEW d, NEW i, NEW patch, NEW changed, NEW base, Columns(d, i) = {}
  PROVE  LET res == Change(l, d, i, patch, changed, base)
             was == WasMatches(l, base)
             is == IsMatches(l, patch, base)
             skip(stale) == [data |-> d, write |-> FALSE, stale |-> stale]
         IN  \/ ~Touched(l, changed) /\ ~changed.status /\ res = skip(FALSE)
             \/ was = "no" /\ is = "no" /\ res = skip(FALSE)
             \/ /\ was = "yes" /\ is = "yes" /\ Moved(patch, changed, base)
                /\ res = [data |-> MoveTotal(d, base.status, patch.status), write |-> TRUE,
                          stale |-> TRUE]
             \/ was = "yes" /\ is = "yes" /\ ~Moved(patch, changed, base) /\ res = skip(FALSE)
             \/ /\ was = "yes" /\ is = "no"
                /\ res = [data |-> DecrementTotal(d, base.status), write |-> TRUE, stale |-> FALSE]
             \/ /\ ~(was = "no" /\ is = "no") /\ ~(was = "yes" /\ is \in {"yes", "no"})
                /\ res = skip(TRUE)
<1> DEFINE res == Change(l, d, i, patch, changed, base)
           was == WasMatches(l, base)
           is == IsMatches(l, patch, base)
           moved == Moved(patch, changed, base)
           skip(stale) == [data |-> d, write |-> FALSE, stale |-> stale]
<1>1. res = CASE ~Touched(l, changed) /\ ~changed.status -> skip(FALSE)
              [] OTHER ->
                 CASE was = "no" /\ is = "no" -> skip(FALSE)
                   [] was = "yes" /\ is = "yes" ->
                        IF moved THEN [data |-> MoveTotal(d, base.status, patch.status),
                                       write |-> TRUE, stale |-> TRUE]
                                 ELSE skip(FALSE)
                   [] was = "yes" /\ is = "no" ->
                        [data |-> DecrementTotal(d, base.status), write |-> TRUE, stale |-> FALSE]
                   [] OTHER -> skip(TRUE)
  BY DEF Change, Touched, Moved, WasMatches, IsMatches, FilterDependsOn
<1> HIDE DEF res, was, is, moved, skip
<1>2. CASE ~Touched(l, changed) /\ ~changed.status
  BY <1>1, <1>2 DEF res, skip
<1>3. CASE Touched(l, changed) \/ changed.status
  <2>1. res = CASE was = "no" /\ is = "no" -> skip(FALSE)
                [] was = "yes" /\ is = "yes" ->
                     IF moved THEN [data |-> MoveTotal(d, base.status, patch.status),
                                    write |-> TRUE, stale |-> TRUE]
                              ELSE skip(FALSE)
                [] was = "yes" /\ is = "no" ->
                     [data |-> DecrementTotal(d, base.status), write |-> TRUE, stale |-> FALSE]
                [] OTHER -> skip(TRUE)
    BY <1>1, <1>3
  <2> QED
    BY <2>1 DEF res, was, is, moved, skip
<1> QED
  BY <1>2, <1>3

LEMMA MatchesFacts ==
  ASSUME NEW l \in Lists, NEW mine \in BOOLEAN \cup {None}
  PROVE  /\ Matches(l, mine) \in {"yes", "no", "unknown"}
         /\ l = "board" => Matches(l, mine) = "yes"
         /\ l = "all" => Matches(l, mine) = "unknown"
         /\ l = "mine" => /\ Matches(l, mine) = "yes" <=> mine = TRUE
                          /\ Matches(l, mine) = "no" <=> mine = FALSE
         /\ l \in {"board", "mine", "all"}
<1>1. l \in {"board", "mine", "all"}
  BY BoardAssumption DEF BoardAssumption
<1>2. CASE l = "board"
  BY <1>2 DEF Matches
<1>3. CASE l = "all"
  BY <1>3 DEF Matches
<1>4. CASE l = "mine" /\ mine = None
  BY <1>4, NoneFacts DEF Matches
<1>5. CASE l = "mine" /\ mine = TRUE
  BY <1>5, NoneFacts DEF Matches
<1>6. CASE l = "mine" /\ mine = FALSE
  BY <1>6, NoneFacts DEF Matches
<1> QED
  BY <1>1, <1>2, <1>3, <1>4, <1>5, <1>6

LEMMA ChangeType ==
  ASSUME NEW l \in Lists, NEW d \in Data, NEW i \in Issues, NEW patch \in Patch,
         NEW changed \in Bits, NEW base \in Row \cup {None}
  PROVE  LET res == Change(l, d, i, patch, changed, base) IN
         /\ res.data \in Data
         /\ ~res.write => res.data = d
<1> DEFINE res == Change(l, d, i, patch, changed, base)
<1>1. CASE Columns(d, i) # {}
  <2>1. RemoveIssue(d, i) \in Data
    BY RemoveIssueType
  <2>2. PatchIssue(d, i, patch) \in Data
    BY <1>1, PatchIssueType
  <2>3. res.write /\ res.data \in {RemoveIssue(d, i), PatchIssue(d, i, patch)}
    BY <1>1, ChangeLoaded
  <2> QED
    BY <2>1, <2>2, <2>3
<1>2. CASE Columns(d, i) = {}
  <2>1. WasMatches(l, base) = "yes" => base \in Row
    BY DEF WasMatches
  <2>2. base \in Row => DecrementTotal(d, base.status) \in Data
    BY DecrementTotalType DEF Row
  <2>3. base \in Row /\ Moved(patch, changed, base) => MoveTotal(d, base.status, patch.status) \in Data
    <3>1. SUFFICES ASSUME base \in Row, Moved(patch, changed, base)
                   PROVE  MoveTotal(d, base.status, patch.status) \in Data
      OBVIOUS
    <3>2. base.status \in Statuses /\ patch.status \in Statuses
      BY <3>1 DEF Moved, Row, Patch
    <3> QED
      BY <3>2, MoveTotalType
  <2>4. \/ res.data = d
        \/ res.write /\ res.data = MoveTotal(d, base.status, patch.status) /\ WasMatches(l, base) = "yes"
                     /\ Moved(patch, changed, base)
        \/ res.write /\ res.data = DecrementTotal(d, base.status) /\ WasMatches(l, base) = "yes"
    BY <1>2, ChangeBeyond
  <2> HIDE DEF res
  <2>5. res.data \in Data /\ (~res.write => res.data = d)
    BY <2>1, <2>2, <2>3, <2>4
  <2> QED
    BY <2>5 DEF res
<1> QED
  BY <1>1, <1>2

-----------------------------------------------------------------------------
(* The query cache                                                         *)

Undo == [Lists -> Data \cup {None}]

LEMMA InvalidateAt ==
  ASSUME NEW q \in Query
  PROVE  /\ Invalidate(q) \in Query
         /\ Invalidate(q).data = q.data /\ Invalidate(q).stale
         /\ Invalidate(q).fetch # Idle /\ Invalidate(q).fetch \in {Asked, q.fetch}
  BY AskedType DEF Invalidate, Query

LEMMA InvalidateAllAt ==
  ASSUME NEW qs \in Queries, NEW ls
  PROVE  /\ InvalidateAll(qs, ls) \in Queries
         /\ \A l \in Lists :
              LET q == InvalidateAll(qs, ls)[l] IN
              /\ q.data = qs[l].data
              /\ l \notin ls => q = qs[l]
              /\ l \in ls => q.stale /\ q.fetch # Idle /\ q.fetch \in {Asked, qs[l].fetch}
<1>1. \A l \in Lists : qs[l] \in Query
  BY DEF Queries
<1>2. \A l \in Lists : InvalidateAll(qs, ls)[l] = IF l \in ls THEN Invalidate(qs[l]) ELSE qs[l]
  BY DEF InvalidateAll
<1>3. \A l \in Lists : InvalidateAll(qs, ls)[l] \in Query
  BY <1>1, <1>2, InvalidateAt
<1>4. InvalidateAll(qs, ls) \in Queries
  BY <1>3 DEF InvalidateAll, Queries
<1> QED
  BY <1>1, <1>2, <1>4, InvalidateAt

LEMMA SetDataAt ==
  ASSUME NEW q \in Query, NEW d \in Data
  PROVE  /\ SetData(q, d) \in Query
         /\ SetData(q, d).data = d /\ ~SetData(q, d).stale /\ SetData(q, d).fetch = q.fetch
  BY DEF SetData, Query

LEMMA CancelAt ==
  ASSUME NEW q \in Query
  PROVE  /\ CancelQuery(q) \in Query
         /\ CancelQuery(q).data = q.data /\ CancelQuery(q).fetch = Idle
  BY DEF CancelQuery, Query, Fetch

\* What one applyIssueChange does to every list, and what it remembers.
LEMMA ApplyAt ==
  ASSUME NEW qs \in Queries, NEW i \in Issues, NEW patch \in Patch,
         NEW changed \in Bits, NEW base \in Row \cup {None}
  PROVE  LET change == ChangeOf(qs, i, patch, changed, base)
             res(l) == Change(l, qs[l].data, i, patch, changed, base)
         IN  /\ Apply(qs, change) \in Queries
             /\ PrevLists(qs, change) \in Undo
             /\ StaleKeys(change) \in SUBSET Lists
             /\ \A l \in Lists :
                  LET q == Apply(qs, change)[l] IN
                  /\ q.fetch = qs[l].fetch
                  /\ qs[l].data = None =>
                       q = qs[l] /\ PrevLists(qs, change)[l] = None /\ l \notin StaleKeys(change)
                  /\ qs[l].data # None =>
                       /\ q.data = res(l).data /\ q.data # None
                       /\ ~res(l).write => q = qs[l] /\ PrevLists(qs, change)[l] = None
                       /\ res(l).write => PrevLists(qs, change)[l] = qs[l].data
                       /\ l \in StaleKeys(change) <=> res(l).stale
<1> DEFINE change == ChangeOf(qs, i, patch, changed, base)
           res(l) == Change(l, qs[l].data, i, patch, changed, base)
<1>1. \A l \in Lists : qs[l] \in Query /\ qs[l].data \in Data \cup {None}
  BY DEF Queries, Query
<1>2. \A l \in Lists : qs[l].data # None => res(l).data \in Data /\ (~res(l).write => res(l).data = qs[l].data)
  BY <1>1, ChangeType
<1>3. \A l \in Lists :
        change[l] = IF qs[l].data = None THEN [data |-> None, write |-> FALSE, stale |-> FALSE]
                    ELSE res(l)
  BY DEF ChangeOf
<1> HIDE DEF res, change
<1>4. \A l \in Lists :
        /\ Apply(qs, change)[l] = IF change[l].write THEN SetData(qs[l], change[l].data) ELSE qs[l]
        /\ PrevLists(qs, change)[l] = IF change[l].write THEN qs[l].data ELSE None
        /\ l \in StaleKeys(change) <=> change[l].stale
  BY DEF Apply, PrevLists, StaleKeys
<1>5. ASSUME NEW l \in Lists
      PROVE  LET q == Apply(qs, change)[l] IN
             /\ q \in Query /\ PrevLists(qs, change)[l] \in Data \cup {None}
             /\ q.fetch = qs[l].fetch
             /\ qs[l].data = None =>
                  q = qs[l] /\ PrevLists(qs, change)[l] = None /\ l \notin StaleKeys(change)
             /\ qs[l].data # None =>
                  /\ q.data = res(l).data /\ q.data # None
                  /\ ~res(l).write => q = qs[l] /\ PrevLists(qs, change)[l] = None
                  /\ res(l).write => PrevLists(qs, change)[l] = qs[l].data
                  /\ l \in StaleKeys(change) <=> res(l).stale
  <2>1. CASE qs[l].data = None
    <3>1. ~change[l].write /\ ~change[l].stale
      BY <1>3, <2>1
    <3> QED
      BY <1>1, <1>4, <2>1, <3>1
  <2>2. CASE qs[l].data # None
    <3>1. change[l] = res(l)
      BY <1>3, <2>2
    <3>2. res(l).data \in Data /\ res(l).data # None /\ (~res(l).write => res(l).data = qs[l].data)
      BY <1>2, <2>2, NoneFacts
    <3>3. /\ SetData(qs[l], res(l).data) \in Query
          /\ SetData(qs[l], res(l).data).data = res(l).data
          /\ SetData(qs[l], res(l).data).fetch = qs[l].fetch
      BY <1>1, <3>2, SetDataAt
    <3> QED
      BY <1>1, <1>4, <2>2, <3>1, <3>2, <3>3
  <2> QED
    BY <2>1, <2>2
<1>6. Apply(qs, change) \in Queries
  BY <1>5 DEF Apply, Queries
<1>7. PrevLists(qs, change) \in Undo
  BY <1>5 DEF PrevLists, Undo
<1>8. StaleKeys(change) \in SUBSET Lists
  BY DEF StaleKeys
<1> QED
  BY <1>5, <1>6, <1>7, <1>8 DEF res, change

LEMMA RestoreAt ==
  ASSUME NEW qs \in Queries, NEW prev \in Undo
  PROVE  /\ Restore(qs, prev) \in Queries
         /\ \A l \in Lists :
              /\ Restore(qs, prev)[l].fetch = qs[l].fetch
              /\ prev[l] = None => Restore(qs, prev)[l] = qs[l]
              /\ prev[l] # None => Restore(qs, prev)[l].data = prev[l]
<1>1. \A l \in Lists : qs[l] \in Query /\ prev[l] \in Data \cup {None}
  BY DEF Queries, Undo
<1>2. \A l \in Lists :
        Restore(qs, prev)[l] = IF prev[l] = None THEN qs[l] ELSE SetData(qs[l], prev[l])
  BY DEF Restore
<1>3. \A l \in Lists : Restore(qs, prev)[l] \in Query
  BY <1>1, <1>2, SetDataAt
<1>4. Restore(qs, prev) \in Queries
  BY <1>3 DEF Restore, Queries
<1> QED
  BY <1>1, <1>2, <1>4, SetDataAt

LEMMA PruneAt ==
  ASSUME NEW qs \in Queries, NEW i \in Issues
  PROVE  /\ Prune(qs, i) \in Queries
         /\ \A l \in Lists :
              /\ Prune(qs, i)[l].fetch = qs[l].fetch
              /\ qs[l].data = None => Prune(qs, i)[l] = qs[l]
              /\ qs[l].data # None => /\ Prune(qs, i)[l].data = RemoveIssue(qs[l].data, i)
                                      /\ Prune(qs, i)[l].data # None
<1>1. \A l \in Lists : qs[l] \in Query /\ qs[l].data \in Data \cup {None}
  BY DEF Queries, Query
<1>2. \A l \in Lists :
        Prune(qs, i)[l] = IF qs[l].data = None THEN qs[l]
                          ELSE SetData(qs[l], RemoveIssue(qs[l].data, i))
  BY DEF Prune
<1>3. \A l \in Lists : qs[l].data # None =>
        RemoveIssue(qs[l].data, i) \in Data /\ RemoveIssue(qs[l].data, i) # None
  BY <1>1, RemoveIssueType, NoneFacts
<1>4. \A l \in Lists : Prune(qs, i)[l] \in Query
  BY <1>1, <1>2, <1>3, SetDataAt
<1>5. Prune(qs, i) \in Queries
  BY <1>4 DEF Prune, Queries
<1> QED
  BY <1>1, <1>2, <1>3, <1>5, SetDataAt

LEMMA AddToBoardAt ==
  ASSUME NEW qs \in Queries, NEW i \in Issues, NEW row \in Row
  PROVE  /\ AddToBoard(qs, i, row) \in Queries
         /\ \A l \in Lists :
              /\ AddToBoard(qs, i, row)[l].fetch = qs[l].fetch
              /\ l # "board" \/ qs[l].data = None => AddToBoard(qs, i, row)[l] = qs[l]
              /\ l = "board" /\ qs[l].data # None =>
                   /\ AddToBoard(qs, i, row)[l].data = AddIssue(qs[l].data, i, row)
                   /\ AddToBoard(qs, i, row)[l].data # None
<1>1. \A l \in Lists : qs[l] \in Query /\ qs[l].data \in Data \cup {None}
  BY DEF Queries, Query
<1>2. \A l \in Lists :
        AddToBoard(qs, i, row)[l] =
          IF l # "board" \/ qs[l].data = None THEN qs[l]
          ELSE SetData(qs[l], AddIssue(qs[l].data, i, row))
  BY DEF AddToBoard
<1>3. \A l \in Lists : qs[l].data # None =>
        AddIssue(qs[l].data, i, row) \in Data /\ AddIssue(qs[l].data, i, row) # None
  BY <1>1, AddIssueType, NoneFacts
<1>4. \A l \in Lists : AddToBoard(qs, i, row)[l] \in Query
  BY <1>1, <1>2, <1>3, SetDataAt
<1>5. AddToBoard(qs, i, row) \in Queries
  BY <1>4 DEF AddToBoard, Queries
<1> QED
  BY <1>1, <1>2, <1>3, <1>5, SetDataAt

-----------------------------------------------------------------------------
(* Type correctness                                                        *)

Load == [sent: BOOLEAN, row: Row \cup {None}]

LEMMA TypeParts ==
  TypeOK <=> /\ db \in Table /\ view \in Table /\ detail \in Table
             /\ load \in [Issues -> Load] /\ online \in BOOLEAN /\ wire \in Seq(Message)
             /\ list \in Queries /\ edit \in [1..MaxEdits -> Edit]
             /\ more = None \/ (more \in Awaited /\ list[more.list].data # None)
             /\ acts \in Nat
  BY DEF TypeOK, Table, Load, Queries, Query, Fetch

\* Only the lists change, and the ones with data keep some.
LEMMA TypeList ==
  ASSUME TypeOK, list' \in Queries,
         \A l \in Lists : list[l].data # None => list'[l].data # None,
         detail' \in Table, load' \in [Issues -> Load], edit' \in [1..MaxEdits -> Edit],
         wire' \in Seq(Message), online' \in BOOLEAN, view' \in Table, acts' \in Nat,
         UNCHANGED <<db, more>>
  PROVE  TypeOK'
<1>1. db' \in Table
  BY TypeParts
<1>2. more' = None \/ (more' \in Awaited /\ list'[more'.list].data # None)
  BY TypeParts DEF Awaited
<1>3. /\ db' \in [Issues -> Row \cup {None}] /\ view' \in [Issues -> Row \cup {None}]
      /\ detail' \in [Issues -> Row \cup {None}]
  BY <1>1 DEF Table
<1>4. load' \in [Issues -> [sent: BOOLEAN, row: Row \cup {None}]]
  BY DEF Load
<1>5. list' \in [Lists -> [data: Data \cup {None}, stale: BOOLEAN,
                          fetch: [Statuses -> Bucket \cup {None}] \cup {Idle}]]
  BY DEF Queries, Query, Fetch
<1> QED
  BY <1>2, <1>3, <1>4, <1>5 DEF TypeOK

LEMMA PatchDetailType ==
  ASSUME detail \in Table, NEW i \in Issues, NEW patch \in Patch
  PROVE  PatchDetail(i, patch) \in Table
<1>1. detail[i] # None => Merge(detail[i], patch) \in Row
  BY MergeType DEF Table
<1> QED
  BY <1>1 DEF PatchDetail, Table

LEMMA NoEditType == NoEdit \in Edit
<1>1. NoUndo \in [Lists -> Data \cup {None}]
  BY DEF NoUndo
<1>2. 1 \in Issues
  BY BoardAssumption DEF BoardAssumption, Issues
<1> HIDE DEF NoUndo
<1> QED
  BY <1>1, <1>2 DEF NoEdit, Edit, Patch

LEMMA PublishType ==
  ASSUME wire \in Seq(Message), NEW e \in Message, Publish(e) PROVE wire' \in Seq(Message)
  BY DEF Publish

LEMMA ActType == ASSUME acts \in Nat, Act PROVE acts' \in Nat
  BY DEF Act

LEMMA TypeCommit == ASSUME TypeOK, Commit PROVE TypeOK'
<1>1. PICK i \in Issues :
       \/ \E patch \in Patch :
            /\ db[i] # None /\ db' = [db EXCEPT ![i] = Merge(db[i], patch)]
            /\ Publish(Event("updated", i, db'[i], Changed(patch, db[i])))
       \/ \E row \in Row :
            /\ db[i] = None /\ db' = [db EXCEPT ![i] = row]
            /\ Publish(Event("created", i, row, Unchanged))
       \/ /\ db[i] # None /\ db' = [db EXCEPT ![i] = None]
          /\ Publish(Event("deleted", i, None, Unchanged))
  BY DataAssumption DEF Commit, DataAssumption
<1>2. /\ db \in Table /\ wire \in Seq(Message)
      /\ db[i] # None => db[i] \in Row
  BY TypeParts DEF Table
<1>3. db' \in Table /\ wire' \in Seq(Message)
  <2>1. CASE \E patch \in Patch :
               /\ db[i] # None /\ db' = [db EXCEPT ![i] = Merge(db[i], patch)]
               /\ Publish(Event("updated", i, db'[i], Changed(patch, db[i])))
    <3>1. PICK patch \in Patch :
               /\ db[i] # None /\ db' = [db EXCEPT ![i] = Merge(db[i], patch)]
               /\ Publish(Event("updated", i, db'[i], Changed(patch, db[i])))
      BY <2>1
    <3>2. Merge(db[i], patch) \in Row /\ Changed(patch, db[i]) \in Bits
      BY <1>2, <3>1, MergeType, ChangedType
    <3>3. db' \in Table /\ db'[i] \in Row
      BY <1>2, <3>1, <3>2 DEF Table
    <3>4. Event("updated", i, db'[i], Changed(patch, db[i])) \in Message
      BY <3>2, <3>3, NoneFacts DEF Event, Message, Bits
    <3> QED
      BY <1>2, <3>1, <3>3, <3>4, PublishType
  <2>2. CASE \E row \in Row :
               /\ db[i] = None /\ db' = [db EXCEPT ![i] = row]
               /\ Publish(Event("created", i, row, Unchanged))
    <3>1. PICK row \in Row :
               /\ db' = [db EXCEPT ![i] = row] /\ Publish(Event("created", i, row, Unchanged))
      BY <2>2
    <3>2. Event("created", i, row, Unchanged) \in Message
      BY NoneFacts DEF Event, Message, Unchanged
    <3>3. db' \in Table
      BY <1>2, <3>1 DEF Table
    <3> QED
      BY <1>2, <3>1, <3>2, <3>3, PublishType
  <2>3. CASE /\ db[i] # None /\ db' = [db EXCEPT ![i] = None]
             /\ Publish(Event("deleted", i, None, Unchanged))
    <3>1. Event("deleted", i, None, Unchanged) \in Message
      BY DEF Event, Message, Unchanged
    <3>2. db' \in Table
      BY <1>2, <2>3 DEF Table
    <3> QED
      BY <1>2, <2>3, <3>1, <3>2, PublishType
  <2> QED
    BY <1>1, <2>1, <2>2, <2>3
<1> QED
  BY <1>3, TypeParts, ActType DEF Commit, TypeOK, Table, Load, Queries, Query, Fetch

LEMMA TypeRead ==
  ASSUME TypeOK, NEW l \in Lists, NEW s \in Statuses, Read(l, s) PROVE TypeOK'
<1> DEFINE fetch == [list[l].fetch EXCEPT ![s] = ServerBucket(l, s)]
<1>1. list \in Queries /\ db \in Table
  BY TypeParts
<1>2. list[l].fetch \in [Statuses -> Bucket \cup {None}] /\ list[l] \in Query
  BY <1>1 DEF Read, Queries, Query, Fetch
<1>3. fetch \in [Statuses -> Bucket \cup {None}]
  BY <1>1, <1>2, ServerBucketType
<1>4. list' = [list EXCEPT ![l] = [list[l] EXCEPT !.fetch = fetch]]
  BY DEF Read
<1> HIDE DEF fetch
<1>5. [list[l] EXCEPT !.fetch = fetch] \in Query /\ [list[l] EXCEPT !.fetch = fetch].data = list[l].data
  BY <1>2, <1>3 DEF Query, Fetch
<1>6. list' \in Queries /\ \A k \in Lists : list'[k].data = list[k].data
  BY <1>1, <1>4, <1>5 DEF Queries
<1> QED
  BY <1>6, TypeList, TypeParts DEF Read

LEMMA TypeFetched ==
  ASSUME TypeOK, NEW l \in Lists, Fetched(l) PROVE TypeOK'
<1>1. list \in Queries
  BY TypeParts
<1>2. list[l].fetch \in [Statuses -> Bucket \cup {None}]
  BY <1>1 DEF Fetched, Queries, Query, Fetch
<1>3. list[l].fetch \in Data
  BY <1>2 DEF Fetched, Data
<1>4. [data |-> list[l].fetch, stale |-> FALSE, fetch |-> Idle] \in Query
  BY <1>3 DEF Query, Fetch
<1>5. /\ list' \in Queries
      /\ \A k \in Lists : list[k].data # None => list'[k].data # None
  BY <1>1, <1>3, <1>4, NoneFacts DEF Fetched, Queries
<1> QED
  BY <1>5, TypeList, TypeParts DEF Fetched

LEMMA TypeRemount ==
  ASSUME TypeOK, NEW l \in Lists, Remount(l) PROVE TypeOK'
<1>1. list \in Queries /\ list[l] \in Query
  BY TypeParts DEF Queries
<1>2. /\ [list[l] EXCEPT !.fetch = Asked] \in Query
      /\ [list[l] EXCEPT !.fetch = Asked].data = list[l].data
  BY <1>1, AskedType DEF Query
<1>3. list' \in Queries /\ \A k \in Lists : list'[k].data = list[k].data
  BY <1>1, <1>2 DEF Remount, Queries
<1> QED
  BY <1>3, TypeList, TypeParts DEF Remount

LEMMA TypeLoadMore ==
  ASSUME TypeOK, NEW l \in Lists, NEW s \in Statuses, LoadMore(l, s) PROVE TypeOK'
<1>1. list[l].data \in Data
  BY TypeParts DEF LoadMore, Queries, Query
<1>2. Cardinality(list[l].data[s].cards) \in Nat
  BY <1>1, CardsFinite
<1>3. more' = [list |-> l, status |-> s, offset |-> Cardinality(list[l].data[s].cards), page |-> None]
  BY DEF LoadMore
<1>4. more' \in Awaited /\ more'.list = l
  BY <1>2, <1>3 DEF Awaited
<1> QED
  BY <1>4, TypeParts DEF LoadMore, TypeOK, Table, Load, Queries, Query, Fetch

LEMMA TypeReadMore == ASSUME TypeOK, ReadMore PROVE TypeOK'
<1> DEFINE page == [cards |-> Window(more.list, more.status, more.offset),
                    total |-> Count(db, more.list, more.status)]
<1>1. /\ more \in Awaited /\ list[more.list].data # None /\ db \in Table
      /\ more' = [more EXCEPT !.page = page]
  BY TypeParts DEF ReadMore
<1>2. page \in Bucket
  <2>1. Window(more.list, more.status, more.offset) \in SUBSET Card
    BY <1>1, WindowType DEF Awaited
  <2>2. Count(db, more.list, more.status) \in Nat
    <3>1. Count(db, more.list, more.status) = Cardinality(InColumn(more.list, more.status))
      BY DEF Count, InColumn
    <3> QED
      BY <3>1, ColumnCount
  <2> QED
    BY <2>1, <2>2 DEF Bucket
<1> HIDE DEF page
<1>3. more' \in Awaited /\ more'.list = more.list
  BY <1>1, <1>2 DEF Awaited
<1> QED
  BY <1>1, <1>3, TypeParts DEF ReadMore, TypeOK, Table, Load, Queries, Query, Fetch

LEMMA MoreLoadedAt ==
  ASSUME TypeOK, MoreLoaded
  PROVE  LET l == more.list
             s == more.status
             old == list[l].data[s].cards
             new == {c \in more.page.cards : \A o \in old : o.id # c.id}
             b == [cards |-> old \cup new, total |-> more.page.total]
             d == [list[l].data EXCEPT ![s] = b]
         IN  /\ l \in Lists /\ s \in Statuses /\ list[l].data \in Data /\ more.page \in Bucket
             /\ d \in Data /\ d[s].cards = old \cup new /\ d[s].total = more.page.total
             /\ \A t \in Statuses \ {s} : d[t] = list[l].data[t]
             /\ list' = [list EXCEPT ![l] = SetData(list[l], d)]
<1> DEFINE l == more.list
           s == more.status
           old == list[l].data[s].cards
           new == {c \in more.page.cards : \A o \in old : o.id # c.id}
           b == [cards |-> old \cup new, total |-> more.page.total]
           d == [list[l].data EXCEPT ![s] = b]
<1>1. /\ list \in Queries /\ l \in Lists /\ s \in Statuses /\ more.page \in Bucket
      /\ list[l].data # None
  BY TypeParts DEF MoreLoaded, Awaited
<1>2. list[l].data \in Data
  BY <1>1 DEF Queries, Query
<1>3. old \in SUBSET Card
  BY <1>1, <1>2, DataAt
<1>4. b \in Bucket /\ b.cards = old \cup new /\ b.total = more.page.total
  BY <1>1, <1>3 DEF Bucket
<1>5. list' = [list EXCEPT ![l] = SetData(list[l], d)]
  BY DEF MoreLoaded
<1> HIDE DEF b
<1>6. /\ d \in Data /\ d[s] = b
      /\ \A t \in Statuses \ {s} : d[t] = list[l].data[t]
  BY <1>1, <1>2, <1>4 DEF Data
<1> HIDE DEF d
<1>7. d[s].cards = old \cup new /\ d[s].total = more.page.total
  BY <1>4, <1>6
<1> QED
  BY <1>1, <1>2, <1>5, <1>6, <1>7 DEF b, d

LEMMA TypeMoreLoaded == ASSUME TypeOK, MoreLoaded PROVE TypeOK'
<1>1. PICK l \in Lists, d \in Data : list' = [list EXCEPT ![l] = SetData(list[l], d)]
  BY MoreLoadedAt
<1>2. list \in Queries /\ list[l] \in Query
  BY TypeParts DEF Queries
<1>3. SetData(list[l], d) \in Query /\ SetData(list[l], d).data # None
  BY <1>2, SetDataAt, NoneFacts
<1>4. list' \in Queries
  BY <1>1, <1>2, <1>3 DEF Queries
<1> QED
  BY <1>4, TypeParts DEF MoreLoaded, TypeOK, Table, Load, Queries, Query, Fetch

Cancelled == [l \in Lists |-> CancelQuery(list[l])]

LEMMA CancelledAt ==
  ASSUME list \in Queries
  PROVE  /\ Cancelled \in Queries
         /\ \A l \in Lists : Cancelled[l].data = list[l].data /\ Cancelled[l].fetch = Idle
<1>1. \A l \in Lists : list[l] \in Query /\ Cancelled[l] = CancelQuery(list[l])
  BY DEF Queries, Cancelled
<1>2. \A l \in Lists : Cancelled[l] \in Query
  BY <1>1, CancelAt
<1>3. Cancelled \in Queries
  BY <1>2 DEF Cancelled, Queries
<1> QED
  BY <1>1, <1>3, CancelAt

LEMMA TypeUpdate ==
  ASSUME TypeOK, NEW n \in DOMAIN edit, NEW i \in Issues, NEW patch \in Patch, Update(n, i, patch)
  PROVE  TypeOK'
<1> DEFINE change == ChangeOf(Cancelled, i, patch, Changed(patch, detail[i]), detail[i])
<1>1. /\ list \in Queries /\ detail \in Table /\ detail[i] \in Row \cup {None}
      /\ edit \in [1..MaxEdits -> Edit]
  BY TypeParts DEF Table
<1>2. Changed(patch, detail[i]) \in Bits
  BY ChangedType
<1>3. /\ Cancelled \in Queries
      /\ \A l \in Lists : Cancelled[l].data = list[l].data
  BY <1>1, CancelledAt
<1>4. /\ list' = Apply(Cancelled, change) /\ detail' = PatchDetail(i, patch)
      /\ edit' = [edit EXCEPT ![n] = [NoEdit EXCEPT
                    !.stage = "sent", !.id = i, !.patch = patch,
                    !.undo = PrevLists(Cancelled, change), !.undoDetail = detail[i],
                    !.stale = StaleKeys(change)]]
      /\ Act /\ UNCHANGED <<db, wire, online, load, more, view>>
  BY DEF Update, Cancelled
<1>5. /\ Apply(Cancelled, change) \in Queries /\ PrevLists(Cancelled, change) \in Undo
      /\ StaleKeys(change) \in SUBSET Lists
      /\ \A l \in Lists : Apply(Cancelled, change)[l].data = None => Cancelled[l].data = None
  BY <1>1, <1>2, <1>3, ApplyAt
<1> HIDE DEF change
<1>6. [NoEdit EXCEPT !.stage = "sent", !.id = i, !.patch = patch,
         !.undo = PrevLists(Cancelled, change), !.undoDetail = detail[i],
         !.stale = StaleKeys(change)] \in Edit
  BY <1>1, <1>5, NoEditType DEF Edit, Undo
<1>7. edit' \in [1..MaxEdits -> Edit]
  BY <1>1, <1>4, <1>6
<1>8. detail' \in Table
  BY <1>1, <1>4, PatchDetailType
<1> QED
  BY <1>3, <1>4, <1>5, <1>7, <1>8, ActType, TypeParts, TypeList

LEMMA TypeDelete ==
  ASSUME TypeOK, NEW n \in DOMAIN edit, NEW i \in Issues, Delete(n, i) PROVE TypeOK'
<1>1. list \in Queries /\ edit \in [1..MaxEdits -> Edit]
  BY TypeParts
<1>2. /\ Cancelled \in Queries
      /\ \A l \in Lists : Cancelled[l].data = list[l].data
  BY <1>1, CancelledAt
<1>3. /\ list' = Cancelled
      /\ edit' = [edit EXCEPT ![n] = [NoEdit EXCEPT
                    !.stage = "cancelling", !.type = "deleted", !.id = i]]
      /\ Act /\ UNCHANGED <<db, wire, online, detail, load, more, view>>
  BY DEF Delete, Cancelled
<1>4. [NoEdit EXCEPT !.stage = "cancelling", !.type = "deleted", !.id = i] \in Edit
  BY NoEditType DEF Edit
<1>5. edit' \in [1..MaxEdits -> Edit]
  BY <1>1, <1>3, <1>4
<1> QED
  BY <1>2, <1>3, <1>5, ActType, TypeParts, TypeList

LEMMA NoLoadType == NoLoad \in Load
  BY DEF NoLoad, Load

LEMMA TypePruneDeleted ==
  ASSUME TypeOK, NEW n \in DOMAIN edit, PruneDeleted(n) PROVE TypeOK'
<1> DEFINE i == edit[n].id
           undo == [l \in Lists |-> list[l].data]
           e == [edit[n] EXCEPT !.stage = "sent", !.undoDetail = detail[i], !.undo = undo]
<1>1. /\ list \in Queries /\ detail \in Table /\ load \in [Issues -> Load]
      /\ edit \in [1..MaxEdits -> Edit] /\ edit[n] \in Edit
  BY TypeParts
<1>2. i \in Issues /\ undo \in Undo
  BY <1>1 DEF Edit, Undo, Queries, Query
<1>3. /\ list' = Prune(list, i) /\ detail' = [detail EXCEPT ![i] = None]
      /\ load' = [load EXCEPT ![i] = NoLoad] /\ edit' = [edit EXCEPT ![n] = e]
      /\ UNCHANGED <<db, wire, online, more, acts, view>>
  BY DEF PruneDeleted
<1>4. /\ Prune(list, i) \in Queries
      /\ \A l \in Lists : Prune(list, i)[l].data = None => list[l].data = None
  BY <1>1, <1>2, PruneAt
<1>5. detail[i] \in Row \cup {None}
  BY <1>1, <1>2 DEF Table
<1> HIDE DEF i, undo
<1>6. e \in Edit
  BY <1>1, <1>2, <1>5 DEF Edit, Undo
<1> HIDE DEF e
<1>7. edit' \in [1..MaxEdits -> Edit] /\ detail' \in Table /\ load' \in [Issues -> Load]
  BY <1>1, <1>2, <1>3, <1>6, NoLoadType DEF Table
<1> QED
  BY <1>3, <1>4, <1>7, TypeParts, TypeList

\* What the server does with a request.
LEMMA TypeServe == ASSUME TypeOK, NEW n \in DOMAIN edit, Serve(n) PROVE TypeOK'
<1> DEFINE e == edit[n]
           row == IF e.type = "deleted" THEN None ELSE Merge(db[e.id], e.patch)
           event == Event(e.type, e.id, row,
                          IF row = None THEN Unchanged ELSE Changed(e.patch, db[e.id]))
<1>1. /\ db \in Table /\ wire \in Seq(Message) /\ edit \in [1..MaxEdits -> Edit] /\ e \in Edit
      /\ acts \in Nat
  BY TypeParts
<1>2. /\ e.id \in Issues /\ e.type \in {"updated", "deleted"} /\ e.patch \in Patch
  BY <1>1 DEF Edit
<1>3. db[e.id] # None => /\ row \in Row \cup {None}
                         /\ e.type = "updated" => row \in Row
  BY <1>1, <1>2, MergeType DEF Table
<1>4. db[e.id] # None => event \in Message
  <2>1. (IF row = None THEN Unchanged ELSE Changed(e.patch, db[e.id])) \in Bits
    BY ChangedType DEF Unchanged, Bits
  <2> HIDE DEF row
  <2> QED
    BY <1>2, <1>3, <2>1, NoneFacts DEF Event, Message, Bits
<1>5. /\ [e EXCEPT !.stage = "failed"] \in Edit
      /\ db[e.id] # None => [e EXCEPT !.stage = "ok", !.reply = row] \in Edit
  <2> HIDE DEF row, e
  <2> QED
    BY <1>1, <1>2, <1>3, NoneFacts DEF Edit
<1>6. \/ /\ db[e.id] # None /\ db' = [db EXCEPT ![e.id] = row] /\ Publish(event)
         /\ \/ edit' = [edit EXCEPT ![n] = [e EXCEPT !.stage = "ok", !.reply = row]] /\ UNCHANGED acts
            \/ Act /\ edit' = [edit EXCEPT ![n] = [e EXCEPT !.stage = "failed"]]
      \/ /\ edit' = [edit EXCEPT ![n] = [e EXCEPT !.stage = "failed"]]
         /\ acts' \in Nat /\ UNCHANGED <<db, wire>>
  BY <1>1, ActType DEF Serve
<1>7. UNCHANGED <<online, list, detail, load, more, view>>
  BY DEF Serve
<1> HIDE DEF e, row, event
<1>8. /\ db' \in Table /\ wire' \in Seq(Message) /\ edit' \in [1..MaxEdits -> Edit] /\ acts' \in Nat
  <2>1. CASE /\ db[e.id] # None /\ db' = [db EXCEPT ![e.id] = row] /\ Publish(event)
             /\ \/ edit' = [edit EXCEPT ![n] = [e EXCEPT !.stage = "ok", !.reply = row]] /\ UNCHANGED acts
                \/ Act /\ edit' = [edit EXCEPT ![n] = [e EXCEPT !.stage = "failed"]]
    <3>1. db' \in Table
      BY <1>1, <1>2, <1>3, <2>1 DEF Table
    <3>2. wire' \in Seq(Message)
      BY <1>1, <1>4, <2>1, PublishType
    <3>3. edit' \in [1..MaxEdits -> Edit]
      <4> DEFINE ok == [e EXCEPT !.stage = "ok", !.reply = row]
                 failed == [e EXCEPT !.stage = "failed"]
      <4>1. ok \in Edit /\ failed \in Edit
        BY <1>5, <2>1
      <4>2. edit' = [edit EXCEPT ![n] = ok] \/ edit' = [edit EXCEPT ![n] = failed]
        BY <2>1
      <4> HIDE DEF ok, failed
      <4> QED
        BY <1>1, <4>1, <4>2
    <3>4. acts' \in Nat
      BY <1>1, <2>1, ActType
    <3> QED
      BY <3>1, <3>2, <3>3, <3>4
  <2>2. CASE /\ edit' = [edit EXCEPT ![n] = [e EXCEPT !.stage = "failed"]]
             /\ acts' \in Nat /\ UNCHANGED <<db, wire>>
    BY <1>1, <1>5, <2>2
  <2> QED
    BY <1>6, <2>1, <2>2
<1> QED
  BY <1>7, <1>8, TypeParts DEF TypeOK, Table, Load, Queries, Query, Fetch

LEMMA SettledType ==
  ASSUME edit \in [1..MaxEdits -> Edit], NEW n \in DOMAIN edit
  PROVE  [edit EXCEPT ![n] = [NoEdit EXCEPT !.stage = "settled"]] \in [1..MaxEdits -> Edit]
<1>1. [NoEdit EXCEPT !.stage = "settled"] \in Edit
  BY NoEditType DEF Edit
<1> QED
  BY <1>1

LEMMA CleanUpAt ==
  ASSUME list \in Queries, NEW i \in Issues
  PROVE  /\ CleanUp(list, i) \in Queries
         /\ \A l \in Lists :
              /\ CleanUp(list, i)[l].fetch # Idle /\ CleanUp(list, i)[l].fetch \in {Asked, list[l].fetch}
              /\ CleanUp(list, i)[l].stale
              /\ list[l].data = None => CleanUp(list, i)[l].data = None
              /\ list[l].data # None => /\ CleanUp(list, i)[l].data = RemoveIssue(list[l].data, i)
                                        /\ CleanUp(list, i)[l].data # None
<1>1. /\ Prune(list, i) \in Queries
      /\ \A l \in Lists :
           /\ Prune(list, i)[l].fetch = list[l].fetch
           /\ list[l].data = None => Prune(list, i)[l] = list[l]
           /\ list[l].data # None => /\ Prune(list, i)[l].data = RemoveIssue(list[l].data, i)
                                     /\ Prune(list, i)[l].data # None
  BY PruneAt
<1> QED
  BY <1>1, InvalidateAllAt DEF CleanUp

\* An answer or an event is written to the lists and the detail.
LEMMA TypeWritten ==
  ASSUME TypeOK, NEW i \in Issues, NEW row \in Row, NEW changed \in Bits,
         NEW base \in Row \cup {None}, NEW keys,
         list' = InvalidateAll(Apply(list, ChangeOf(list, i, row, changed, base)), keys),
         detail' = PatchDetail(i, row)
  PROVE  /\ list' \in Queries /\ detail' \in Table
         /\ \A l \in Lists : list[l].data # None => list'[l].data # None
<1> DEFINE qs == Apply(list, ChangeOf(list, i, row, changed, base))
<1>1. list \in Queries /\ detail \in Table /\ row \in Patch
  BY TypeParts, RowPatch
<1>2. qs \in Queries /\ \A l \in Lists : list[l].data # None => qs[l].data # None
  BY <1>1, ApplyAt
<1>3. detail' \in Table
  BY <1>1, PatchDetailType
<1> HIDE DEF qs
<1>4. /\ InvalidateAll(qs, keys) \in Queries
      /\ \A l \in Lists : InvalidateAll(qs, keys)[l].data = qs[l].data
  BY <1>2, InvalidateAllAt
<1> QED
  BY <1>2, <1>3, <1>4 DEF qs

LEMMA TypeCleanedUp ==
  ASSUME TypeOK, NEW i \in Issues, list' = CleanUp(list, i), detail' = [detail EXCEPT ![i] = None]
  PROVE  /\ list' \in Queries /\ detail' \in Table
         /\ \A l \in Lists : list[l].data # None => list'[l].data # None
  BY TypeParts, CleanUpAt DEF Table

LEMMA LoadDropped ==
  ASSUME TypeOK, NEW i, load' = [load EXCEPT ![i] = NoLoad] PROVE load' \in [Issues -> Load]
  BY TypeParts, NoLoadType

LEMMA TypeSuccess == ASSUME TypeOK, NEW n \in DOMAIN edit, Success(n) PROVE TypeOK'
<1> DEFINE e == edit[n]
           change == ChangeOf(list, e.id, e.reply, Changed(e.patch, e.reply), e.reply)
<1>1. e \in Edit /\ edit \in [1..MaxEdits -> Edit] /\ e.stage = "ok"
  BY TypeParts DEF Success
<1>2. e.id \in Issues /\ (e.type = "updated" => e.reply \in Row)
  BY <1>1 DEF Edit
<1>3. /\ list' \in Queries /\ detail' \in Table
      /\ \A l \in Lists : list[l].data # None => list'[l].data # None
  <2>1. CASE /\ e.type = "updated"
             /\ list' = InvalidateAll(Apply(list, change), StaleKeys(change) \cup e.stale)
             /\ detail' = PatchDetail(e.id, e.reply)
    <3>1. Changed(e.patch, e.reply) \in Bits
      BY ChangedType
    <3> HIDE DEF e
    <3> QED
      BY <1>2, <2>1, <3>1, TypeWritten
  <2>2. CASE list' = CleanUp(list, e.id) /\ detail' = [detail EXCEPT ![e.id] = None]
    <3> HIDE DEF e
    <3> QED
      BY <1>2, <2>2, TypeCleanedUp
  <2> QED
    BY <2>1, <2>2 DEF Success
<1>4. edit' \in [1..MaxEdits -> Edit]
  BY <1>1, SettledType DEF Success
<1>5. load' \in [Issues -> Load]
  BY TypeParts, LoadDropped DEF Success
<1> QED
  BY <1>3, <1>4, <1>5, TypeList, TypeParts DEF Success

LEMMA TypeFailure == ASSUME TypeOK, NEW n \in DOMAIN edit, Failure(n) PROVE TypeOK'
<1> DEFINE e == edit[n]
           ls == IF e.type = "updated" THEN e.stale ELSE Lists \cap {"board"}
<1>1. e \in Edit /\ edit \in [1..MaxEdits -> Edit] /\ list \in Queries /\ detail \in Table
  BY TypeParts
<1>2. e.id \in Issues /\ e.undo \in Undo /\ e.undoDetail \in Row \cup {None}
  BY <1>1 DEF Edit, Undo
<1>3. /\ list' = InvalidateAll(Restore(list, e.undo), ls)
      /\ detail' = [detail EXCEPT ![e.id] = IF e.undoDetail = None THEN detail[e.id] ELSE e.undoDetail]
      /\ edit' = [edit EXCEPT ![n] = [NoEdit EXCEPT !.stage = "settled"]]
      /\ UNCHANGED <<db, wire, online, load, more, acts, view>>
  BY DEF Failure
<1> HIDE DEF e, ls
<1>4. /\ Restore(list, e.undo) \in Queries
      /\ \A l \in Lists : list[l].data # None => Restore(list, e.undo)[l].data # None
  BY <1>1, <1>2, RestoreAt
<1>5. /\ list' \in Queries
      /\ \A l \in Lists : list[l].data # None => list'[l].data # None
  BY <1>3, <1>4, InvalidateAllAt
<1>6. detail' \in Table
  BY <1>1, <1>2, <1>3 DEF Table
<1>7. edit' \in [1..MaxEdits -> Edit]
  BY <1>1, <1>3, SettledType
<1> QED
  BY <1>3, <1>5, <1>6, <1>7, TypeList, TypeParts

LEMMA CachedType ==
  ASSUME TypeOK, NEW i \in Issues PROVE Cached(i) \in Row \cup {None}
<1>1. detail[i] \in Row \cup {None}
  BY TypeParts DEF Table
<1>2. "board" \in Loaded(list) /\ Columns(list["board"].data, i) # {} =>
        RowOf(list["board"].data, i) \in Row
  BY TypeParts, Found DEF Loaded, Queries, Query
<1> QED
  BY <1>1, <1>2 DEF Cached

LEMMA HeadType ==
  ASSUME wire \in Seq(Message), wire # <<>>
  PROVE  /\ Head(wire) \in Message /\ Tail(wire) \in Seq(Message)
         /\ Head(wire).id \in Issues /\ Head(wire).changed \in Bits
         /\ Head(wire).type \in {"created", "updated", "deleted"}
         /\ Head(wire).type # "deleted" => Head(wire).row \in Row
<1>1. Head(wire) \in Message /\ Tail(wire) \in Seq(Message)
  OBVIOUS
<1> QED
  BY <1>1 DEF Message, Bits

LEMMA TypeDeliver == ASSUME TypeOK, Deliver PROVE TypeOK'
<1> DEFINE e == Head(wire)
           change == ChangeOf(list, e.id, e.row, e.changed, Cached(e.id))
<1>1. list \in Queries /\ detail \in Table /\ wire \in Seq(Message) /\ wire # <<>>
  BY TypeParts DEF Deliver
<1>2. /\ e.id \in Issues /\ e.changed \in Bits /\ Tail(wire) \in Seq(Message)
      /\ e.type # "deleted" => e.row \in Row
  BY <1>1, HeadType
<1>3. \/ /\ e.type = "updated"
         /\ list' = InvalidateAll(Apply(list, change), StaleKeys(change))
         /\ detail' = PatchDetail(e.id, e.row)
      \/ /\ e.type = "created"
         /\ list' = InvalidateAll(AddToBoard(list, e.id, e.row), Lists \ {"board"})
         /\ UNCHANGED detail
      \/ list' = CleanUp(list, e.id) /\ detail' = [detail EXCEPT ![e.id] = None]
  BY DEF Deliver
<1>4. /\ wire' = Tail(wire) /\ view' = Put(view, e.id, e.row)
      /\ UNCHANGED <<db, online, more, edit, acts>>
  BY DEF Deliver
<1>6. load' \in [Issues -> Load]
  BY TypeParts, LoadDropped DEF Deliver
<1>7. view' \in Table
  <2>1. view \in Table /\ e.row \in Row \cup {None}
    BY <1>1, TypeParts, HeadType DEF Message
  <2> QED
    BY <1>2, <1>4, <2>1 DEF Put, Table
<1> HIDE DEF e
<1>5. /\ list' \in Queries /\ detail' \in Table
      /\ \A l \in Lists : list[l].data # None => list'[l].data # None
  <2>1. CASE /\ e.type = "updated"
             /\ list' = InvalidateAll(Apply(list, change), StaleKeys(change))
             /\ detail' = PatchDetail(e.id, e.row)
    BY <1>2, <2>1, CachedType, TypeWritten
  <2>2. CASE /\ e.type = "created"
             /\ list' = InvalidateAll(AddToBoard(list, e.id, e.row), Lists \ {"board"})
             /\ UNCHANGED detail
    <3>1. /\ AddToBoard(list, e.id, e.row) \in Queries
          /\ \A l \in Lists : list[l].data # None => AddToBoard(list, e.id, e.row)[l].data # None
      BY <1>1, <1>2, <2>2, AddToBoardAt
    <3> QED
      BY <1>1, <2>2, <3>1, InvalidateAllAt
  <2>3. CASE list' = CleanUp(list, e.id) /\ detail' = [detail EXCEPT ![e.id] = None]
    BY <1>2, <2>3, TypeCleanedUp
  <2> QED
    BY <1>3, <2>1, <2>2, <2>3
<1> QED
  BY <1>2, <1>4, <1>5, <1>6, <1>7, TypeList, TypeParts

LEMMA TypeReconnect == ASSUME TypeOK, Reconnect PROVE TypeOK'
<1>1. list \in Queries /\ db \in Table /\ load \in [Issues -> Load]
  BY TypeParts
<1>2. /\ list' \in Queries
      /\ \A l \in Lists : list'[l].data = list[l].data
  BY <1>1, InvalidateAllAt DEF Reconnect
<1>3. load' \in [Issues -> Load]
  <2>1. Ask \in Load
    BY DEF Ask, Load
  <2> QED
    BY <1>1, <2>1 DEF Reconnect
<1> QED
  BY <1>1, <1>2, <1>3, TypeList, TypeParts DEF Reconnect

LEMMA TypeDetail ==
  ASSUME TypeOK, NEW i \in Issues, OpenDetail(i) \/ ReadDetail(i) \/ DetailLoaded(i)
  PROVE  TypeOK'
<1>1. /\ list \in Queries /\ db \in Table /\ detail \in Table /\ load \in [Issues -> Load]
      /\ load[i] \in Load /\ db[i] \in Row \cup {None} /\ acts \in Nat
  BY TypeParts DEF Table
<1>2. CASE OpenDetail(i)
  <2>1. Ask \in Load
    BY DEF Ask, Load
  <2>2. load' \in [Issues -> Load]
    BY <1>1, <1>2, <2>1 DEF OpenDetail
  <2> QED
    BY <1>1, <1>2, <2>2, ActType, TypeList, TypeParts DEF OpenDetail
<1>3. CASE ReadDetail(i)
  <2>1. [sent |-> db[i] # None, row |-> db[i]] \in Load
    BY <1>1 DEF Load
  <2>2. load' \in [Issues -> Load]
    BY <1>1, <1>3, <2>1 DEF ReadDetail
  <2> QED
    BY <1>1, <1>3, <2>2, TypeList, TypeParts DEF ReadDetail
<1>4. CASE DetailLoaded(i)
  <2>1. load[i].row \in Row
    BY <1>1, <1>4 DEF DetailLoaded, Load
  <2>2. load' \in [Issues -> Load] /\ detail' \in Table
    BY <1>1, <1>4, <2>1, NoLoadType DEF DetailLoaded, Table
  <2> QED
    BY <1>1, <1>4, <2>2, TypeList, TypeParts DEF DetailLoaded
<1> QED
  BY <1>2, <1>3, <1>4

LEMMA EmptySeq == <<>> \in Seq(Message)
  OBVIOUS

LEMMA TypeDisconnect == ASSUME TypeOK, Disconnect PROVE TypeOK'
<1>1. online' = FALSE /\ wire' = <<>> /\ acts' \in Nat
  BY TypeParts, ActType DEF Disconnect
<1>2. wire' \in Seq(Message)
  BY <1>1, Zenon, EmptySeq
<1>3. online' \in BOOLEAN
  BY <1>1
<1>4. UNCHANGED <<db, list, detail, load, more, edit, view>>
  BY DEF Disconnect
<1> QED
  BY <1>1, <1>2, <1>3, <1>4 DEF TypeOK

LEMMA TypeInit == Init => TypeOK
<1> SUFFICES ASSUME Init PROVE TypeOK
  OBVIOUS
<1>1. db \in Table
  BY DataAssumption DEF Init, Table, DataAssumption
<1>2. list \in Queries
  <2>1. [data |-> None, stale |-> FALSE, fetch |-> Asked] \in Query
    BY AskedType DEF Query
  <2> QED
    BY <2>1 DEF Init, Queries
<1>3. edit \in [1..MaxEdits -> Edit]
  BY NoEditType DEF Init
<1>4. detail \in Table
  BY DEF Init, Table
<1>5. load \in [Issues -> Load]
  BY NoLoadType DEF Init
<1> QED
  BY <1>1, <1>2, <1>3, <1>4, <1>5, TypeParts DEF Init

LEMMA TypeStep == TypeOK /\ [Next]_vars => TypeOK'
<1> SUFFICES ASSUME TypeOK, [Next]_vars PROVE TypeOK'
  OBVIOUS
<1>1. CASE UNCHANGED vars
  BY <1>1 DEF vars, TypeOK
<1>2. CASE Commit \/ ReadMore \/ MoreLoaded \/ Deliver \/ Disconnect \/ Reconnect
  BY <1>2, TypeCommit, TypeReadMore, TypeMoreLoaded, TypeDeliver, TypeDisconnect, TypeReconnect
<1>3. CASE \E l \in Lists : \/ Fetched(l) \/ Remount(l)
                            \/ \E s \in Statuses : Read(l, s) \/ LoadMore(l, s)
  BY <1>3, TypeFetched, TypeRemount, TypeRead, TypeLoadMore
<1>4. CASE \E i \in Issues : OpenDetail(i) \/ ReadDetail(i) \/ DetailLoaded(i)
  BY <1>4, TypeDetail
<1>5. CASE \E n \in DOMAIN edit : \/ PruneDeleted(n) \/ Serve(n) \/ Success(n) \/ Failure(n)
                                  \/ \E i \in Issues : \/ Delete(n, i)
                                                       \/ \E p \in Patches : Update(n, i, p)
  BY <1>5, DataAssumption, TypePruneDeleted, TypeServe, TypeSuccess, TypeFailure, TypeDelete, TypeUpdate
     DEF DataAssumption
<1> QED
  BY <1>1, <1>2, <1>3, <1>4, <1>5 DEF Next

\* Rows, cards, totals and answers keep their shape in every step, whatever
\* the interleaving, the faults and the disconnections: what the merges of
\* the cache helpers write is always a row, a card or a count.
THEOREM ShapesKept == Spec => []TypeOK
  BY TypeInit, TypeStep, PTL DEF Spec

-----------------------------------------------------------------------------
(* What a list owes to a table                                             *)

LEMMA CountType == ASSUME NEW T, NEW l, NEW s PROVE IsFiniteSet(Column(T, l, s)) /\ Count(T, l, s) \in Nat
<1>1. Column(T, l, s) \in SUBSET Issues
  BY DEF Column
<1> QED
  BY <1>1, IssuesFinite DEF Count

\* Rewriting the row of one issue moves this issue only.
LEMMA Recount ==
  ASSUME NEW T \in Table, NEW i \in Issues, NEW v \in Row \cup {None}, NEW l, NEW s
  PROVE  LET U == Put(T, i, v) IN
         /\ i \in Column(T, l, s) /\ i \notin Column(U, l, s) => Count(U, l, s) = Less(Count(T, l, s))
         /\ i \notin Column(T, l, s) /\ i \in Column(U, l, s) => Count(U, l, s) = Count(T, l, s) + 1
         /\ (i \in Column(T, l, s) <=> i \in Column(U, l, s)) => Count(U, l, s) = Count(T, l, s)
<1> DEFINE U == Put(T, i, v)
           A == Column(T, l, s)
           B == Column(U, l, s)
<1>1. A \ {i} = B \ {i}
  BY DEF Column, Table, Put
<1> HIDE DEF U
<1>2. IsFiniteSet(A) /\ IsFiniteSet(B) /\ Cardinality(A) \in Nat /\ Cardinality(B) \in Nat
  BY CountType DEF Count
<1> HIDE DEF A, B
<1>3. CASE i \in A /\ i \notin B
  <2>1. B = A \ {i}
    BY <1>1, <1>3
  <2>2. Cardinality(B) = Cardinality(A) - 1
    BY <1>2, <1>3, <2>1, FS_RemoveElement
  <2>3. Cardinality(B) = Less(Cardinality(A))
    BY <1>2, <2>2 DEF Less
  <2> QED
    BY <1>3, <2>3 DEF Count, A, B, U
<1>4. CASE i \notin A /\ i \in B
  <2>1. B = A \cup {i}
    BY <1>1, <1>4
  <2>2. Cardinality(B) = Cardinality(A) + 1
    BY <1>2, <1>4, <2>1, FS_AddElement
  <2> QED
    BY <1>4, <2>2 DEF Count, A, B, U
<1>5. CASE i \in A <=> i \in B
  <2>1. A = B
    BY <1>1, <1>5
  <2> QED
    BY <1>5, <2>1 DEF Count, A, B, U
<1> QED
  BY <1>3, <1>4, <1>5

\* The columns of an issue in the two tables.
LEMMA ColumnsOf ==
  ASSUME NEW T \in Table, NEW i \in Issues, NEW v \in Row \cup {None}, NEW l, NEW s
  PROVE  LET U == Put(T, i, v) IN
         /\ U \in Table /\ U[i] = v
         /\ i \in Column(T, l, s) <=> T[i] # None /\ T[i].status = s /\ Member(l, T[i])
         /\ i \in Column(U, l, s) <=> v # None /\ v.status = s /\ Member(l, v)
         /\ \A j \in Issues \ {i} : U[j] = T[j] /\ (j \in Column(U, l, s) <=> j \in Column(T, l, s))
  BY DEF Column, Table, Put

\* A card that tells the truth stays true where its issue is another one.
LEMMA OtherCards ==
  ASSUME NEW T \in Table, NEW i \in Issues, NEW v \in Row \cup {None}, NEW l, NEW s,
         NEW cards, CardsIn(T, l, s, cards), \A c \in cards : c.id # i
  PROVE  CardsIn(Put(T, i, v), l, s, cards)
<1> DEFINE U == Put(T, i, v)
<1>1. \A j \in Issues \ {i} : U[j] = T[j] /\ (j \in Column(U, l, s) <=> j \in Column(T, l, s))
  BY ColumnsOf
<1>2. \A c \in cards : c.id \in Issues \ {i}
  BY DEF CardsIn, Column
<1> HIDE DEF U
<1>3. CardsIn(U, l, s, cards)
  BY <1>1, <1>2 DEF CardsIn
<1> QED
  BY <1>3 DEF U

\* A list that tells the truth shows an issue in one column.
LEMMA OneColumn ==
  ASSUME NEW T \in Table, NEW l, NEW d \in Data, Telling(T, l, d), NEW i \in Issues
  PROVE  /\ Columns(d, i) # {} => /\ T[i] \in Row /\ Member(l, T[i])
                                  /\ Columns(d, i) = {T[i].status} /\ Location(d, i) = T[i].status
                                  /\ RowOf(d, i) = T[i]
         /\ \A s \in Statuses : s \notin Columns(d, i) => \A c \in d[s].cards : c.id # i
<1>1. \A s \in Columns(d, i) : s \in Statuses /\ i \in Column(T, l, s)
  BY DEF Columns, Telling, CardsIn
<1>2. \A s \in Statuses : s \notin Columns(d, i) => \A c \in d[s].cards : c.id # i
  BY DEF Columns
<1>3. ASSUME Columns(d, i) # {}
      PROVE  /\ T[i] \in Row /\ Member(l, T[i])
             /\ Columns(d, i) = {T[i].status} /\ Location(d, i) = T[i].status
             /\ RowOf(d, i) = T[i]
  <2>1. \A s \in Columns(d, i) : T[i] # None /\ s = T[i].status /\ Member(l, T[i])
    BY <1>1 DEF Column
  <2>2. T[i] \in Row /\ Member(l, T[i])
    BY <1>3, <2>1 DEF Table
  <2>3. Columns(d, i) = {T[i].status}
    BY <1>3, <2>1
  <2>4. Location(d, i) \in Columns(d, i)
    BY <1>3, Found
  <2>5. Location(d, i) = T[i].status
    BY <2>3, <2>4
  <2>6. /\ CardOf(d, i) \in d[Location(d, i)].cards /\ CardOf(d, i).id = i
        /\ Location(d, i) \in Statuses
    BY <1>3, Found
  <2>7. CardOf(d, i).mine = T[i].mine
    BY <2>6 DEF Telling, CardsIn
  <2>8. RowOf(d, i) = T[i]
    BY <2>2, <2>5, <2>7 DEF RowOf, Row
  <2> QED
    BY <2>2, <2>3, <2>5, <2>8
<1> QED
  BY <1>2, <1>3

LEMMA RemoveTells ==
  ASSUME NEW T \in Table, NEW l, NEW d \in Data, Telling(T, l, d), NEW i \in Issues,
         NEW v \in Row \cup {None}
  PROVE  Telling(Put(T, i, v), l, RemoveIssue(d, i))
<1> DEFINE r == RemoveIssue(d, i)
<1>1. \A s \in Statuses : s \notin Columns(d, i) => \A c \in d[s].cards : c.id # i
  BY OneColumn
<1>2. ASSUME NEW s \in Statuses
      PROVE  r[s].cards \subseteq d[s].cards /\ \A c \in r[s].cards : c.id # i
  <2>1. CASE Columns(d, i) = {}
    BY <1>1, <2>1, RemoveIssueType
  <2>2. CASE Columns(d, i) # {}
    <3>1. Columns(d, i) = {Location(d, i)}
      BY <2>2, OneColumn
    <3>2. /\ r[Location(d, i)].cards = {c \in d[Location(d, i)].cards : c.id # i}
          /\ \A t \in Statuses \ {Location(d, i)} : r[t] = d[t]
      BY <2>2, RemoveIssueType
    <3>3. CASE s = Location(d, i)
      <4>1. r[s].cards = {c \in d[s].cards : c.id # i}
        BY <3>2, <3>3
      <4> HIDE DEF r
      <4> QED
        BY <4>1
    <3>4. CASE s # Location(d, i)
      BY <1>1, <3>1, <3>2, <3>4
    <3> QED
      BY <3>3, <3>4
  <2> QED
    BY <2>1, <2>2
<1> HIDE DEF r
<1>3. \A s \in Statuses : CardsIn(T, l, s, r[s].cards)
  BY <1>2 DEF Telling, CardsIn
<1>4. \A s \in Statuses : CardsIn(Put(T, i, v), l, s, r[s].cards)
  BY <1>2, <1>3, OtherCards
<1> QED
  BY <1>4 DEF Telling, r

\* Data with the same cards, none of them the issue's.
LEMMA SameCardsTell ==
  ASSUME NEW T \in Table, NEW l, NEW d \in Data, Telling(T, l, d), NEW i \in Issues,
         NEW v \in Row \cup {None}, Columns(d, i) = {},
         NEW dd, \A s \in Statuses : dd[s].cards = d[s].cards
  PROVE  Telling(Put(T, i, v), l, dd)
<1>1. \A s \in Statuses : \A c \in d[s].cards : c.id # i
  BY OneColumn
<1>2. \A s \in Statuses : CardsIn(T, l, s, d[s].cards)
  BY DEF Telling
<1>3. \A s \in Statuses : CardsIn(Put(T, i, v), l, s, d[s].cards)
  BY <1>1, <1>2, OtherCards
<1> QED
  BY <1>3 DEF Telling

LEMMA PatchTells ==
  ASSUME NEW T \in Table, NEW l, NEW d \in Data, Telling(T, l, d), NEW i \in Issues,
         NEW patch \in Patch, Columns(d, i) # {}, Member(l, Merge(T[i], patch))
  PROVE  Telling(Put(T, i, Merge(T[i], patch)), l, PatchIssue(d, i, patch))
<1> DEFINE f == Location(d, i)
           new == Merge(T[i], patch)
           U == Put(T, i, new)
           r == PatchIssue(d, i, patch)
           card == [id |-> i, mine |-> new.mine]
<1>1. /\ T[i] \in Row /\ RowOf(d, i) = T[i] /\ Columns(d, i) = {f}
      /\ \A s \in Statuses : s \notin Columns(d, i) => \A c \in d[s].cards : c.id # i
  BY OneColumn
<1>2. /\ f \in Statuses /\ new \in Row
      /\ r[new.status].cards = Kept(d, i, new.status) \cup {card}
      /\ \A s \in Statuses \ {new.status} : r[s].cards = Kept(d, i, s)
  BY <1>1, PatchIssueType
<1>3. ASSUME NEW s \in Statuses
      PROVE  Kept(d, i, s) \subseteq d[s].cards /\ \A c \in Kept(d, i, s) : c.id # i
  BY <1>1 DEF Kept
<1> HIDE DEF r, f
<1>4. \A s \in Statuses : CardsIn(T, l, s, Kept(d, i, s))
  BY <1>3 DEF Telling, CardsIn
<1>5. \A s \in Statuses : CardsIn(U, l, s, Kept(d, i, s))
  BY <1>2, <1>3, <1>4, OtherCards
<1>6. U[i] = new /\ i \in Column(U, l, new.status)
  BY <1>2, NoneFacts, ColumnsOf
<1>7. CardsIn(U, l, new.status, {card})
  BY <1>6 DEF CardsIn
<1> HIDE DEF U, new, card
<1>8. CardsIn(U, l, new.status, r[new.status].cards)
  <2>1. new.status \in Statuses
    BY <1>2 DEF Row
  <2> QED
    BY <1>2, <1>5, <1>7, <2>1 DEF CardsIn
<1>9. \A s \in Statuses : CardsIn(U, l, s, r[s].cards)
  BY <1>2, <1>5, <1>8
<1> QED
  BY <1>9 DEF Telling, U, new, r

LEMMA AddTells ==
  ASSUME NEW T \in Table, NEW l, NEW d \in Data, Telling(T, l, d), NEW i \in Issues,
         NEW row \in Row, T[i] = None, Member(l, row)
  PROVE  /\ Columns(d, i) = {}
         /\ Telling(Put(T, i, row), l, AddIssue(d, i, row))
<1> DEFINE U == Put(T, i, row)
           r == AddIssue(d, i, row)
           card == [id |-> i, mine |-> row.mine]
<1>1. Columns(d, i) = {}
  BY OneColumn, NoneFacts
<1>2. /\ r[row.status].cards = d[row.status].cards \cup {card}
      /\ \A s \in Statuses \ {row.status} : r[s] = d[s]
  BY <1>1, AddIssueType
<1>3. Telling(U, l, d)
  BY <1>1, SameCardsTell
<1>4. U[i] = row /\ i \in Column(U, l, row.status)
  BY NoneFacts, ColumnsOf
<1>5. CardsIn(U, l, row.status, {card})
  BY <1>4 DEF CardsIn
<1>6. row.status \in Statuses
  BY DEF Row
<1> HIDE DEF U, r, card
<1>7. \A s \in Statuses : CardsIn(U, l, s, r[s].cards)
  BY <1>2, <1>3, <1>5, <1>6 DEF Telling, CardsIn
<1> QED
  BY <1>1, <1>7 DEF Telling, U, r

-----------------------------------------------------------------------------
(* A change, told to a list                                                *)

\* The bits that come with a change do not hide any of it.
Covers(changed, row, new) ==
  /\ row.status # new.status => changed.status
  /\ row.mine # new.mine => changed.assignee

\* A list of all columns the issue is in, or of none before and after.
LEMMA SameColumnsCount ==
  ASSUME NEW T \in Table, NEW l, NEW d \in Data, Counted(T, l, d), NEW i \in Issues,
         NEW v \in Row \cup {None},
         \A s \in Statuses : i \in Column(T, l, s) <=> i \in Column(Put(T, i, v), l, s)
  PROVE  Counted(Put(T, i, v), l, d)
<1>1. \A s \in Statuses : Count(Put(T, i, v), l, s) = Count(T, l, s)
  BY Recount
<1> QED
  BY <1>1 DEF Counted

LEMMA RemoveCounts ==
  ASSUME NEW T \in Table, NEW l, NEW d \in Data, AccurateIn(T, l, d), NEW i \in Issues,
         NEW v \in Row \cup {None}, Columns(d, i) # {}, v = None \/ ~Member(l, v)
  PROVE  Counted(Put(T, i, v), l, RemoveIssue(d, i))
<1> DEFINE U == Put(T, i, v)
           f == Location(d, i)
           r == RemoveIssue(d, i)
<1>1. T[i] \in Row /\ Member(l, T[i]) /\ f = T[i].status /\ f \in Statuses
  BY OneColumn, Found DEF AccurateIn
<1>2. /\ r[f].total = Less(d[f].total)
      /\ \A s \in Statuses \ {f} : r[s] = d[s]
  BY RemoveIssueType
<1>3. \A s \in Statuses : (i \in Column(T, l, s) <=> s = f) /\ i \notin Column(U, l, s)
  BY <1>1, NoneFacts, ColumnsOf
<1>4. \A s \in Statuses : d[s].total = Count(T, l, s)
  BY DEF AccurateIn, Counted
<1> HIDE DEF f, r
<1>5. Count(U, l, f) = Less(Count(T, l, f))
  BY <1>1, <1>3, Recount
<1>6. \A s \in Statuses \ {f} : Count(U, l, s) = Count(T, l, s)
  BY <1>3, Recount
<1> HIDE DEF U
<1>7. \A s \in Statuses : r[s].total = Count(U, l, s)
  BY <1>1, <1>2, <1>4, <1>5, <1>6
<1> QED
  BY <1>7 DEF Counted, U, r

LEMMA PatchCounts ==
  ASSUME NEW T \in Table, NEW l, NEW d \in Data, AccurateIn(T, l, d), NEW i \in Issues,
         NEW patch \in Patch, Columns(d, i) # {}, Member(l, Merge(T[i], patch))
  PROVE  Counted(Put(T, i, Merge(T[i], patch)), l, PatchIssue(d, i, patch))
<1> DEFINE f == Location(d, i)
           new == Merge(RowOf(d, i), patch)
           g == new.status
           U == Put(T, i, new)
           r == PatchIssue(d, i, patch)
<1>1. /\ T[i] \in Row /\ RowOf(d, i) = T[i] /\ Member(l, T[i])
      /\ f = T[i].status /\ f \in Statuses
  BY OneColumn, Found DEF AccurateIn
<1>0. new = Merge(T[i], patch)
  BY <1>1
<1>2. /\ new \in Row
      /\ \A s \in Statuses :
           r[s].total = IF f = g THEN d[s].total
                        ELSE IF s = f THEN Less(d[s].total)
                        ELSE IF s = g THEN d[s].total + 1
                        ELSE d[s].total
  BY <1>1, PatchIssueType, Zenon
<1>3. g \in Statuses
  BY <1>2 DEF Row
<1>6. \A s \in Statuses : (i \in Column(T, l, s) <=> s = f) /\ (i \in Column(U, l, s) <=> s = g)
  <2>1. Member(l, new) /\ new # None
    BY <1>0, <1>2, NoneFacts
  <2> HIDE DEF new
  <2> QED
    BY <1>1, <1>2, <2>1, NoneFacts, ColumnsOf
<1>7. \A s \in Statuses : d[s].total = Count(T, l, s)
  BY DEF AccurateIn, Counted
<1>8. /\ f # g => /\ Count(U, l, f) = Less(Count(T, l, f))
                  /\ Count(U, l, g) = Count(T, l, g) + 1
      /\ \A s \in Statuses : (s = f <=> s = g) => Count(U, l, s) = Count(T, l, s)
  <2>1. new \in Row \cup {None}
    BY <1>2
  <2> HIDE DEF new, f, g
  <2> QED
    BY <1>1, <1>3, <1>6, <2>1, Recount
<1> HIDE DEF U, f, g, new, r
<1>9. \A s \in Statuses : r[s].total = Count(U, l, s)
  BY <1>1, <1>2, <1>3, <1>7, <1>8
<1> QED
  BY <1>0, <1>9 DEF Counted, U, r

LEMMA AddCounts ==
  ASSUME NEW T \in Table, NEW l, NEW d \in Data, AccurateIn(T, l, d), NEW i \in Issues,
         NEW row \in Row, T[i] = None, Member(l, row)
  PROVE  Counted(Put(T, i, row), l, AddIssue(d, i, row))
<1> DEFINE U == Put(T, i, row)
           r == AddIssue(d, i, row)
           g == row.status
<1>1. Columns(d, i) = {}
  BY AddTells DEF AccurateIn
<1>2. /\ r[g].total = d[g].total + 1
      /\ \A s \in Statuses \ {g} : r[s] = d[s]
  BY <1>1, AddIssueType
<1>3. \A s \in Statuses : i \notin Column(T, l, s) /\ (i \in Column(U, l, s) <=> s = g)
  BY NoneFacts, ColumnsOf
<1>4. \A s \in Statuses : d[s].total = Count(T, l, s)
  BY DEF AccurateIn, Counted
<1>5. g \in Statuses
  BY DEF Row
<1> HIDE DEF r, g
<1>6. Count(U, l, g) = Count(T, l, g) + 1
  BY <1>3, <1>5, Recount
<1>7. \A s \in Statuses \ {g} : Count(U, l, s) = Count(T, l, s)
  BY <1>3, Recount
<1> HIDE DEF U
<1>8. \A s \in Statuses : r[s].total = Count(U, l, s)
  BY <1>2, <1>4, <1>5, <1>6, <1>7
<1> QED
  BY <1>8 DEF Counted, U, r

\* An issue that leaves the list beyond its window takes one from the total.
LEMMA DecrementCounts ==
  ASSUME NEW T \in Table, NEW l, NEW d \in Data, Counted(T, l, d), NEW i \in Issues,
         NEW v \in Row, T[i] \in Row, Member(l, T[i]), ~Member(l, v)
  PROVE  Counted(Put(T, i, v), l, DecrementTotal(d, T[i].status))
<1> DEFINE U == Put(T, i, v)
           f == T[i].status
           r == DecrementTotal(d, f)
<1>1. f \in Statuses
  BY DEF Row
<1>2. /\ r[f].total = Less(d[f].total)
      /\ \A s \in Statuses \ {f} : r[s] = d[s]
  BY <1>1, DecrementTotalType
<1>3. \A s \in Statuses : (i \in Column(T, l, s) <=> s = f) /\ i \notin Column(U, l, s)
  BY NoneFacts, ColumnsOf
<1>4. \A s \in Statuses : d[s].total = Count(T, l, s)
  BY DEF Counted
<1> HIDE DEF f, r
<1>5. Count(U, l, f) = Less(Count(T, l, f))
  BY <1>1, <1>3, Recount
<1>6. \A s \in Statuses \ {f} : Count(U, l, s) = Count(T, l, s)
  BY <1>3, Recount
<1> HIDE DEF U
<1>7. \A s \in Statuses : r[s].total = Count(U, l, s)
  BY <1>1, <1>2, <1>4, <1>5, <1>6
<1> QED
  BY <1>7 DEF Counted, U, r, f

\* The columns of an issue that moves in no list stay what they are.
LEMMA StaysPut ==
  ASSUME NEW T \in Table, NEW i \in Issues, NEW v \in Row, T[i] \in Row, NEW l,
         \/ v.status = T[i].status /\ (Member(l, v) <=> Member(l, T[i]))
         \/ ~Member(l, v) /\ ~Member(l, T[i])
  PROVE  \A s \in Statuses : i \in Column(T, l, s) <=> i \in Column(Put(T, i, v), l, s)
<1>1. v # None /\ T[i] # None
  BY NoneFacts
<1> QED
  BY <1>1, ColumnsOf

\* A list that decides whether the issue belongs decides right.
LEMMA MatchesMember ==
  ASSUME NEW l \in Lists, NEW row \in Row
  PROVE  /\ Matches(l, row.mine) = "yes" => Member(l, row)
         /\ Matches(l, row.mine) = "no" => ~Member(l, row)
<1>1. row.mine \in BOOLEAN
  BY DEF Row
<1> QED
  BY <1>1, MatchesFacts DEF Member

LEMMA Skipped ==
  ASSUME NEW T \in Table, NEW l, NEW d \in Data, AccurateIn(T, l, d), NEW i \in Issues,
         NEW v \in Row, T[i] \in Row, Columns(d, i) = {},
         \/ v.status = T[i].status /\ (Member(l, v) <=> Member(l, T[i]))
         \/ ~Member(l, v) /\ ~Member(l, T[i])
  PROVE  AccurateIn(Put(T, i, v), l, d)
<1>1. Telling(Put(T, i, v), l, d)
  BY SameCardsTell DEF AccurateIn
<1>2. Counted(Put(T, i, v), l, d)
  BY StaysPut, SameColumnsCount DEF AccurateIn
<1> QED
  BY <1>1, <1>2 DEF AccurateIn

\* applyIssueChange keeps an accurate list accurate, or reports its key stale.
LEMMA ChangeAccurate ==
  ASSUME NEW T \in Table, NEW l \in Lists, NEW d \in Data, AccurateIn(T, l, d),
         NEW i \in Issues, T[i] \in Row, NEW patch \in Patch, NEW changed \in Bits,
         NEW base \in {None, T[i]}, Covers(changed, T[i], Merge(T[i], patch))
  PROVE  LET res == Change(l, d, i, patch, changed, base) IN
         res.stale \/ AccurateIn(Put(T, i, Merge(T[i], patch)), l, res.data)
<1> DEFINE new == Merge(T[i], patch)
           res == Change(l, d, i, patch, changed, base)
<1>1. new \in Row /\ Telling(T, l, d) /\ Counted(T, l, d)
  BY MergeType DEF AccurateIn
<1>2. ~Touched(l, changed) => (Member(l, new) <=> Member(l, T[i]))
  BY DEF Touched, Covers, Member
<1>3. CASE Columns(d, i) # {}
  <2>1. RowOf(d, i) = T[i] /\ Member(l, T[i])
    BY <1>1, <1>3, OneColumn
  <2>2. NowMatches(l, d, i, patch) = Matches(l, new.mine)
    BY <2>1 DEF NowMatches
  <2>3. CASE Touched(l, changed) /\ NowMatches(l, d, i, patch) = "no"
    <3>1. ~Member(l, new)
      BY <1>1, <2>2, <2>3, MatchesMember
    <3>2. AccurateIn(Put(T, i, new), l, RemoveIssue(d, i))
      BY <1>1, <1>3, <3>1, RemoveTells, RemoveCounts DEF AccurateIn
    <3>3. res.data = RemoveIssue(d, i)
      BY <1>3, <2>3, ChangeLoaded
    <3> QED
      BY <3>2, <3>3
  <2>4. CASE ~(Touched(l, changed) /\ NowMatches(l, d, i, patch) = "no")
    <3>1. /\ res.data = PatchIssue(d, i, patch)
          /\ Touched(l, changed) /\ NowMatches(l, d, i, patch) = "unknown" => res.stale
      BY <1>3, <2>4, ChangeLoaded
    <3>2. CASE Touched(l, changed) /\ NowMatches(l, d, i, patch) = "unknown"
      BY <3>1, <3>2
    <3>3. CASE ~Touched(l, changed) \/ NowMatches(l, d, i, patch) = "yes"
      <4>1. Member(l, new)
        BY <1>1, <1>2, <2>1, <2>2, <3>3, MatchesMember
      <4>2. Telling(Put(T, i, new), l, PatchIssue(d, i, patch))
        BY <1>1, <1>3, <4>1, PatchTells
      <4>3. Counted(Put(T, i, new), l, PatchIssue(d, i, patch))
        BY <1>1, <1>3, <4>1, PatchCounts
      <4> QED
        BY <3>1, <4>2, <4>3 DEF AccurateIn
    <3>4. NowMatches(l, d, i, patch) \in {"yes", "no", "unknown"}
      <4>1. new.mine \in BOOLEAN \cup {None}
        BY <1>1 DEF Row
      <4> HIDE DEF new
      <4> QED
        BY <2>2, <4>1, MatchesFacts
    <3> QED
      BY <2>4, <3>2, <3>3, <3>4
  <2> QED
    BY <2>3, <2>4
<1>4. CASE Columns(d, i) = {}
  <2> DEFINE was == WasMatches(l, base)
             is == IsMatches(l, patch, base)
  <2>1. base # None => was = Matches(l, T[i].mine) /\ is = Matches(l, new.mine)
    BY DEF WasMatches, IsMatches
  <2>2. was \in {"yes", "no"} => base = T[i]
    BY DEF WasMatches
  <2>3. /\ was = "yes" => Member(l, T[i])
        /\ was = "no" => ~Member(l, T[i])
        /\ was \in {"yes", "no"} /\ is = "yes" => Member(l, new)
        /\ was \in {"yes", "no"} /\ is = "no" => ~Member(l, new)
    BY <1>1, <2>1, <2>2, NoneFacts, MatchesMember
  <2>4. \/ ~Touched(l, changed) /\ ~changed.status /\ res.data = d
        \/ was = "no" /\ is = "no" /\ res.data = d
        \/ res.stale
        \/ was = "yes" /\ is = "yes" /\ ~Moved(patch, changed, base) /\ res.data = d
        \/ was = "yes" /\ is = "no" /\ res.data = DecrementTotal(d, base.status)
    BY <1>4, ChangeBeyond
  <2>5. ~changed.status => new.status = T[i].status
    BY DEF Covers
  <2>6. base = T[i] /\ ~Moved(patch, changed, base) => new.status = T[i].status
    <3>1. patch.status \in {None, T[i].status} => new.status = T[i].status
      BY DEF Merge
    <3> QED
      BY <2>5, <3>1 DEF Moved
  <2> HIDE DEF was, is, res, new
  <2>7. CASE ~Touched(l, changed) /\ ~changed.status /\ res.data = d
    BY <1>1, <1>2, <1>4, <2>5, <2>7, Skipped DEF new, res
  <2>8. CASE was = "no" /\ is = "no" /\ res.data = d
    BY <1>1, <1>4, <2>3, <2>8, Skipped DEF new, res
  <2>9. CASE was = "yes" /\ is = "yes" /\ ~Moved(patch, changed, base) /\ res.data = d
    BY <1>1, <1>4, <2>2, <2>3, <2>6, <2>9, Skipped DEF new, res
  <2>10. CASE was = "yes" /\ is = "no" /\ res.data = DecrementTotal(d, base.status)
    <3>1. base = T[i] /\ Member(l, T[i]) /\ ~Member(l, new)
      BY <2>2, <2>3, <2>10
    <3>2. Counted(Put(T, i, new), l, DecrementTotal(d, T[i].status))
      BY <1>1, <3>1, DecrementCounts
    <3>3. T[i].status \in Statuses
      BY DEF Row
    <3>4. \A s \in Statuses : DecrementTotal(d, T[i].status)[s].cards = d[s].cards
      BY <3>3, DecrementTotalType
    <3>5. Telling(Put(T, i, new), l, DecrementTotal(d, T[i].status))
      BY <1>1, <1>4, <3>4, SameCardsTell
    <3> QED
      BY <2>10, <3>1, <3>2, <3>5 DEF AccurateIn, new, res
  <2> QED
    BY <2>4, <2>7, <2>8, <2>9, <2>10 DEF new, res
<1> QED
  BY <1>3, <1>4

-----------------------------------------------------------------------------
(* The events between the table the client was told of and the server's    *)

Tells(e, A, B) ==
  /\ B = Put(A, e.id, e.row)
  /\ e.type = "deleted" => e.row = None
  /\ e.type = "created" => e.row \in Row /\ A[e.id] = None
  /\ e.type = "updated" =>
       e.row \in Row /\ A[e.id] \in Row /\ Covers(e.changed, A[e.id], e.row)

\* The events of w lead from the table X to the table T.
Leads(X, w, T) ==
  \E h \in [0..Len(w) -> Table] :
    /\ h[0] = X /\ h[Len(w)] = T
    /\ \A k \in 1..Len(w) : Tells(w[k], h[k - 1], h[k])

LEMMA LeadsNone ==
  ASSUME NEW X \in Table, NEW T PROVE Leads(X, <<>>, T) <=> X = T
<1>1. ASSUME Leads(X, <<>>, T) PROVE X = T
  BY <1>1 DEF Leads
<1>2. ASSUME X = T PROVE Leads(X, <<>>, T)
  <2> DEFINE h == [k \in 0..0 |-> X]
  <2>1. h \in [0..0 -> Table] /\ h[0] = X
    OBVIOUS
  <2>2. Len(<<>>) = 0
    OBVIOUS
  <2> HIDE DEF h
  <2>3. \A k \in 1..Len(<<>>) : Tells(<<>>[k], h[k - 1], h[k])
    BY <2>2
  <2> QED
    BY <1>2, <2>1, <2>2, <2>3 DEF Leads
<1> QED
  BY <1>1, <1>2

LEMMA LeadsAppend ==
  ASSUME NEW X, NEW w \in Seq(Message), NEW T, NEW e \in Message, NEW U \in Table,
         Leads(X, w, T), Tells(e, T, U)
  PROVE  Leads(X, Append(w, e), U)
<1> DEFINE v == Append(w, e)
           L == Len(w)
<1>1. L \in Nat /\ Len(v) = L + 1 /\ v[L + 1] = e /\ \A k \in 1..L : v[k] = w[k]
  OBVIOUS
<1>2. PICK h \in [0..L -> Table] :
        /\ h[0] = X /\ h[L] = T
        /\ \A k \in 1..L : Tells(w[k], h[k - 1], h[k])
  BY DEF Leads
<1> DEFINE g == [k \in 0..(L + 1) |-> IF k = L + 1 THEN U ELSE h[k]]
<1> HIDE DEF v, L
<1>3. /\ g \in [0..(L + 1) -> Table] /\ g[0] = X /\ g[L + 1] = U
      /\ \A k \in 0..L : g[k] = h[k]
  BY <1>1, <1>2
<1> HIDE DEF g
<1>4. \A k \in 1..(L + 1) : Tells(v[k], g[k - 1], g[k])
  <2> TAKE k \in 1..(L + 1)
  <2>1. CASE k = L + 1
    <3>1. g[k - 1] = T /\ g[k] = U /\ v[k] = e
      BY <1>1, <1>2, <1>3, <2>1
    <3> QED
      BY <3>1
  <2>2. CASE k \in 1..L
    <3>1. g[k - 1] = h[k - 1] /\ g[k] = h[k] /\ v[k] = w[k]
      BY <1>1, <1>3, <2>2
    <3> QED
      BY <1>2, <2>2, <3>1
  <2> QED
    BY <1>1, <2>1, <2>2
<1>5. Leads(X, v, U)
  BY <1>1, <1>3, <1>4 DEF Leads
<1> QED
  BY <1>5 DEF v

LEMMA LeadsHead ==
  ASSUME NEW X, NEW w \in Seq(Message), w # <<>>, NEW T, Leads(X, w, T)
  PROVE  \E Y \in Table : Tells(Head(w), X, Y) /\ Leads(Y, Tail(w), T)
<1> DEFINE v == Tail(w)
           L == Len(v)
<1>1. L \in Nat /\ Len(w) = L + 1 /\ Head(w) = w[1] /\ \A k \in 1..L : v[k] = w[k + 1]
  OBVIOUS
<1> HIDE DEF v, L
<1>2. PICK h \in [0..(L + 1) -> Table] :
        /\ h[0] = X /\ h[L + 1] = T
        /\ \A k \in 1..(L + 1) : Tells(w[k], h[k - 1], h[k])
  BY <1>1 DEF Leads
<1> DEFINE g == [k \in 0..L |-> h[k + 1]]
<1>3. g \in [0..L -> Table] /\ g[0] = h[1] /\ g[L] = T /\ \A k \in 0..L : g[k] = h[k + 1]
  BY <1>1, <1>2
<1> HIDE DEF g
<1>4. h[1] \in Table /\ Tells(Head(w), X, h[1])
  BY <1>1, <1>2
<1>5. \A k \in 1..L : Tells(v[k], g[k - 1], g[k])
  <2> TAKE k \in 1..L
  <2>1. g[k - 1] = h[k] /\ g[k] = h[k + 1] /\ v[k] = w[k + 1] /\ k + 1 \in 1..(L + 1)
    BY <1>1, <1>3
  <2>2. Tells(w[k + 1], h[(k + 1) - 1], h[k + 1])
    BY <1>2, <2>1
  <2>3. (k + 1) - 1 = k
    BY <1>1
  <2> QED
    BY <2>1, <2>2, <2>3
<1>6. Leads(h[1], v, T)
  BY <1>3, <1>5 DEF Leads, L
<1> QED
  BY <1>4, <1>6 DEF v

LEMMA PutFacts ==
  ASSUME NEW T \in Table, NEW i \in Issues, NEW v \in Row \cup {None}
  PROVE  /\ Put(T, i, v) \in Table /\ Put(T, i, v)[i] = v
         /\ \A j \in Issues \ {i} : Put(T, i, v)[j] = T[j]
         /\ T[i] = v => Put(T, i, v) = T
  BY DEF Put, Table

\* A full row replaces what it is merged with.
LEMMA MergeRow == ASSUME NEW old, NEW row \in Row PROVE Merge(old, row) = row
  BY NoneFacts DEF Merge, Row

\* The bits of an edit hide nothing, and against the row itself tell nothing more.
LEMMA ChangedFacts ==
  ASSUME NEW row \in Row, NEW patch \in Patch, NEW base \in {None, row}
  PROVE  /\ Covers(Changed(patch, base), row, Merge(row, patch))
         /\ base = row /\ Changed(patch, base).status => row.status # Merge(row, patch).status
<1>1. row # None /\ row.status # None /\ row.mine # None
  BY NoneFacts DEF Row
<1> QED
  BY <1>1 DEF Covers, Changed, Merge

LEMMA CommitTells ==
  ASSUME TypeOK, online, Commit
  PROVE  \E e \in Message : /\ wire' = Append(wire, e) /\ db' \in Table
                            /\ Tells(e, db, db')
<1>1. PICK i \in Issues :
       \/ \E patch \in Patch :
            /\ db[i] # None /\ db' = [db EXCEPT ![i] = Merge(db[i], patch)]
            /\ Publish(Event("updated", i, db'[i], Changed(patch, db[i])))
       \/ \E row \in Row :
            /\ db[i] = None /\ db' = [db EXCEPT ![i] = row]
            /\ Publish(Event("created", i, row, Unchanged))
       \/ /\ db[i] # None /\ db' = [db EXCEPT ![i] = None]
          /\ Publish(Event("deleted", i, None, Unchanged))
  BY DataAssumption DEF Commit, DataAssumption
<1>2. db \in Table /\ (db[i] # None => db[i] \in Row)
  BY TypeParts DEF Table
<1>3. CASE \E patch \in Patch :
             /\ db[i] # None /\ db' = [db EXCEPT ![i] = Merge(db[i], patch)]
             /\ Publish(Event("updated", i, db'[i], Changed(patch, db[i])))
  <2>1. PICK patch \in Patch :
             /\ db[i] # None /\ db' = [db EXCEPT ![i] = Merge(db[i], patch)]
             /\ Publish(Event("updated", i, db'[i], Changed(patch, db[i])))
    BY <1>3
  <2> DEFINE row == Merge(db[i], patch)
             bits == Changed(patch, db[i])
             e == Event("updated", i, row, bits)
  <2>2. row \in Row /\ bits \in Bits
    BY <1>2, <2>1, MergeType, ChangedType
  <2>3. db' = Put(db, i, row) /\ db' \in Table /\ db'[i] = row
    <3>1. db' = Put(db, i, row)
      BY <2>1 DEF Put
    <3> HIDE DEF row
    <3> QED
      BY <1>2, <2>2, <3>1, PutFacts
  <2>4. /\ Covers(bits, db[i], row)
        /\ bits.status => db[i].status # row.status
    BY <1>2, <2>1, ChangedFacts
  <2>5. wire' = Append(wire, e)
    BY <2>1, <2>3 DEF Publish
  <2> HIDE DEF row, bits
  <2>6. e \in Message
    BY <2>2, NoneFacts DEF Event, Message, Bits
  <2>7. Tells(e, db, db')
    BY <1>2, <2>1, <2>2, <2>3, <2>4 DEF Tells, Event
  <2> QED
    BY <2>3, <2>5, <2>6, <2>7
<1>4. CASE \E row \in Row :
             /\ db[i] = None /\ db' = [db EXCEPT ![i] = row]
             /\ Publish(Event("created", i, row, Unchanged))
  <2>1. PICK row \in Row :
             /\ db[i] = None /\ db' = [db EXCEPT ![i] = row]
             /\ Publish(Event("created", i, row, Unchanged))
    BY <1>4
  <2>2. db' = Put(db, i, row) /\ db' \in Table
    BY <1>2, <2>1, PutFacts DEF Put
  <2>3. Event("created", i, row, Unchanged) \in Message
    BY NoneFacts DEF Event, Message, Unchanged
  <2>4. Tells(Event("created", i, row, Unchanged), db, db')
    BY <2>1, <2>2 DEF Tells, Event
  <2> QED
    BY <2>1, <2>2, <2>3, <2>4 DEF Publish
<1>5. CASE /\ db[i] # None /\ db' = [db EXCEPT ![i] = None]
           /\ Publish(Event("deleted", i, None, Unchanged))
  <2>1. db' = Put(db, i, None) /\ db' \in Table
    BY <1>2, <1>5, PutFacts DEF Put
  <2>2. Event("deleted", i, None, Unchanged) \in Message
    BY DEF Event, Message, Unchanged
  <2>3. Tells(Event("deleted", i, None, Unchanged), db, db')
    BY <2>1 DEF Tells, Event
  <2> QED
    BY <1>5, <2>1, <2>2, <2>3 DEF Publish
<1> QED
  BY <1>1, <1>3, <1>4, <1>5

LEMMA TailShortens ==
  ASSUME NEW w \in Seq(Message), w # <<>>
  PROVE  Tail(w) # w /\ \A m \in Message : Tail(w) # Append(w, m)
<1>1. Len(w) \in Nat /\ Len(Tail(w)) = Len(w) - 1
  OBVIOUS
<1>2. \A m \in Message : Len(Append(w, m)) = Len(w) + 1
  OBVIOUS
<1>3. Tail(w) # w
  <2> SUFFICES ASSUME Tail(w) = w PROVE FALSE
    OBVIOUS
  <2>1. Len(w) = Len(w) - 1
    BY <1>1
  <2> QED
    BY <1>1, <2>1
<1>4. Len(w) - 1 # Len(w) + 1
  <2>1. \A k \in Nat : k - 1 # k + 1
    OBVIOUS
  <2> HIDE <1>1
  <2>2. PICK k \in Nat : k = Len(w)
    BY <1>1
  <2> QED
    BY <2>1, <2>2
<1>5. \A m \in Message : Len(Tail(w)) # Len(Append(w, m))
  BY <1>1, <1>2, <1>4
<1>6. \A m \in Message : Tail(w) # Append(w, m)
  BY <1>5, Zenon
<1> QED
  BY <1>3, <1>6

\* What the server does with a request of this client.
LEMMA ServeTells ==
  ASSUME TypeOK, online, NEW n \in DOMAIN edit, Serve(n)
  PROVE  \/ UNCHANGED <<db, wire>>
         \/ \E e \in Message : /\ wire' = Append(wire, e) /\ db' \in Table
                               /\ Tells(e, db, db')
<1> DEFINE e == edit[n]
           i == e.id
           row == IF e.type = "deleted" THEN None ELSE Merge(db[i], e.patch)
           bits == IF row = None THEN Unchanged ELSE Changed(e.patch, db[i])
           m == Event(e.type, i, row, bits)
<1>1. db \in Table /\ e \in Edit
  BY TypeParts
<1>2. /\ i \in Issues /\ e.type \in {"updated", "deleted"} /\ e.patch \in Patch
      /\ db[i] # None => db[i] \in Row
  BY <1>1 DEF Edit, Table
<1>3. \/ UNCHANGED <<db, wire>>
      \/ db[i] # None /\ db' = [db EXCEPT ![i] = row] /\ wire' = Append(wire, m)
  BY DEF Serve, Publish
<1>4. bits \in Bits
  BY ChangedType DEF Unchanged, Bits
<1> HIDE DEF e, bits
<1>5. CASE db[i] # None /\ db' = [db EXCEPT ![i] = row] /\ wire' = Append(wire, m)
  <2>1. CASE e.type = "updated"
    <3>1. row = Merge(db[i], e.patch) /\ row \in Row
      BY <1>2, <1>5, <2>1, MergeType
    <3>2. Covers(bits, db[i], row)
      <4>1. bits = Changed(e.patch, db[i])
        BY <3>1, NoneFacts DEF bits
      <4> HIDE DEF row, i
      <4> QED
        BY <1>2, <1>5, <3>1, <4>1, ChangedFacts
    <3> HIDE DEF row, i
    <3>3. db' = Put(db, i, row) /\ db' \in Table
      BY <1>1, <1>2, <1>5, <3>1, PutFacts DEF Put
    <3>4. m \in Message
      BY <1>2, <1>4, <2>1, <3>1, NoneFacts DEF Event, Message, Bits
    <3>5. Tells(m, db, db')
      BY <1>2, <1>5, <2>1, <3>1, <3>2, <3>3 DEF Tells, Event
    <3> QED
      BY <1>5, <3>3, <3>4, <3>5
  <2>2. CASE e.type = "deleted"
    <3>1. row = None
      BY <2>2
    <3> HIDE DEF row, i
    <3>2. db' = Put(db, i, None) /\ db' \in Table
      BY <1>1, <1>2, <1>5, <3>1, PutFacts DEF Put
    <3>3. m \in Message
      BY <1>2, <1>4, <2>2, <3>1 DEF Event, Message, Bits
    <3>4. Tells(m, db, db')
      BY <2>2, <3>1, <3>2 DEF Tells, Event
    <3> QED
      BY <1>5, <3>2, <3>3, <3>4
  <2> QED
    BY <1>2, <2>1, <2>2
<1> QED
  BY <1>3, <1>5

-----------------------------------------------------------------------------
(* The inductive invariant                                                 *)

\* The events under way, in their order, make of the table the client was
\* told of the table of the server; a client without a connection has none.
Follows == IF online THEN Leads(view, wire, db) ELSE wire = <<>>
BoardInv == TypeOK /\ Follows

LEMMA FollowsInit == Init => Follows
  BY DataAssumption, LeadsNone DEF Init, Follows, Table, DataAssumption

LEMMA FollowsSame == ASSUME Follows, UNCHANGED <<online, view, wire, db>> PROVE Follows'
<1>1. CASE online
  BY <1>1 DEF Follows, Leads
<1>2. CASE ~online
  BY <1>2 DEF Follows
<1> QED
  BY <1>1, <1>2

LEMMA FollowsMore ==
  ASSUME TypeOK, Follows, online, UNCHANGED <<online, view>>,
         NEW e \in Message, wire' = Append(wire, e), db' \in Table, Tells(e, db, db')
  PROVE  Follows'
<1>1. view \in Table /\ wire \in Seq(Message)
  BY TypeParts
<1>2. Leads(view, Append(wire, e), db')
  BY <1>1, LeadsAppend DEF Follows
<1> QED
  BY <1>2 DEF Follows

LEMMA FollowsDeliver == ASSUME TypeOK, Follows, Deliver PROVE Follows'
<1>1. /\ view \in Table /\ wire \in Seq(Message) /\ wire # <<>> /\ online
  BY TypeParts DEF Deliver, Follows
<1>2. PICK Y \in Table : Tells(Head(wire), view, Y) /\ Leads(Y, Tail(wire), db)
  BY <1>1, LeadsHead DEF Follows
<1>3. view' = Y /\ wire' = Tail(wire) /\ UNCHANGED <<db, online>>
  BY <1>2 DEF Deliver, Tells
<1>4. Leads(view', wire', db')
  BY <1>2, <1>3
<1> QED
  BY <1>1, <1>3, <1>4 DEF Follows

LEMMA FollowsStep == ASSUME TypeOK, Follows, [Next]_vars PROVE Follows'
<1>1. CASE UNCHANGED vars
  BY <1>1, FollowsSame DEF vars
<1>2. CASE Commit
  <2>1. CASE online
    <3>1. PICK e \in Message : wire' = Append(wire, e) /\ db' \in Table /\ Tells(e, db, db')
      BY <1>2, <2>1, CommitTells
    <3> QED
      BY <1>2, <2>1, <3>1, FollowsMore DEF Commit
  <2>2. CASE ~online
    BY <1>2, <2>2 DEF Commit, Publish, Follows
  <2> QED
    BY <2>1, <2>2
<1>3. CASE Deliver
  BY <1>3, FollowsDeliver
<1>4. CASE Disconnect
  BY <1>4 DEF Disconnect, Follows
<1>5. CASE Reconnect
  <2>1. online' /\ wire' = <<>> /\ view' = db' /\ db' \in Table
    BY <1>5, TypeParts DEF Reconnect, Follows
  <2>2. Leads(view', wire', db')
    BY <2>1, LeadsNone
  <2> QED
    BY <2>1, <2>2 DEF Follows
<1>6. ASSUME NEW n \in DOMAIN edit, Serve(n) PROVE Follows'
  <2>0. UNCHANGED <<online, view>>
    BY <1>6 DEF Serve
  <2>1. CASE online
    <3>1. CASE UNCHANGED <<db, wire>>
      BY <2>0, <3>1, FollowsSame
    <3>2. CASE \E e \in Message : wire' = Append(wire, e) /\ db' \in Table /\ Tells(e, db, db')
      BY <2>0, <2>1, <3>2, FollowsMore
    <3> QED
      BY <1>6, <2>1, <3>1, <3>2, ServeTells
  <2>2. CASE ~online
    BY <1>6, <2>2 DEF Serve, Publish, Follows
  <2> QED
    BY <2>1, <2>2
<1>7. CASE \/ ReadMore \/ MoreLoaded
           \/ \E l \in Lists : \/ Fetched(l) \/ Remount(l)
                               \/ \E s \in Statuses : Read(l, s) \/ LoadMore(l, s)
           \/ \E i \in Issues : OpenDetail(i) \/ ReadDetail(i) \/ DetailLoaded(i)
           \/ \E n \in DOMAIN edit : \/ PruneDeleted(n) \/ Success(n) \/ Failure(n)
                                     \/ \E i \in Issues : \/ Delete(n, i)
                                                          \/ \E p \in Patches : Update(n, i, p)
  <2>1. UNCHANGED <<online, view, wire, db>>
    BY <1>7 DEF ReadMore, MoreLoaded, Fetched, Remount, Read, LoadMore, OpenDetail, ReadDetail,
       DetailLoaded, PruneDeleted, Success, Failure, Delete, Update
  <2> QED
    BY <2>1, FollowsSame
<1> QED
  BY <1>1, <1>2, <1>3, <1>4, <1>5, <1>6, <1>7 DEF Next

LEMMA BoardInvariant == Spec => []BoardInv
<1>1. Init => BoardInv
  BY TypeInit, FollowsInit DEF BoardInv
<1>2. BoardInv /\ [Next]_vars => BoardInv'
  BY TypeStep, FollowsStep DEF BoardInv
<1> QED
  BY <1>1, <1>2, PTL DEF Spec

-----------------------------------------------------------------------------
(* Events                                                                  *)

\* Nothing but a delivery takes an event from the wire of a connected client.
LEMMA OnlyDelivered ==
  ASSUME TypeOK, Follows, [Next]_vars, wire # <<>>, wire' = Tail(wire), online' PROVE Deliver
<1>1. wire \in Seq(Message) /\ wire' # wire /\ \A e \in Message : wire' # Append(wire, e)
  BY TypeParts, TailShortens
<1>2. online
  BY DEF Follows
<1>3. ~Commit
  BY <1>1, <1>2, CommitTells
<1>4. \A n \in DOMAIN edit : ~Serve(n)
  BY <1>1, <1>2, ServeTells
<1>5. ~Disconnect
  BY DEF Disconnect
<1> QED
  BY <1>1, <1>3, <1>4, <1>5 DEF Next, vars, ReadMore, MoreLoaded, Reconnect, Fetched, Remount,
     Read, LoadMore, OpenDetail, ReadDetail, DetailLoaded, PruneDeleted, Success, Failure,
     Delete, Update

\* What applyIssueChange and the invalidations after it do to a list that is
\* right about the table before the change.
LEMMA WrittenRight ==
  ASSUME NEW T \in Table, NEW qs \in Queries, NEW l \in Lists, qs[l].data # None,
         AccurateIn(T, l, qs[l].data), NEW i \in Issues, T[i] \in Row, NEW patch \in Patch,
         NEW changed \in Bits, NEW base \in {None, T[i]},
         Covers(changed, T[i], Merge(T[i], patch))
  PROVE  LET change == ChangeOf(qs, i, patch, changed, base)
             after == Apply(qs, change)
         IN  /\ after \in Queries /\ after[l].data # None
             /\ l \in StaleKeys(change) \/ AccurateIn(Put(T, i, Merge(T[i], patch)), l, after[l].data)
<1> DEFINE change == ChangeOf(qs, i, patch, changed, base)
           after == Apply(qs, change)
           res == Change(l, qs[l].data, i, patch, changed, base)
<1>1. qs[l].data \in Data /\ base \in Row \cup {None}
  BY DEF Queries, Query
<1>2. res.stale \/ AccurateIn(Put(T, i, Merge(T[i], patch)), l, res.data)
  BY <1>1, ChangeAccurate
<1>3. /\ after \in Queries /\ after[l].data = res.data /\ after[l].data # None
      /\ l \in StaleKeys(change) <=> res.stale
  BY <1>1, ApplyAt
<1> HIDE DEF change, after, res
<1> QED
  BY <1>2, <1>3 DEF change, after, res

LEMMA DeliverRight ==
  ASSUME BoardInv, Deliver, NEW l \in Loaded(list), AccurateIn(view, l, list[l].data),
         Cached(Head(wire).id) \in {None, view[Head(wire).id]}
  PROVE  AccurateIn(view', l, list'[l].data) \/ list'[l].stale
<1>1. PICK e \in Message : e = Head(wire)
  BY TypeParts DEF Deliver, BoardInv
<1>2. /\ view \in Table /\ list \in Queries /\ wire \in Seq(Message) /\ wire # <<>> /\ online
      /\ l \in Lists /\ list[l].data # None /\ list[l].data \in Data
  BY TypeParts DEF Deliver, BoardInv, Follows, Loaded, Queries, Query
<1>3. PICK i \in Issues, changed \in Bits : i = e.id /\ changed = e.changed
  BY <1>1 DEF Message, Bits
<1>4. PICK base : base = Cached(i) /\ base \in {None, view[i]}
  BY <1>1, <1>3
<1>5. PICK change : change = ChangeOf(list, i, e.row, changed, base)
  OBVIOUS
<1>6. /\ view' = Put(view, i, e.row)
      /\ \/ /\ e.type = "updated"
            /\ list' = InvalidateAll(Apply(list, change), StaleKeys(change))
         \/ /\ e.type = "created"
            /\ list' = InvalidateAll(AddToBoard(list, i, e.row), Lists \ {"board"})
         \/ e.type = "deleted" /\ list' = CleanUp(list, i)
  BY <1>1, <1>3, <1>4, <1>5 DEF Deliver
<1>7. PICK Y \in Table : Tells(e, view, Y)
  BY <1>1, <1>2, LeadsHead DEF BoardInv, Follows
<1>8. CASE e.type = "updated"
  <2>1. /\ list' = InvalidateAll(Apply(list, change), StaleKeys(change))
        /\ e.row \in Row /\ view[i] \in Row /\ Covers(changed, view[i], e.row)
    BY <1>3, <1>6, <1>7, <1>8 DEF Tells
  <2>2. e.row \in Patch /\ Merge(view[i], e.row) = e.row
    BY <2>1, RowPatch, MergeRow
  <2>3. /\ Apply(list, change) \in Queries
        /\ \/ l \in StaleKeys(change)
           \/ AccurateIn(Put(view, i, e.row), l, Apply(list, change)[l].data)
    BY <1>2, <1>3, <1>4, <1>5, <2>1, <2>2, WrittenRight
  <2>4. /\ list'[l].data = Apply(list, change)[l].data
        /\ l \in StaleKeys(change) => list'[l].stale
    BY <1>2, <2>1, <2>3, InvalidateAllAt
  <2> QED
    BY <1>6, <2>3, <2>4
<1>9. CASE e.type = "created"
  <2>1. /\ list' = InvalidateAll(AddToBoard(list, i, e.row), Lists \ {"board"})
        /\ e.row \in Row /\ view[i] = None
    BY <1>3, <1>6, <1>7, <1>9 DEF Tells
  <2>2. AddToBoard(list, i, e.row) \in Queries
    BY <1>2, <2>1, AddToBoardAt
  <2>3. CASE l # "board"
    BY <1>2, <2>1, <2>2, <2>3, InvalidateAllAt
  <2>4. CASE l = "board"
    <3>1. list'[l].data = AddIssue(list[l].data, i, e.row)
      BY <1>2, <2>1, <2>2, <2>4, InvalidateAllAt, AddToBoardAt
    <3>2. Member("board", e.row)
      BY DEF Member
    <3>3. AccurateIn(Put(view, i, e.row), l, AddIssue(list[l].data, i, e.row))
      BY <1>2, <2>1, <2>4, <3>2, AddTells, AddCounts DEF AccurateIn
    <3> QED
      BY <1>6, <3>1, <3>3
  <2> QED
    BY <2>3, <2>4
<1>10. CASE e.type = "deleted"
  BY <1>2, <1>6, <1>10, CleanUpAt
<1> QED
  BY <1>6, <1>8, <1>9, <1>10

\* For any number of issues, columns, lists, users and steps: an event that
\* meets a client whose copy of the issue is the row before it leaves every
\* list that was right right, or marks it.
THEOREM EventsReconciled == Spec => EventsReconcile
<1>1. BoardInv /\ [Next]_vars =>
        [EventKnown =>
           \A l \in Loaded(list) :
             AccurateIn(view, l, list[l].data) =>
               AccurateIn(view', l, list'[l].data) \/ list'[l].stale]_vars
  <2> SUFFICES ASSUME BoardInv, [Next]_vars, EventKnown, NEW l \in Loaded(list),
                      AccurateIn(view, l, list[l].data)
               PROVE  AccurateIn(view', l, list'[l].data) \/ list'[l].stale
    OBVIOUS
  <2>1. Deliver
    BY OnlyDelivered DEF EventKnown, BoardInv
  <2> QED
    BY <2>1, DeliverRight DEF EventKnown
<1> QED
  BY <1>1, BoardInvariant, PTL DEF Spec, EventsReconcile

\* An issue that a change brings into a column of a list goes into it, or the
\* key is reported stale; the list need not be right about anything.
LEMMA ChangeEnters ==
  ASSUME NEW T \in Table, NEW l \in Lists, NEW d \in Data, NEW i \in Issues, T[i] \in Row,
         NEW row \in Row, NEW changed \in Bits, NEW base \in {None, T[i]},
         Covers(changed, T[i], row), Member(l, row),
         row.status # T[i].status \/ ~Member(l, T[i])
  PROVE  LET res == Change(l, d, i, row, changed, base) IN
         res.stale \/ row.status \in Columns(res.data, i)
<1> DEFINE res == Change(l, d, i, row, changed, base)
<1>1. row \in Patch /\ \A old : Merge(old, row) = row
  BY RowPatch, MergeRow
<1>2. Touched(l, changed) \/ changed.status
  <2>1. row.status = T[i].status => row.mine # T[i].mine /\ l # "board"
    BY DEF Member
  <2> QED
    BY <2>1 DEF Covers, Touched
<1>3. Matches(l, row.mine) # "no"
  BY MatchesMember
<1>4. CASE Columns(d, i) # {}
  <2>1. NowMatches(l, d, i, row) # "no"
    BY <1>1, <1>3 DEF NowMatches
  <2>2. res.data = PatchIssue(d, i, row)
    BY <1>4, <2>1, ChangeLoaded
  <2>3. /\ row.status \in Statuses
        /\ [id |-> i, mine |-> row.mine] \in PatchIssue(d, i, row)[row.status].cards
    BY <1>1, <1>4, PatchIssueType DEF Row
  <2> HIDE DEF res
  <2>4. row.status \in Columns(res.data, i)
    BY <2>2, <2>3 DEF Columns
  <2> QED
    BY <2>4 DEF res
<1>5. CASE Columns(d, i) = {}
  <2> DEFINE was == WasMatches(l, base)
             is == IsMatches(l, row, base)
  <2>1. base # None => was = Matches(l, T[i].mine) /\ is = Matches(l, row.mine)
    BY <1>1 DEF WasMatches, IsMatches
  <2>2. was # "unknown" => base = T[i] /\ base # None
    BY NoneFacts DEF WasMatches
  <2>3. was = "yes" => Member(l, T[i]) /\ is # "no"
    BY <1>3, <2>1, <2>2, MatchesMember
  <2>4. was = "no" => is # "no"
    BY <1>3, <2>1, <2>2
  <2>5. was = "yes" => Moved(row, changed, base)
    <3>1. was = "yes" => row.status # T[i].status /\ base = T[i]
      BY <2>2, <2>3
    <3>2. row.status # None
      BY NoneFacts DEF Row
    <3> QED
      BY <3>1, <3>2 DEF Moved, Covers
  <2> HIDE DEF was, is
  <2>6. res.stale
    BY <1>2, <1>5, <2>3, <2>4, <2>5, ChangeBeyond DEF was, is
  <2> QED
    BY <2>6
<1> QED
  BY <1>4, <1>5

LEMMA DeliverEnters ==
  ASSUME BoardInv, Deliver, NEW l \in Loaded(list), NEW s \in Statuses,
         Cached(Head(wire).id) \in {None, view[Head(wire).id]},
         Head(wire).id \in Column(view', l, s), Head(wire).id \notin Column(view, l, s)
  PROVE  s \in Columns(list'[l].data, Head(wire).id) \/ list'[l].stale
<1>1. PICK e \in Message : e = Head(wire)
  BY TypeParts DEF Deliver, BoardInv
<1>2. /\ view \in Table /\ list \in Queries /\ wire \in Seq(Message) /\ wire # <<>> /\ online
      /\ l \in Lists /\ list[l].data # None /\ list[l].data \in Data
  BY TypeParts DEF Deliver, BoardInv, Follows, Loaded, Queries, Query
<1>3. PICK i \in Issues, changed \in Bits : i = e.id /\ changed = e.changed
  BY <1>1 DEF Message, Bits
<1>4. PICK base : base = Cached(i) /\ base \in {None, view[i]}
  BY <1>1, <1>3
<1>5. PICK change : change = ChangeOf(list, i, e.row, changed, base)
  OBVIOUS
<1>6. /\ view' = Put(view, i, e.row)
      /\ \/ /\ e.type = "updated"
            /\ list' = InvalidateAll(Apply(list, change), StaleKeys(change))
         \/ /\ e.type = "created"
            /\ list' = InvalidateAll(AddToBoard(list, i, e.row), Lists \ {"board"})
         \/ e.type = "deleted" /\ list' = CleanUp(list, i)
  BY <1>1, <1>3, <1>4, <1>5 DEF Deliver
<1>7. PICK Y \in Table : Tells(e, view, Y)
  BY <1>1, <1>2, LeadsHead DEF BoardInv, Follows
<1>8. e.row # None /\ e.row.status = s /\ Member(l, e.row)
  <2>1. view'[i] = e.row
    BY <1>2, <1>6 DEF Put, Table
  <2> QED
    BY <1>1, <1>3, <2>1 DEF Column
<1>9. CASE e.type = "updated"
  <2>1. /\ list' = InvalidateAll(Apply(list, change), StaleKeys(change))
        /\ e.row \in Row /\ view[i] \in Row /\ Covers(changed, view[i], e.row)
    BY <1>3, <1>6, <1>7, <1>9 DEF Tells
  <2>2. e.row.status # view[i].status \/ ~Member(l, view[i])
    BY <1>1, <1>3, <1>8, <2>1, NoneFacts DEF Column
  <2> DEFINE res == Change(l, list[l].data, i, e.row, changed, base)
  <2>3. res.stale \/ s \in Columns(res.data, i)
    BY <1>2, <1>4, <1>8, <2>1, <2>2, ChangeEnters
  <2>4. /\ Apply(list, change) \in Queries
        /\ Apply(list, change)[l].data = res.data
        /\ l \in StaleKeys(change) <=> res.stale
    <3>1. e.row \in Patch /\ base \in Row \cup {None}
      BY <1>4, <2>1, RowPatch
    <3> HIDE DEF res
    <3> QED
      BY <1>2, <1>5, <3>1, ApplyAt DEF res
  <2> HIDE DEF res
  <2>5. /\ list'[l].data = Apply(list, change)[l].data
        /\ l \in StaleKeys(change) => list'[l].stale
    BY <1>2, <2>1, <2>4, InvalidateAllAt
  <2> QED
    BY <1>1, <1>3, <2>3, <2>4, <2>5
<1>10. CASE e.type = "created"
  <2>1. /\ list' = InvalidateAll(AddToBoard(list, i, e.row), Lists \ {"board"})
        /\ e.row \in Row
    BY <1>3, <1>6, <1>7, <1>10 DEF Tells
  <2>2. AddToBoard(list, i, e.row) \in Queries
    BY <1>2, <2>1, AddToBoardAt
  <2>3. CASE l # "board"
    BY <1>2, <2>1, <2>2, <2>3, InvalidateAllAt
  <2>4. CASE l = "board"
    <3>1. list'[l].data = AddIssue(list[l].data, i, e.row)
      BY <1>2, <2>1, <2>2, <2>4, InvalidateAllAt, AddToBoardAt
    <3>2. s \in Columns(AddIssue(list[l].data, i, e.row), i)
      <4>1. CASE s \in Columns(list[l].data, i)
        BY <1>2, <1>8, <2>1, <4>1, AddIssueType
      <4>2. CASE s \notin Columns(list[l].data, i)
        <5>1. [id |-> i, mine |-> e.row.mine] \in AddIssue(list[l].data, i, e.row)[s].cards
          BY <1>2, <1>8, <2>1, <4>2, AddIssueType
        <5> QED
          BY <5>1 DEF Columns
      <4> QED
        BY <4>1, <4>2
    <3> QED
      BY <1>1, <1>3, <3>1, <3>2
  <2> QED
    BY <2>3, <2>4
<1>11. CASE e.type = "deleted"
  BY <1>7, <1>8, <1>11 DEF Tells
<1> QED
  BY <1>6, <1>9, <1>10, <1>11

\* For any constants: an event never brings an issue into a column of a loaded
\* list without showing it there or marking the list, in or beyond the window.
THEOREM EntersShown == Spec => EntersOrMarked
<1>1. BoardInv /\ [Next]_vars =>
        [EventKnown =>
           LET i == Head(wire).id IN
           \A l \in Loaded(list), s \in Statuses :
             i \in Column(view', l, s) \ Column(view, l, s) =>
               s \in Columns(list'[l].data, i) \/ list'[l].stale]_vars
  <2> SUFFICES ASSUME BoardInv, [Next]_vars, EventKnown, NEW l \in Loaded(list), NEW s \in Statuses,
                      Head(wire).id \in Column(view', l, s), Head(wire).id \notin Column(view, l, s)
               PROVE  s \in Columns(list'[l].data, Head(wire).id) \/ list'[l].stale
    OBVIOUS
  <2>1. Deliver
    BY OnlyDelivered DEF EventKnown, BoardInv
  <2> QED
    BY <2>1, DeliverEnters DEF EventKnown
<1> QED
  BY <1>1, BoardInvariant, PTL DEF Spec, EntersOrMarked

-----------------------------------------------------------------------------
(* Edits of this client                                                    *)

\* Only the optimistic patch of an update makes a new edit a sent one.
LEMMA OnlyUpdated ==
  ASSUME TypeOK, [Next]_vars, NEW n \in DOMAIN edit,
         edit[n].stage = "new", edit'[n].stage = "sent"
  PROVE  \E i \in Issues, patch \in Patch : Update(n, i, patch)
<1>1. edit \in [1..MaxEdits -> Edit]
  BY TypeParts
<1>2. edit' # edit
  OBVIOUS
<1>3. ASSUME NEW m \in DOMAIN edit, Serve(m) \/ Success(m) \/ Failure(m) \/ PruneDeleted(m)
      PROVE  FALSE
  <2>1. edit[m].stage \in {"sent", "ok", "failed", "cancelling"}
    BY <1>3 DEF Serve, Success, Failure, PruneDeleted
  <2>2. \E e : edit' = [edit EXCEPT ![m] = e]
    BY <1>3 DEF Serve, Success, Failure, PruneDeleted
  <2> QED
    BY <1>1, <2>1, <2>2
<1>4. ASSUME NEW m \in DOMAIN edit, NEW i \in Issues, Delete(m, i) PROVE FALSE
  <2> DEFINE e == [NoEdit EXCEPT !.stage = "cancelling", !.type = "deleted", !.id = i]
  <2>1. edit' = [edit EXCEPT ![m] = e] /\ e.stage = "cancelling"
    BY <1>4 DEF Delete, NoEdit
  <2> HIDE DEF e
  <2> QED
    BY <1>1, <2>1
<1>5. PICK m \in DOMAIN edit, i \in Issues, patch \in Patch : Update(m, i, patch)
  BY <1>2, <1>3, <1>4, DataAssumption DEF Next, vars, Commit, Deliver, Disconnect, Reconnect,
     ReadMore, MoreLoaded, Fetched, Remount, Read, LoadMore, OpenDetail, ReadDetail,
     DetailLoaded, DataAssumption
<1>6. \E e : edit' = [edit EXCEPT ![m] = e]
  BY <1>5 DEF Update
<1>7. m = n
  BY <1>1, <1>6
<1> QED
  BY <1>5, <1>7

\* Only the answer of the server settles an edit that has one.
LEMMA OnlySuccess ==
  ASSUME TypeOK, [Next]_vars, NEW n \in DOMAIN edit,
         edit[n].stage = "ok", edit'[n].stage = "settled"
  PROVE  Success(n)
<1>1. edit \in [1..MaxEdits -> Edit]
  BY TypeParts
<1>2. edit' # edit
  OBVIOUS
<1>3. ASSUME NEW m \in DOMAIN edit,
             \/ Serve(m) \/ Failure(m) \/ PruneDeleted(m)
             \/ \E i \in Issues : Delete(m, i) \/ \E p \in Patches : Update(m, i, p)
      PROVE  FALSE
  <2>1. edit[m].stage # "ok"
    BY <1>3 DEF Serve, Failure, PruneDeleted, Delete, Update
  <2>2. \E e : edit' = [edit EXCEPT ![m] = e]
    BY <1>3 DEF Serve, Failure, PruneDeleted, Delete, Update
  <2> QED
    BY <1>1, <2>1, <2>2
<1>4. PICK m \in DOMAIN edit : Success(m)
  BY <1>2, <1>3 DEF Next, vars, Commit, Deliver, Disconnect, Reconnect,
     ReadMore, MoreLoaded, Fetched, Remount, Read, LoadMore, OpenDetail, ReadDetail, DetailLoaded
<1>5. m = n
  BY <1>1, <1>4 DEF Success
<1> QED
  BY <1>4, <1>5

LEMMA UpdateId ==
  ASSUME TypeOK, NEW n \in DOMAIN edit, NEW i \in Issues, NEW patch \in Patch, Update(n, i, patch)
  PROVE  edit'[n].id = i
<1> DEFINE change == ChangeOf([l \in Lists |-> CancelQuery(list[l])], i, patch,
                              Changed(patch, detail[i]), detail[i])
           e == [NoEdit EXCEPT
                   !.stage = "sent", !.id = i, !.patch = patch,
                   !.undo = PrevLists([l \in Lists |-> CancelQuery(list[l])], change),
                   !.undoDetail = detail[i], !.stale = StaleKeys(change)]
<1>1. edit' = [edit EXCEPT ![n] = e] /\ e.id = i
  BY DEF Update, NoEdit
<1> HIDE DEF e
<1> QED
  BY <1>1, TypeParts

LEMMA UpdateRight ==
  ASSUME TypeOK, NEW n \in DOMAIN edit, NEW i \in Issues, NEW patch \in Patch,
         Update(n, i, patch), NEW l \in Loaded(list), view[i] # None,
         detail[i] \in {None, view[i]}, AccurateIn(view, l, list[l].data)
  PROVE  /\ edit'[n].patch = patch
         /\ \/ AccurateIn(Put(view, i, Merge(view[i], patch)), l, list'[l].data)
            \/ l \in edit'[n].stale
<1> DEFINE changed == Changed(patch, detail[i])
           change == ChangeOf(Cancelled, i, patch, changed, detail[i])
           e == [NoEdit EXCEPT !.stage = "sent", !.id = i, !.patch = patch,
                               !.undo = PrevLists(Cancelled, change), !.undoDetail = detail[i],
                               !.stale = StaleKeys(change)]
<1>1. /\ list \in Queries /\ view \in Table /\ edit \in [1..MaxEdits -> Edit]
      /\ view[i] \in Row /\ l \in Lists /\ list[l].data # None
  BY TypeParts DEF Table, Loaded
<1>2. list' = Apply(Cancelled, change) /\ edit' = [edit EXCEPT ![n] = e]
  BY DEF Update, Cancelled
<1>3. e.patch = patch /\ e.stale = StaleKeys(change)
  BY DEF NoEdit
<1>4. Cancelled \in Queries /\ Cancelled[l].data = list[l].data
  BY <1>1, CancelledAt
<1>5. changed \in Bits /\ Covers(changed, view[i], Merge(view[i], patch))
  BY <1>1, ChangedType, ChangedFacts
<1> HIDE DEF e, changed
<1>6. \/ l \in StaleKeys(change)
      \/ AccurateIn(Put(view, i, Merge(view[i], patch)), l, Apply(Cancelled, change)[l].data)
  BY <1>1, <1>4, <1>5, WrittenRight
<1> HIDE DEF change
<1>7. edit'[n] = e
  BY <1>1, <1>2
<1> QED
  BY <1>2, <1>3, <1>6, <1>7

LEMMA SuccessRight ==
  ASSUME TypeOK, NEW n \in DOMAIN edit, Success(n), edit[n].type = "updated",
         NEW l \in Loaded(list),
         AccurateIn(Put(view, edit[n].id, edit[n].reply), l, list[l].data)
  PROVE  AccurateIn(Put(view, edit[n].id, edit[n].reply), l, list'[l].data) \/ list'[l].stale
<1> DEFINE changed == Changed(edit[n].patch, edit[n].reply)
<1>1. /\ list \in Queries /\ view \in Table /\ edit[n] \in Edit
      /\ l \in Lists /\ list[l].data # None
  BY TypeParts DEF Loaded
<1>2. PICK i \in Issues, row \in Row : i = edit[n].id /\ row = edit[n].reply
  BY <1>1 DEF Edit, Success
<1>3. PICK T \in Table : T = Put(view, i, row) /\ T[i] = row
  BY <1>1, PutFacts
<1>4. changed \in Bits /\ row \in Patch /\ Merge(row, row) = row /\ Put(T, i, row) = T
  BY <1>3, ChangedType, RowPatch, PutFacts
<1>5. Covers(changed, row, row)
  BY DEF Covers
<1>6. PICK change, keys :
        /\ change = ChangeOf(list, i, row, changed, row)
        /\ keys = StaleKeys(change) \cup edit[n].stale
        /\ list' = InvalidateAll(Apply(list, change), keys)
  BY <1>2 DEF Success
<1> HIDE DEF changed
<1>7. /\ Apply(list, change) \in Queries
      /\ l \in StaleKeys(change) \/ AccurateIn(T, l, Apply(list, change)[l].data)
  BY <1>1, <1>2, <1>3, <1>4, <1>5, <1>6, WrittenRight
<1>8. list'[l].data = Apply(list, change)[l].data /\ (l \in keys => list'[l].stale)
  BY <1>1, <1>6, <1>7, InvalidateAllAt
<1> QED
  BY <1>2, <1>3, <1>6, <1>7, <1>8

\* For any constants: the optimistic patch of an edit and the pass over the
\* answer keep what is right about the lists, or record what is to be refetched.
THEOREM EditsReconciled == Spec => EditsReconcile
<1>1. TypeOK /\ [Next]_vars =>
        [\A n \in DOMAIN edit, l \in Loaded(list) :
           LET e == edit[n]
               i == edit'[n].id
               wanted == Put(view, i, Merge(view[i], edit'[n].patch))
               answered == Put(view, e.id, e.reply)
           IN  /\ /\ e.stage = "new" /\ edit'[n].stage = "sent"
                  /\ view[i] # None /\ detail[i] \in {None, view[i]}
                  /\ AccurateIn(view, l, list[l].data)
                  => AccurateIn(wanted, l, list'[l].data) \/ l \in edit'[n].stale
               /\ /\ e.stage = "ok" /\ e.type = "updated" /\ edit'[n].stage = "settled"
                  /\ AccurateIn(answered, l, list[l].data)
                  => AccurateIn(answered, l, list'[l].data) \/ list'[l].stale]_vars
  <2> SUFFICES ASSUME TypeOK, [Next]_vars, NEW n \in DOMAIN edit, NEW l \in Loaded(list)
               PROVE  LET e == edit[n]
                          i == edit'[n].id
                          wanted == Put(view, i, Merge(view[i], edit'[n].patch))
                          answered == Put(view, e.id, e.reply)
                      IN  /\ /\ e.stage = "new" /\ edit'[n].stage = "sent"
                             /\ view[i] # None /\ detail[i] \in {None, view[i]}
                             /\ AccurateIn(view, l, list[l].data)
                             => AccurateIn(wanted, l, list'[l].data) \/ l \in edit'[n].stale
                          /\ /\ e.stage = "ok" /\ e.type = "updated" /\ edit'[n].stage = "settled"
                             /\ AccurateIn(answered, l, list[l].data)
                             => AccurateIn(answered, l, list'[l].data) \/ list'[l].stale
    OBVIOUS
  <2>1. ASSUME edit[n].stage = "new", edit'[n].stage = "sent", view[edit'[n].id] # None,
               detail[edit'[n].id] \in {None, view[edit'[n].id]}, AccurateIn(view, l, list[l].data)
        PROVE  \/ AccurateIn(Put(view, edit'[n].id, Merge(view[edit'[n].id], edit'[n].patch)),
                             l, list'[l].data)
               \/ l \in edit'[n].stale
    <3>1. PICK i \in Issues, patch \in Patch : Update(n, i, patch)
      BY <2>1, OnlyUpdated
    <3>2. edit'[n].id = i
      BY <3>1, UpdateId
    <3> QED
      BY <2>1, <3>1, <3>2, UpdateRight
  <2>2. ASSUME edit[n].stage = "ok", edit[n].type = "updated", edit'[n].stage = "settled",
               AccurateIn(Put(view, edit[n].id, edit[n].reply), l, list[l].data)
        PROVE  AccurateIn(Put(view, edit[n].id, edit[n].reply), l, list'[l].data) \/ list'[l].stale
    BY <2>2, OnlySuccess, SuccessRight
  <2> QED
    BY <2>1, <2>2
<1> QED
  BY <1>1, ShapesKept, PTL DEF Spec, EditsReconcile
=============================================================================
