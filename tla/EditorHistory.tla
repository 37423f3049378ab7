---------------------------- MODULE EditorHistory ---------------------------
(* The editor's undo history: two branches of events, each the changes that   *)
(* undo (or redo) one group, with the selections before and after it.  A      *)
(* change that is not the history's own is mapped into both branches.         *)
EXTENDS EditorTransactions, FiniteSets

CONSTANTS HistoryLength,   \* characters of the first document
          MinDepth, DepthSlack,   \* minDepth, and the events kept above it
          MaxTyped, MaxOther, MaxSelects   \* local changes, others, selections
VARIABLES text, cursor,    \* the document and the selection
          done, undone,    \* the branches
          recent,          \* prevTime is set
          lastMove,        \* prevUserEvent is "keyboardselection"
          typed, others, selects,   \* counted against the bounds
          gone             \* characters a change outside the history removed
historyVars == <<text, cursor, done, undone, recent, lastMove, typed, others, selects, gone>>

FirstText == [i \in 1 .. HistoryLength |-> i]
TypedChar == 100 + typed
OtherChar == 200 + others

(* HistEvent: changes, the mapping seen since (at most one), selections.      *)
SelectionEvent(selections) ==
  [real |-> FALSE, changes |-> <<>>, mapped |-> <<>>, start |-> Single(0, 0), after |-> selections]
EventOf(tr) ==
  [real |-> TRUE, changes |-> Invert(tr.changes, text), mapped |-> <<>>, start |-> cursor, after |-> <<>>]
UpdateBranch(branch, to, maxLen, event) ==
  LET start == IF to + 1 > maxLen + DepthSlack THEN to - maxLen - 1 ELSE 0
  IN Append(SubSeq(branch, start + 1, to), event)
(* isAdjacent: a's changed ranges and, in the new document, b's.              *)
IsAdjacent(a, b) ==
  \E r \in Range(Changed(a, FALSE)), s \in Range(Changed(b, FALSE)) :
    s.toB >= r.fromA /\ s.fromB <= r.toA
SameShape(a, b) ==
  /\ Len(a.ranges) = Len(b.ranges)
  /\ \A i \in DOMAIN a.ranges : Point(a.ranges[i]) = Point(b.ranges[i])

(* addSelection: after the last event, once.                                  *)
AddSelection(branch, sel) ==
  IF branch = <<>> THEN <<SelectionEvent(<<sel>>)>>
  ELSE LET after == Last(branch).after
       IN IF after # <<>> /\ SameSelection(Last(after), sel) THEN branch
          ELSE [branch EXCEPT ![Len(branch)].after = Append(@, sel)]
PopSelection(branch) == [branch EXCEPT ![Len(branch)].after = Front(@)]

(* mapEvent and addMappingToBranch: an event mapped away leaves its mapping   *)
(* to the event below it.                                                     *)
MapOwn(event, mapping, before, after) ==
  IF ~event.real THEN SelectionEvent(after)
  ELSE [real |-> TRUE, changes |-> MapSet(event.changes, mapping, FALSE),
        mapped |-> <<IF event.mapped = <<>> THEN before ELSE Compose(event.mapped[1], before)>>,
        start |-> MappedSelection(event.start, before), after |-> after]
MapEvent(event, mapping, extra) ==
  MapOwn(event, mapping, MapSet(mapping, Desc(event.changes), TRUE),
         [i \in DOMAIN event.after |-> MappedSelection(event.after[i], mapping)] \o extra)
RECURSIVE AddMapping(_, _, _)
AddMapped(below, event) ==
  IF event.real /\ ~IsEmpty(event.changes) THEN Append(below, event)
  ELSE AddMapping(below, IF event.real THEN event.mapped[1] ELSE <<>>, event.after)
AddMapping(branch, mapping, extra) ==
  IF branch = <<>> THEN IF extra = <<>> THEN <<>> ELSE <<SelectionEvent(extra)>>
  ELSE AddMapped(Front(branch), MapEvent(Last(branch), mapping, extra))
MappedBranch(branch, mapping) == IF branch = <<>> THEN branch ELSE AddMapping(branch, mapping, <<>>)
----------------------------------------------------------------------------
Become(tr) == text' = Apply(tr.changes, text) /\ cursor' = NewSelection(tr, cursor)

(* addChanges: a change soon after the last one, and adjacent, joins it.      *)
JoinsLast(last, event) ==
  /\ last.real /\ last.after = <<>> /\ ~IsEmpty(last.changes)
  /\ IsAdjacent(last.changes, event.changes)
AddChanges(branch, event, soon) ==
  IF branch # <<>> /\ soon /\ JoinsLast(Last(branch), event)
  THEN UpdateBranch(branch, Len(branch) - 1, MinDepth,
         [Last(branch) EXCEPT !.changes = Compose(event.changes, @), !.after = <<>>])
  ELSE UpdateBranch(branch, Len(branch), MinDepth, event)

HistoryInit ==
  /\ text = FirstText /\ cursor = Single(0, 0) /\ done = <<>> /\ undone = <<>>
  /\ recent = FALSE /\ lastMove = FALSE
  /\ typed = 0 /\ others = 0 /\ selects = 0 /\ gone = {}

(* A transaction of the user: the selection is replaced, or emptied.  "soon": *)
(* newGroupDelay is not over, no isolateHistory before it; "closed": after.   *)
Local(tr) ==
  \E soon, closed \in BOOLEAN :
    /\ soon => recent
    /\ Become(tr)
    /\ done' = AddChanges(done, EventOf(tr), soon) /\ undone' = <<>>
    /\ recent' = ~closed /\ lastMove' = FALSE
Type ==
  /\ typed < MaxTyped /\ typed' = typed + 1
  /\ \E some \in BOOLEAN :
       \E tr \in {ReplaceSelection(cursor,
                    [i \in DOMAIN cursor.ranges |-> IF some THEN <<TypedChar>> ELSE <<>>], Len(text))} :
         ~IsEmpty(tr.changes) /\ Local(tr)
  /\ UNCHANGED <<others, selects, gone>>

(* A change with addToHistory false.                                          *)
Other ==
  /\ others < MaxOther /\ others' = others + 1
  /\ \E from, to \in 0 .. Len(text), t \in {<<>>, <<OtherChar>>} :
       /\ from <= to /\ to <= from + 1
       /\ \E c \in {Of(<<[from |-> from, to |-> to, insert |-> t]>>, Len(text))} :
            /\ ~IsEmpty(c) /\ Become([NoSpec EXCEPT !.changes = c])
            /\ done' = MappedBranch(done, Desc(c)) /\ undone' = MappedBranch(undone, Desc(c))
       /\ gone' = gone \cup Range(SubSeq(text, from + 1, to))
  /\ UNCHANGED <<recent, lastMove, typed, selects>>

(* A selection made by keyboard or otherwise; a keyboard move soon after      *)
(* another one of the same shape is not stored.                               *)
Select ==
  /\ selects < MaxSelects /\ selects' = selects + 1
  /\ \E from, to \in 0 .. Len(text), add, moved, soon \in BOOLEAN :
       LET sel == IF add THEN AddRange(cursor, Ranged(from, to), TRUE) ELSE Single(from, to)
           after == IF done = <<>> THEN <<>> ELSE Last(done).after
       IN /\ soon => recent /\ moved /\ lastMove
          /\ cursor' = sel /\ lastMove' = moved
          /\ IF after # <<>> /\ soon /\ SameShape(Last(after), cursor)
             THEN UNCHANGED <<done, undone, recent>>
             ELSE done' = AddSelection(done, cursor) /\ recent' = TRUE /\ UNCHANGED undone
  /\ UNCHANGED <<text, typed, others, gone>>

(* pop, then the update of the field: what is undone goes to the other side.  *)
CanPop(branch) == branch # <<>> /\ Last(branch).real
Rest(branch) ==
  LET event == Last(branch)
  IN IF event.mapped = <<>> THEN Front(branch) ELSE MappedBranch(Front(branch), event.mapped[1])
Popped(branch) ==
  LET event == Last(branch)
  IN [NoSpec EXCEPT !.changes = event.changes, !.selection = <<event.start>>]
Pushed(branch, tr) ==
  IF IsEmpty(tr.changes) THEN AddSelection(branch, cursor)
  ELSE UpdateBranch(branch, Len(branch), MinDepth, EventOf(tr))
Reset == recent' = FALSE /\ lastMove' = FALSE
Undo ==
  /\ CanPop(done) /\ Become(Popped(done))
  /\ done' = Rest(done) /\ undone' = Pushed(undone, Popped(done))
  /\ Reset /\ UNCHANGED <<typed, others, selects, gone>>
Redo ==
  /\ CanPop(undone) /\ Become(Popped(undone))
  /\ undone' = Rest(undone) /\ done' = Pushed(done, Popped(undone))
  /\ Reset /\ UNCHANGED <<typed, others, selects, gone>>

(* undoSelection and redoSelection: the last selection, or else an event.     *)
HasSelection(branch) == branch # <<>> /\ Last(branch).after # <<>>
Chosen(branch) == [NoSpec EXCEPT !.changes = EmptySet(Len(text)), !.selection = <<Last(Last(branch).after)>>]
UndoSelection ==
  /\ HasSelection(done) /\ Become(Chosen(done))
  /\ done' = PopSelection(done) /\ undone' = AddSelection(undone, cursor)
  /\ Reset /\ UNCHANGED <<typed, others, selects, gone>>
RedoSelection ==
  /\ HasSelection(undone) /\ Become(Chosen(undone))
  /\ undone' = PopSelection(undone) /\ done' = AddSelection(done, cursor)
  /\ Reset /\ UNCHANGED <<typed, others, selects, gone>>

HistoryNext == Type \/ Other \/ Select \/ Undo \/ Redo \/ UndoSelection \/ RedoSelection
----------------------------------------------------------------------------
(* What the branches of the undo history stand for: the documents that come   *)
(* out when they are undone, or redone, one event after the other.            *)
RECURSIVE ReplayBranch(_, _)
ReplayBranch(branch, doc) ==
  IF ~CanPop(branch) THEN doc
  ELSE ReplayBranch(Rest(branch), Apply(Popped(branch).changes, doc))
RECURSIVE BranchFits(_, _)
BranchFits(branch, length) ==
  branch # <<>> =>
    /\ \A i \in DOMAIN Last(branch).after : Inside(Last(branch).after[i], length)
    /\ Last(branch).real =>
         /\ Length(Last(branch).changes) = length
         /\ Last(branch).changes # Mismatched
         /\ Inside(Last(branch).start, NewLength(Last(branch).changes))
         /\ BranchFits(Rest(branch), NewLength(Last(branch).changes))

(* Whatever changes came in between, each event of both branches applies to   *)
(* the document it will be reached in, and its selections lie within the      *)
(* documents they belong to: undo never meets a mismatched change set.        *)
BranchesFit == BranchFits(done, Len(text)) /\ BranchFits(undone, Len(text)) /\ Inside(cursor, Len(text))

(* Undoing everything takes away what the user typed and brings back what the *)
(* user removed, and leaves what others did.                                  *)
OwnOnly ==
  \A first \in {ReplayBranch(done, text)} :
     /\ Range(first) \cap (100 .. 199) = {}
     /\ SelectSeq(first, LAMBDA ch : ch < 100) = SelectSeq(FirstText, LAMBDA ch : ch \notin gone)

(* Undo, redo and selecting are steps along one line of documents: the first  *)
(* and the last of them stay what they are.                                   *)
Stable ==
  [][<<text, done, undone>>' # <<text, done, undone>> /\ typed' = typed /\ others' = others =>
       /\ ReplayBranch(done', text') = ReplayBranch(done, text)
       /\ ReplayBranch(undone', text') = ReplayBranch(undone, text)]_historyVars
=============================================================================
