-------------------------------- MODULE FpTable --------------------------------
(***************************************************************************)
(* The table of events, channels or commands of a page (vue-support/       *)
(* fptable.js) and the ScrollHandler that limits it to a window            *)
(* (vue-support/utils.js), fed by a list history of datastore.js.          *)
(*                                                                         *)
(* The list that is filtered and sorted is recomputed by send, which runs  *)
(* when items arrive and, through timers, some time after the user changed *)
(* what is to be shown.  The element that scrolls may be anywhere: an      *)
(* event of it says "top", "bottom" or "middle" and whether it follows the *)
(* event before closely enough to be the user's.                           *)
(***************************************************************************)
EXTENDS Integers, Sequences, SequencesExt, FiniteSets

CONSTANTS
    MaxItems,   \* bound on the items that arrive; they are numbered from 1
    Buffer,     \* limit of the list history
    Count,      \* items in the window
    Step,       \* items of one scroll step
    Columns,    \* sortable columns
    Cell,       \* Cell[c][i]: what item i shows in column c, as a number
    Name,       \* Name[i]: name of item i in a view
    Matches,    \* Matches[m]: the items with the text of filter m
    Hidden,     \* items that itemHide hides
    NoFilter, NoColumn

ASSUME TableAssumption ==
    /\ MaxItems \in Nat /\ Buffer \in Nat \ {0} /\ Count \in Nat \ {0} /\ Step \in Nat \ {0}
    /\ NoColumn \notin Columns /\ NoFilter \in DOMAIN Matches
    /\ Cell \in [Columns -> [1 .. MaxItems -> Int]]

Filters == DOMAIN Matches
Names   == {Name[i] : i \in 1 .. MaxItems}

VARIABLES
    arrived, items,             \* items that have arrived, the history's list
    matching, view, editing,    \* what the table shows
    sortColumn, sortAscending,
    typing, leaving, reading,   \* timers of onFilterInput and of saveView or
                                \* editViews, a view file being read
    data, offset, updating, locked,     \* ScrollHandler
    displayed,
    stale                       \* the view changed without a refresh to come

source  == <<arrived, items>>
choice  == <<matching, view, editing>>
order   == <<sortColumn, sortAscending>>
timers  == <<typing, leaving, reading>>
window  == <<data, offset, updating, locked, displayed>>
tableVars    == <<source, choice, order, timers, window, stale>>

TableInit ==
    /\ arrived = 0 /\ items = <<>>
    /\ matching = NoFilter /\ view = {} /\ editing = FALSE
    /\ sortColumn = NoColumn /\ sortAscending = TRUE
    /\ typing = FALSE /\ leaving = FALSE /\ reading = FALSE
    /\ data = <<>> /\ offset = 0 /\ updating = FALSE /\ locked = FALSE
    /\ displayed = <<>> /\ stale = FALSE

Least(a, b) == IF a < b THEN a ELSE b
Most(a, b)  == IF a < b THEN b ELSE a

-----------------------------------------------------------------------------
(* filter and sort.                                                         *)

Visible(i) == \/ editing
              \/ view = {} /\ i \notin Hidden
              \/ Name[i] \in view
Chosen == {i \in Matches[matching] : Visible(i)}
OnlyOf(s, wanted) ==
    LET f[n \in 0 .. Len(s)] == IF n = 0 THEN <<>>
                                ELSE IF s[n] \in wanted THEN Append(f[n - 1], s[n]) ELSE f[n - 1]
    IN f[Len(s)]
Filtered(s) == OnlyOf(s, Chosen)

Before(i, j) == IF sortAscending THEN Cell[sortColumn][i] < Cell[sortColumn][j]
                                 ELSE Cell[sortColumn][i] > Cell[sortColumn][j]
(* Items of equal cells keep their order.                                   *)
Precedes(s, l, k) == Before(s[l], s[k]) \/ (l <= k /\ ~Before(s[k], s[l]))
Place(s, k) == Cardinality({l \in DOMAIN s : Precedes(s, l, k)})
Sorted(s) == IF sortColumn = NoColumn THEN s
             ELSE [p \in DOMAIN s |-> s[CHOOSE k \in DOMAIN s : Place(s, k) = p]]

Shown == Sorted(Filtered(items))

-----------------------------------------------------------------------------
(* ScrollHandler.                                                           *)

Filled(s) == Len(s) > Count
Slice(s, o) == SubSeq(s, o + 1, Least(o + Count, Len(s)))
Rebuild(s, o) == offset' = o /\ data' = s /\ displayed' = Slice(s, o)

(* updateData.  Items of the window that are in the new list carry it over. *)
Carried(s) == {k \in offset + 1 .. Least(offset + Count, Len(data)) : data[k] \in ToSet(s)}
BugNoCarry(s) == offset
CarriedTo(s) == IF Carried(s) = {} THEN offset
                ELSE LET first == CHOOSE k \in Carried(s) : \A l \in Carried(s) : k <= l
                     IN (CHOOSE k \in DOMAIN s : s[k] = data[first]) - 1
(* The bounds are those of the list held so far.                            *)
Wanted(s) == IF updating \/ locked THEN Len(data) - Count ELSE CarriedTo(s)
Clamped(s) == Most(0, Least(Wanted(s), Len(data) - Count))
AtEnd(s) == updating /\ Filled(s) /\ Clamped(s) + Count < Len(s)
UpdateData(s) == /\ Rebuild(s, IF AtEnd(s) THEN Len(s) - Count ELSE Clamped(s))
                 /\ UNCHANGED <<updating, locked>>

LastOffset  == IF Filled(data) THEN Len(data) - Count ELSE offset
GoLast  == updating' = TRUE  /\ Rebuild(data, LastOffset)
GoFirst == updating' = FALSE /\ Rebuild(data, IF Filled(data) THEN 0 ELSE offset)

StopUpdating == updating' = FALSE

(* prev and next.                                                           *)
Move(change) ==
    \/ ~Filled(data) /\ UNCHANGED updating /\ Rebuild(data, offset)
    \/ Filled(data) /\ LET new == offset + change IN
          \/ new + Count >= Len(data) /\ GoLast
          \/ new + Count < Len(data) /\ new <= 0 /\ GoFirst
          \/ new + Count < Len(data) /\ new > 0 /\ StopUpdating /\ Rebuild(data, new)

-----------------------------------------------------------------------------
(* send, with what the history and the user have made of the items.         *)

Refresh == (\E s \in {Shown'} : UpdateData(s)) /\ stale' = FALSE

Trimmed(s) == SubSeq(s, Len(s) - Buffer + 1, Len(s))

Arrive ==   \* ListHistory.send, then the table's
    /\ arrived < MaxItems /\ arrived' = arrived + 1
    /\ items' = IF Len(items) < Buffer THEN Append(items, arrived')
                ELSE Trimmed(Append(items, arrived'))
    /\ UNCHANGED <<choice, order, timers>> /\ Refresh

ClearRows ==    \* clearEvents and its like
    /\ items # <<>> /\ items' = <<>>
    /\ UNCHANGED <<arrived, choice, order, timers>> /\ Refresh

StartTyping == typing' = TRUE
Type ==         \* onFilterInput
    /\ \E m \in Filters \ {matching} : matching' = m
    /\ StartTyping
    /\ UNCHANGED <<source, view, editing, order, leaving, reading, window, stale>>

TypingOver ==
    /\ typing /\ typing' = FALSE
    /\ UNCHANGED <<source, choice, order, leaving, reading>> /\ Refresh

ColumnClicked(c) ==
    /\ \/ sortColumn = c /\ ~sortAscending /\ sortColumn' = NoColumn /\ sortAscending' = TRUE
       \/ sortColumn = c /\ sortAscending /\ sortAscending' = FALSE /\ UNCHANGED sortColumn
       \/ sortColumn # c /\ sortColumn' = c /\ sortAscending' = TRUE
    /\ UNCHANGED <<source, choice, timers>> /\ Refresh

(* Views.  The controls are there in editing mode only.                     *)
RefreshSoon == leaving' = TRUE

EditViews ==
    /\ ~editing /\ editing' = TRUE /\ matching' = NoFilter /\ RefreshSoon
    /\ UNCHANGED <<source, view, order, typing, reading, window, stale>>
SaveView ==
    /\ editing /\ editing' = FALSE /\ matching' = NoFilter /\ RefreshSoon
    /\ UNCHANGED <<source, view, order, typing, reading, window, stale>>
LeavingOver ==
    /\ leaving /\ leaving' = FALSE
    /\ UNCHANGED <<source, choice, order, typing, reading>> /\ Refresh

CheckedChild ==     \* a row's box; the row is one of those displayed
    /\ editing /\ \E i \in ToSet(displayed) :
          view' = IF Name[i] \in view THEN view \ {Name[i]} ELSE view \cup {Name[i]}
    /\ UNCHANGED <<source, matching, editing, order, timers, window, stale>>
ClearView ==
    /\ editing /\ view' = {}
    /\ UNCHANGED <<source, matching, editing, order, timers, window, stale>>

ReadFile ==
    /\ editing /\ ~reading /\ reading' = TRUE
    /\ UNCHANGED <<source, choice, order, typing, leaving, window, stale>>
FileRead ==         \* the file may be in only after the editing is over
    /\ reading /\ reading' = FALSE
    /\ \E v \in SUBSET Names : view' = v
    /\ stale' = (stale \/ ~editing)
    /\ UNCHANGED <<source, matching, editing, order, typing, leaving, window>>

(* The buttons of the scroller and its scroll events.                       *)
PressFirst == GoFirst /\ UNCHANGED <<source, choice, order, timers, locked, stale>>
PressLast  == GoLast  /\ UNCHANGED <<source, choice, order, timers, locked, stale>>
PressPrev  == Move(-Step) /\ UNCHANGED <<source, choice, order, timers, locked, stale>>
PressNext == Move(Step)  /\ UNCHANGED <<source, choice, order, timers, locked, stale>>
ToggleLock == /\ locked' = ~locked /\ GoLast
              /\ UNCHANGED <<source, choice, order, timers, stale>>

OnScroll(position) ==
    /\ ~locked /\ Filled(data)
    /\ \/ position = "bottom" /\ Move(Step)
       \/ position = "top" /\ Move(-Step)
    /\ UNCHANGED <<source, choice, order, timers, locked, stale>>

User == \/ Type \/ \E c \in Columns : ColumnClicked(c)
        \/ EditViews \/ SaveView \/ CheckedChild \/ ClearView \/ ReadFile
        \/ PressFirst \/ PressLast \/ PressPrev \/ PressNext \/ ToggleLock
        \/ \E p \in {"top", "bottom"} : OnScroll(p)
TableNext == Arrive \/ ClearRows \/ TypingOver \/ LeavingOver \/ FileRead \/ User
TableSpec == TableInit /\ [][TableNext]_tableVars

-----------------------------------------------------------------------------
(* Types; the window is a slice of the list, at an offset of the list.      *)
TableTypeOK ==
    /\ items \in Seq(1 .. MaxItems) /\ Len(items) <= Buffer
    /\ matching \in Filters /\ view \subseteq Names
    /\ sortColumn \in Columns \cup {NoColumn}
    /\ {editing, sortAscending, typing, leaving, reading, updating, locked, stale} \subseteq BOOLEAN
    /\ offset \in Nat /\ displayed = Slice(data, offset)

(* The list is that of the present items, filters, view and order, unless a *)
(* timer will recompute it or a view file came in late (send, filter, sort, *)
(* saveView, readFile).                                                     *)
Fresh == typing \/ leaving \/ stale \/ data = Shown

(* While it follows the data, the window reaches the end of the list        *)
(* (updateData, last).                                                      *)
FollowsEnd == updating => offset + Count >= Len(data)

(* A user who reads is not disturbed: when items arrive, and drop off at    *)
(* the other end, a window that was up to date and full keeps in place the  *)
(* rows that are still there (updateData).  One that the list left short is *)
(* moved back.                                                              *)
Kept(s) == OnlyOf(s, ToSet(data'))
Undisturbed == [][Arrive /\ ~updating /\ ~locked /\ sortColumn = NoColumn /\ data = Shown
                    /\ Len(displayed) = Least(Count, Len(data))
                    => IsPrefix(Kept(displayed), displayed')]_tableVars

(* What a table shows is what it should: its window is one of the list, which *)
(* is current or about to be and is followed to its end, and a reader is not  *)
(* disturbed (fptable.js, ScrollHandler of utils.js).                         *)
TableShown == [](TableTypeOK /\ Fresh /\ FollowsEnd) /\ Undisturbed

(* The window shows items whenever there are any: "clamp data to offset or  *)
(* 0/end-of-new-data" (utils.js:243).                                       *)
WindowNotEmpty == data # <<>> => displayed # <<>>
=============================================================================
