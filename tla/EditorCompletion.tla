--------------------------- MODULE EditorCompletion --------------------------
(* Autocompletion (ActiveSource, ActiveResult, CompletionState and            *)
(* completionPlugin): every transaction moves each source between inactive,   *)
(* pending and a result; pending sources are asked after a delay, and answer  *)
(* later, when what was typed meanwhile is replayed on the result.            *)
EXTENDS EditorTransactions, FiniteSets

CONSTANTS Sources,         \* completion sources
          MaxSize, MaxQueries, MaxFailed,   \* bounds: document, queries, failing answers
          MaxTaken         \* and transactions
VARIABLES size, head,      \* document length and the cursor
          active,          \* CompletionState.active, one for each source
          open,            \* the dialog's place, or NoDialog
          running,         \* the plugin's queries
          debounceUpdate, debounceAccept,   \* its timers
          asked, failed,   \* queries started, and failed
          taken            \* transactions, counted against their bound
completionVars == <<size, head, active, open, running, debounceUpdate, debounceAccept, asked, failed, taken>>

NoDialog == -1
NoPos == -1
Inactive == [kind |-> "Inactive", explicit |-> NoPos, from |-> 0, to |-> 0, id |-> 0]
Pending(explicit) == [Inactive EXCEPT !.kind = "Pending", !.explicit = explicit]
Result(explicit, from, to, id) == [kind |-> "Result", explicit |-> explicit, from |-> from, to |-> to, id |-> id]
HasResult(a) == a.kind = "Result"
Moved(c, pos) == IF pos = NoPos THEN NoPos ELSE MapPos(c, pos, -1)

(* A transaction, as the sources see it: start and new cursor, whether it     *)
(* selects, the event it came from, and whether the text still fits the span. *)
Tr(changes, to, selects, event, fits) ==
  [changes |-> changes, from |-> head, to |-> to, selects |-> selects, event |-> event, fits |-> fits]
Same(to, selects) == Tr(EmptySet(size), to, selects, "none", TRUE)
----------------------------------------------------------------------------
(* ActiveSource.update, ActiveResult's overrides of handleUserEvent,          *)
(* handleChange and map.                                                      *)
MapActive(a, c) ==
  IF IsEmpty(c) THEN a
  ELSE [a EXCEPT !.explicit = Moved(c, @),
                 !.from = IF HasResult(a) THEN MapPos(c, @, -1) ELSE @,
                 !.to = IF HasResult(a) THEN MapPos(c, @, 1) ELSE @]
Left(a, tr, from, to) ==
  (IF a.explicit > -1 THEN tr.to < from ELSE tr.to <= from) \/ tr.to > to
Fits(tr, from, to) == from = to \/ tr.fits
ResultTyped(a, tr, m, from, to) ==
  IF Left(a, tr, from, to) THEN IF tr.event = "input" THEN Pending(NoPos) ELSE Inactive
  ELSE IF Fits(tr, from, to) THEN [m EXCEPT !.from = from, !.to = to] ELSE Pending(m.explicit)
Typed(a, tr, m) ==
  IF HasResult(a) THEN ResultTyped(a, tr, m, MapPos(tr.changes, a.from, -1), MapPos(tr.changes, a.to, 1))
  ELSE IF tr.event = "delete" THEN m ELSE Pending(NoPos)
TouchedBy(a, tr) ==
  TouchesRange(tr.changes, IF HasResult(a) THEN a.from ELSE tr.from, IF HasResult(a) THEN a.to ELSE tr.from) # "no"
UpdatedTo(a, tr, m) ==
  IF tr.event # "none" THEN Typed(a, tr, m)
  ELSE IF IsEmpty(tr.changes) THEN IF tr.selects THEN Inactive ELSE a
  ELSE IF TouchedBy(a, tr) THEN Inactive ELSE m
ActiveUpdate(a, tr) == UpdatedTo(a, tr, MapActive(a, tr.changes))

(* CompletionState.update: the effects come after; the dialog is built anew   *)
(* when results, cursor or the text under a result changed, else only mapped. *)
FirstPlace(now) ==
  LET places == {now[s].from : s \in {t \in Sources : HasResult(now[t])}}
  IN CHOOSE p \in places : \A q \in places : p <= q
SameResults(now) ==
  \A s \in Sources : HasResult(now[s]) = HasResult(active[s]) /\ (HasResult(now[s]) => now[s].id = active[s].id)
Rebuilds(now, tr) ==
  \/ tr.selects \/ ~SameResults(now)
  \/ \E s \in Sources : HasResult(now[s]) /\ TouchesRange(tr.changes, now[s].from, now[s].to) # "no"
Built(now, some) == IF some /\ \E s \in Sources : HasResult(now[s]) THEN FirstPlace(now) ELSE NoDialog
Opened(now, tr, some) ==
  IF Rebuilds(now, tr) THEN Built(now, some)
  ELSE IF open = NoDialog THEN NoDialog ELSE MapPos(tr.changes, open, -1)
(* A dialog without options, and nothing pending, ends the results.           *)
Closed(now, dialog) ==
  IF dialog = NoDialog /\ (\A s \in Sources : now[s].kind # "Pending")
  THEN [s \in Sources |-> IF HasResult(now[s]) THEN Inactive ELSE now[s]] ELSE now

(* completionPlugin.update: what moves the cursor without typing drops the    *)
(* queries; the others take the transaction; a source that waits and is not   *)
(* asked yet is asked after DebounceTime.                                     *)
Resets(tr) == (tr.selects \/ ~IsEmpty(tr.changes)) /\ tr.event = "none"
Queries(tr) ==
  IF Resets(tr) THEN <<>> ELSE [i \in DOMAIN running |-> [running[i] EXCEPT !.updates = Append(@, tr)]]
Asked(queries, s) == \E i \in DOMAIN queries : queries[i].source = s
Unasked(now, queries) == \E s \in Sources : now[s].kind = "Pending" /\ ~Asked(queries, s)
Dispatched(tr, now, queries) ==
  /\ taken < MaxTaken /\ taken' = taken + 1
  /\ size' = NewLength(tr.changes) /\ head' = tr.to
  /\ \E some \in BOOLEAN : \E dialog \in {Opened(now, tr, some)} :
       open' = dialog /\ active' = Closed(now, dialog)
  /\ running' = queries
  /\ debounceUpdate' = Unasked(active', queries)
TakenBy(tr) ==
  Dispatched(tr, [s \in Sources |-> ActiveUpdate(active[s], tr)], Queries(tr))
  /\ UNCHANGED <<debounceAccept, asked, failed>>
----------------------------------------------------------------------------
Typing ==
  /\ size < MaxSize
  /\ \E fits \in BOOLEAN :
       TakenBy(Tr(Of(<<[from |-> head, to |-> head, insert |-> <<1>>]>>, size), head + 1, TRUE, "input", fits))
Deleting ==
  /\ head > 0
  /\ \E fits \in BOOLEAN :
       TakenBy(Tr(Of(<<[from |-> head - 1, to |-> head, insert |-> <<>>]>>, size), head - 1, TRUE, "delete", fits))
Moving == \E pos \in 0 .. size : TakenBy(Same(pos, TRUE))
(* A change of another part of the page, with or without a selection.         *)
Changing ==
  \E from, to \in 0 .. size, ins \in {<<>>, <<1>>}, selects \in BOOLEAN :
    /\ from <= to
    /\ \E c \in {Of(<<[from |-> from, to |-> to, insert |-> ins]>>, size)} :
         /\ ~IsEmpty(c) /\ NewLength(c) <= MaxSize
         /\ \E pos \in IF selects THEN 0 .. NewLength(c) ELSE {MapPos(c, head, -1)} :
              TakenBy(Tr(c, pos, selects, "none", TRUE))
(* startCompletion and closeCompletion.                                       *)
Starting ==
  Dispatched(Same(head, FALSE), [s \in Sources |-> Pending(head)], Queries(Same(head, FALSE)))
  /\ UNCHANGED <<debounceAccept, asked, failed>>
Closing ==
  /\ \E s \in Sources : active[s].kind # "Inactive"
  /\ Dispatched(Same(head, FALSE), [s \in Sources |-> Inactive], Queries(Same(head, FALSE)))
  /\ UNCHANGED <<debounceAccept, asked, failed>>
(* acceptCompletion: the option's text takes the place of what was typed.     *)
Accepting ==
  /\ open # NoDialog
  /\ \E s \in Sources :
       /\ HasResult(active[s])
       /\ \E c \in {Of(<<[from |-> active[s].from, to |-> active[s].to, insert |-> <<1>>]>>, size)} :
            NewLength(c) <= MaxSize /\ TakenBy(Tr(c, active[s].from + 1, TRUE, "none", TRUE))

(* startUpdate and startQuery, then the answer of the source.                 *)
Waiting == {s \in Sources : active[s].kind = "Pending" /\ ~Asked(running, s)}
Query(s, id) == [source |-> s, explicit |-> active[s].explicit, id |-> id, at |-> head,
                 updates |-> <<>>, done |-> "no", from |-> 0]
StartUpdate ==
  /\ debounceUpdate /\ debounceUpdate' = FALSE
  /\ asked + Cardinality(Waiting) <= MaxQueries /\ asked' = asked + Cardinality(Waiting)
  /\ LET order == SetToSeq(Waiting)
     IN running' = running \o [i \in DOMAIN order |-> Query(order[i], asked + i)]
  /\ UNCHANGED <<size, head, active, open, debounceAccept, failed, taken>>
AnswerSource ==
  \E i \in DOMAIN running :
    /\ running[i].done = "no"
    /\ \/ running' = [running EXCEPT ![i].done = "null"]
       \/ \E from \in 0 .. running[i].at : running' = [running EXCEPT ![i].done = "result", ![i].from = from]
    /\ debounceAccept' = TRUE
    /\ UNCHANGED <<size, head, active, open, debounceUpdate, asked, failed, taken>>
(* A source that fails closes the completion; its query stays.                *)
FailAnswer ==
  /\ failed < MaxFailed
  /\ \E i \in DOMAIN running :
       /\ running[i].done = "no" /\ failed' = failed + 1
       /\ Dispatched(Same(head, FALSE), [s \in Sources |-> Inactive],
                     [k \in DOMAIN running |-> [running[k] EXCEPT !.updates = Append(@, Same(head, FALSE)),
                                                                  !.done = IF k = i THEN "failed" ELSE @]])
  /\ UNCHANGED <<debounceAccept, asked>>

(* accept: the transactions since the query are replayed on its result.  One  *)
(* that did not survive is asked again when the source still waits; a source  *)
(* that gave nothing stops waiting, unless it was set to wait meanwhile.      *)
RECURSIVE Replay(_, _)
Replay(a, trs) == IF trs = <<>> THEN a ELSE Replay(ActiveUpdate(a, Head(trs)), Tail(trs))
Replayed(q) ==
  Replay(IF q.done = "null" THEN Inactive
         ELSE Result(q.explicit, q.from, IF q.updates = <<>> THEN head ELSE q.updates[1].from, q.id), q.updates)
Survives(q, after) == q.done = "result" /\ HasResult(after)
Restarts(q, after) == q.done = "result" /\ ~HasResult(after) /\ active[q.source].kind = "Pending"
Ends(q, after) == q.done = "null" /\ active[q.source].kind = "Pending" /\ after.kind # "Pending"
Finished == {i \in DOMAIN running : running[i].done \in {"null", "result"}}
AcceptAs(now, queries) ==
  IF now = active THEN running' = queries /\ UNCHANGED <<size, head, active, open, debounceUpdate, taken>>
  ELSE Dispatched(Same(head, FALSE), now,
         [i \in DOMAIN queries |-> [queries[i] EXCEPT !.updates = Append(@, Same(head, FALSE))]])
(* The query that survived speaks for its source, else the one that ended.    *)
AnswerOf(s, kept, ended, after) ==
  LET mine == {i \in kept : running[i].source = s}   none == {i \in ended : running[i].source = s}
  IN IF mine # {} THEN after[CHOOSE i \in mine : TRUE]
     ELSE IF none # {} THEN after[CHOOSE i \in none : TRUE] ELSE active[s]
Accept ==
  /\ debounceAccept /\ debounceAccept' = FALSE
  /\ \E after \in {[i \in Finished |-> Replayed(running[i])]} :
     \E again \in {SetToSeq({running[i].source : i \in {k \in Finished : Restarts(running[k], after[k])}})} :
       /\ asked + Len(again) <= MaxQueries /\ asked' = asked + Len(again)
       /\ AcceptAs([s \in Sources |-> AnswerOf(s, {i \in Finished : Survives(running[i], after[i])},
                                              {i \in Finished : Ends(running[i], after[i])}, after)],
                   SelectSeq(running, LAMBDA q : q.done \in {"no", "failed"})
                     \o [i \in DOMAIN again |-> Query(again[i], asked + i)])
  /\ UNCHANGED failed
----------------------------------------------------------------------------
CompletionInit ==
  /\ size = 0 /\ head = 0 /\ active = [s \in Sources |-> Inactive] /\ open = NoDialog
  /\ running = <<>> /\ debounceUpdate = FALSE /\ debounceAccept = FALSE /\ asked = 0 /\ failed = 0 /\ taken = 0
CompletionNext ==
  \/ Typing \/ Deleting \/ Moving \/ Changing \/ Starting \/ Closing \/ Accepting
  \/ StartUpdate \/ AnswerSource \/ FailAnswer \/ Accept
----------------------------------------------------------------------------
(* A result stays inside the document, and a dialog is open for results only. *)
(* The range of a result is mapped by several rules, and the list of results  *)
(* changes with every answer.                                                 *)
ResultsInText ==
  /\ \A s \in Sources : HasResult(active[s]) => /\ 0 <= active[s].from /\ active[s].from <= active[s].to
                                                /\ active[s].to <= size
  /\ open # NoDialog => \E s \in Sources : HasResult(active[s])

(* No source is asked twice at a time, however its results are dropped,       *)
(* replayed and asked for again.                                              *)
OneQueryEach ==
  \A i, k \in DOMAIN running : running[i].source = running[k].source => i = k

(* A source that waits has a query or a timer that starts one; it is left     *)
(* without either only when it answered that it has nothing.                  *)
Served(s) == active[s].kind = "Pending" => debounceUpdate \/ Asked(running, s)
PendingServed ==
  [][\A s \in Sources :
       Served(s) /\ ~Served(s)' =>
         \E i \in DOMAIN running : running[i].source = s /\ running[i].done = "null"]_completionVars

(* Each source is asked once for what is typed, and what is shown of its      *)
(* answers fits the text as it is now (completionPlugin, ActiveResult).       *)
CompletionsFit == []ResultsInText /\ []OneQueryEach /\ PendingServed
=============================================================================
