------------------------- MODULE EditorTransactions -------------------------
(* The selections of the sequence editor (SelectionRange, EditorSelection): a *)
(* list of ranges and the index of the main one, of a range's flags only the  *)
(* direction; and how the editor puts a transaction together from specs of    *)
(* changes, selection (a sequence of at most one) and effects (positions).    *)
EXTENDS ChangeSets

(* EditorSelection.range: anchored at one side, the head at the other.        *)
Ranged(anchor, head) ==
  IF head < anchor THEN [from |-> head, to |-> anchor, inverted |-> TRUE]
  ELSE [from |-> anchor, to |-> head, inverted |-> FALSE]
Cursor(pos) == Ranged(pos, pos)
Anchor(r) == IF r.inverted THEN r.to ELSE r.from
HeadOfRange(r) == IF r.inverted THEN r.from ELSE r.to
Point(r) == r.from = r.to
SameRange(r, s) == Anchor(r) = Anchor(s) /\ HeadOfRange(r) = HeadOfRange(s)
MappedRange(r, c, assoc) == [r EXCEPT !.from = MapPos(c, @, assoc), !.to = MapPos(c, @, assoc)]

(* normalized: sorted by their start (the sort is stable), then each range    *)
(* that meets the one before it becomes one with it.  The main index follows. *)
Meets(prev, r) == IF Point(r) THEN r.from <= prev.to ELSE r.from < prev.to
Joined(prev, r) ==
  LET to == IF r.to > prev.to THEN r.to ELSE prev.to
  IN IF r.inverted THEN Ranged(to, prev.from) ELSE Ranged(prev.from, to)
SortedPlaces(ranges) ==
  SortSeq([i \in DOMAIN ranges |-> i],
          LAMBDA i, j : ranges[i].from < ranges[j].from \/ (ranges[i].from = ranges[j].from /\ i < j))
MainAfter(at, main) == IF at <= main THEN main - 1 ELSE main
Merge(sel, r) ==
  LET n == Len(sel.ranges)
  IN IF n > 0 /\ Meets(sel.ranges[n], r)
     THEN [ranges |-> [sel.ranges EXCEPT ![n] = Joined(@, r)], main |-> MainAfter(n + 1, sel.main)]
     ELSE [sel EXCEPT !.ranges = Append(@, r)]
RECURSIVE MergeEach(_, _)
MergeEach(sel, ranges) == IF ranges = <<>> THEN sel ELSE MergeEach(Merge(sel, Head(ranges)), Tail(ranges))
MergeInOrder(ranges, main, order) ==
  MergeEach([ranges |-> <<>>, main |-> CHOOSE k \in DOMAIN order : order[k] = main],
            [i \in DOMAIN order |-> ranges[order[i]]])
Normalized(ranges, main) == MergeInOrder(ranges, main, SortedPlaces(ranges))
(* create: ranges that are in order already are taken as they are.            *)
Disordered(prev, r) == IF Point(r) THEN r.from <= prev ELSE r.from < prev
InOrder(ranges) ==
  \A i \in DOMAIN ranges : ~Disordered(IF i = 1 THEN 0 ELSE ranges[i - 1].to, ranges[i])
Create(ranges, main) ==
  IF InOrder(ranges) THEN [ranges |-> ranges, main |-> main] ELSE Normalized(ranges, main)

Single(anchor, head) == [ranges |-> <<Ranged(anchor, head)>>, main |-> 1]
MainRange(sel) == sel.ranges[sel.main]
AsSingle(sel) == [ranges |-> <<MainRange(sel)>>, main |-> 1]
MappedSelection(sel, c) ==
  IF IsEmpty(c) THEN sel
  ELSE Create([i \in DOMAIN sel.ranges |-> MappedRange(sel.ranges[i], c, -1)], sel.main)
AddRange(sel, r, main) == Create(<<r>> \o sel.ranges, IF main THEN 1 ELSE sel.main + 1)
SameSelection(sel, other) ==
  /\ Len(sel.ranges) = Len(other.ranges) /\ sel.main = other.main
  /\ \A i \in DOMAIN sel.ranges : SameRange(sel.ranges[i], other.ranges[i])
(* checkSelection.                                                            *)
Inside(sel, length) == \A i \in DOMAIN sel.ranges : sel.ranges[i].to <= length
----------------------------------------------------------------------------
NoSpec == [changes |-> <<>>, selection |-> <<>>, effects |-> <<>>]

(* StateEffect.mapEffects: an effect whose place was deleted is dropped.      *)
MapEffects(effects, c) ==
  SelectSeq([i \in DOMAIN effects |-> MapPosBy(c, effects[i], -1, "TrackDel")],
            LAMBDA p : p # Deleted)
MapChosen(selection, c) == [i \in DOMAIN selection |-> MappedSelection(selection[i], c)]

(* mergeTransaction: b, like a, was written for the document a starts in (no  *)
(* spec of this program is sequential).                                       *)
EffectsOf(b, mapForB) == MapEffects(b.effects, mapForB)
Merged2(a, b, forA, forB, changes) ==
  [a EXCEPT !.changes = changes,
            !.selection = MapChosen(IF b.selection # <<>> THEN b.selection ELSE @,
                                    IF b.selection # <<>> THEN forB ELSE forA),
            !.effects = MapEffects(a.effects, forA) \o EffectsOf(b, forB)]
BeforeOther(a, b) == MapSet(Desc(a.changes), b.changes, TRUE)
MergedFor(a, b, forA) == Merged2(a, b, forA, BeforeOther(a, b), Compose(a.changes, forA))
MergeTransaction(a, b) == MergedFor(a, b, MapSet(b.changes, a.changes, FALSE))

(* resolveTransaction: the specs one after the other.                         *)
ResolveInner(spec, length) == [spec EXCEPT !.changes = Of(@, length)]
RECURSIVE MergeAll(_, _)
MergeAll(first, rest) == IF rest = <<>> THEN first ELSE MergeAll(MergeTransaction(first, Head(rest)), Tail(rest))
ResolvedFrom(inner) == MergeAll(Head(inner), Tail(inner))
Resolved(specs, length) == ResolvedFrom([i \in DOMAIN specs |-> ResolveInner(specs[i], length)])
(* Transaction.newSelection; without allowMultipleSelections only the main    *)
(* range is kept.                                                             *)
NewSelection(tr, sel) == IF tr.selection # <<>> THEN tr.selection[1] ELSE MappedSelection(sel, tr.changes)

(* changeByRange: f gives a range's changes and the range they leave.         *)
RECURSIVE ByRange(_, _, _, _, _)
BugOwnPlace(range, mapBy) == range
LaterMapped(range, mapBy) == MappedRange(range, mapBy, -1)
WithNext(sel, results, i, changes, ranges, newMapped, mapBy) ==
  ByRange(sel, results, i + 1, Compose(changes, newMapped),
          Append([j \in DOMAIN ranges |-> MappedRange(ranges[j], newMapped, -1)],
                 LaterMapped(results[i].range, mapBy)))
ByRange(sel, results, i, changes, ranges) ==
  IF i > Len(results) THEN [changes |-> changes, selection |-> <<Create(ranges, sel.main)>>]
  ELSE WithNext(sel, results, i, changes, ranges, MapSet(results[i].changes, changes, FALSE),
                MapSet(Desc(changes), results[i].changes, TRUE))
ChangeByRange(sel, results) ==
  ByRange(sel, results, 2, results[1].changes, <<results[1].range>>) @@ NoSpec
(* replaceSelection.                                                          *)
Replacing(range, text, length) ==
  [changes |-> Of(<<[from |-> range.from, to |-> range.to, insert |-> text]>>, length),
   range |-> Cursor(range.from + Len(text))]
ReplaceSelection(sel, texts, length) ==
  ChangeByRange(sel, [i \in DOMAIN sel.ranges |-> Replacing(sel.ranges[i], texts[i], length)])
=============================================================================
