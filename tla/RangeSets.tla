----------------------------- MODULE RangeSets ------------------------------
(* The sets of ranges over the document that hold decorations and markers     *)
(* (RangeSet): layers of chunks of ranges, relative to their chunk's          *)
(* position.  They are updated and mapped chunk by chunk, and read by cursors *)
(* that merge the layers.                                                     *)
EXTENDS ChangeSets

CONSTANTS ChunkSize,       \* ranges of a chunk at most (250)
          Kinds            \* of a kind of value: startSide, endSide, point

Beyond == 1000             \* Far
EndSide(r) == Kinds[r.value.kind].endSide
StartSide(r) == Kinds[r.value.kind].startSide
IsPoint(r) == Kinds[r.value.kind].point
Order(a, b) == IF a # 0 THEN a ELSE b
CmpRange(r, s) == Order(r.from - s.from, StartSide(r) - StartSide(s))
CmpEnd(r, s) == Order(r.to - s.to, EndSide(r) - EndSide(s))
AtPlace(r, pos) == [r EXCEPT !.from = @ + pos, !.to = @ + pos]
RangesOfChunk(chunk) == [i \in DOMAIN chunk.ranges |-> AtPlace(chunk.ranges[i], chunk.pos)]
ChunkEnd(chunk) == chunk.pos + Last(chunk.ranges).to
RangesIn(set) == UNION {UNION {Range(RangesOfChunk(set[i][j])) : j \in DOMAIN set[i]} : i \in DOMAIN set}
----------------------------------------------------------------------------
(* RangeSetBuilder: a range that the last one overlaps is left for the next   *)
(* layer.                                                                     *)
NewBuilder == [chunks |-> <<>>, start |-> -1, ranges |-> <<>>, last |-> <<>>]
Overlaps(b, r) == b.last # <<>> /\ Order(r.from - b.last[1].to, StartSide(r) - EndSide(b.last[1])) < 0
FinishChunk(b) == [b EXCEPT !.chunks = Append(@, [pos |-> b.start, ranges |-> b.ranges]), !.start = -1, !.ranges = <<>>]
AddAt(b, r, start) == [b EXCEPT !.start = start, !.ranges = Append(@, AtPlace(r, -start)), !.last = <<r>>]
AddOn(b, r) == AddAt(b, r, IF b.start < 0 THEN r.from ELSE b.start)
AddInner(b, r) == AddOn(IF Len(b.ranges) = ChunkSize THEN FinishChunk(b) ELSE b, r)
CanAddChunk(b, chunk) == ~Overlaps(b, RangesOfChunk(chunk)[1])
FinishOpen(b) == IF b.ranges = <<>> THEN b ELSE FinishChunk(b)
AddChunk(b, chunk) == [FinishOpen(b) EXCEPT !.chunks = Append(@, chunk), !.last = <<Last(RangesOfChunk(chunk))>>]
LayerAnd(chunks, next) == IF chunks = <<>> THEN next ELSE <<chunks>> \o next
Finish(b, next) == LayerAnd(FinishOpen(b).chunks, next)
RECURSIVE AddTo(_, _)
AddTo(builders, r) ==
  IF builders = <<>> THEN <<AddInner(NewBuilder, r)>>
  ELSE IF Overlaps(Head(builders), r) THEN <<Head(builders)>> \o AddTo(Tail(builders), r)
  ELSE <<AddInner(Head(builders), r)>> \o Tail(builders)
RECURSIVE AddAll(_, _), FinishAll(_)
AddAll(builders, ranges) == IF ranges = <<>> THEN builders ELSE AddAll(AddTo(builders, Head(ranges)), Tail(ranges))
FinishAll(builders) == IF builders = <<>> THEN <<>> ELSE Finish(Head(builders), FinishAll(Tail(builders)))
BuiltSet(ranges) == FinishAll(AddAll(<<>>, ranges))

(* RangeSet.update: the layer's ranges and the new ones are merged; a chunk   *)
(* that no new range and no filter reaches is taken over whole.               *)
TakenWhole(chunk, k, add, filter) ==
  /\ k = 1 /\ Len(chunk.ranges) > 1
  /\ add = <<>> \/ ChunkEnd(chunk) < Head(add).from
  /\ filter.drops # {} => filter.from > ChunkEnd(chunk) \/ filter.to < chunk.pos
Spared(r, filter) == filter.from > r.to \/ filter.to < r.from \/ r.value \notin filter.drops
AddOrSpill(st, r) ==
  IF Overlaps(st.builder, r) THEN [st EXCEPT !.spill = Append(@, r)] ELSE [st EXCEPT !.builder = AddInner(@, r)]
NextRange(st) ==
  IF st.k < Len(st.chunks[1].ranges) THEN [st EXCEPT !.k = @ + 1]
  ELSE [st EXCEPT !.k = 1, !.chunks = Tail(@)]
MergeChunk(st, chunk, r, filter) ==
  IF TakenWhole(chunk, st.k, st.add, filter) /\ CanAddChunk(st.builder, chunk)
  THEN [st EXCEPT !.builder = AddChunk(@, chunk), !.chunks = Tail(@)]
  ELSE NextRange(IF Spared(r, filter) THEN AddOrSpill(st, r) ELSE st)
NextOf(st) == RangesOfChunk(Head(st.chunks))[st.k]
RECURSIVE MergeInto(_, _)
MergeInto(st, filter) ==
  IF st.chunks = <<>> /\ st.add = <<>> THEN st
  ELSE IF st.chunks = <<>> \/ (st.add # <<>> /\ CmpRange(NextOf(st), Head(st.add)) >= 0)
  THEN MergeInto(AddOrSpill([st EXCEPT !.add = Tail(@)], Head(st.add)), filter)
  ELSE MergeInto(MergeChunk(st, Head(st.chunks), NextOf(st), filter), filter)
RECURSIVE UpdateSet(_, _, _), UpdateRest(_, _, _)
UpdateRest(st, rest, filter) ==
  Finish(st.builder, IF rest = <<>> /\ st.spill = <<>> THEN <<>> ELSE UpdateSet(rest, st.spill, filter))
UpdateSet(set, add, filter) ==
  IF add = <<>> /\ filter.drops = {} THEN set
  ELSE IF set = <<>> THEN BuiltSet(add)
  ELSE UpdateRest(MergeInto([builder |-> NewBuilder, chunks |-> Head(set), k |-> 1, add |-> add, spill |-> <<>>], filter),
                  Tail(set), filter)
----------------------------------------------------------------------------
(* Chunk.map and RangeSet.map: a chunk that no change touches is only moved,  *)
(* one that a change covers is dropped.                                       *)
MapTo(r, from, to, lost) ==
  IF lost \/ Order(to - from, EndSide(r) - StartSide(r)) < 0 THEN <<>> ELSE <<[r EXCEPT !.from = from, !.to = to]>>
MapEmpty(r, from) == MapTo(r, from, from, from = Deleted)
MapWide(r, from, to) == MapTo(r, from, to, from > to \/ (from = to /\ StartSide(r) > 0 /\ EndSide(r) <= 0))
MapRange(r, c) ==
  IF r.from = r.to THEN MapEmpty(r, MapPosBy(c, r.from, StartSide(r), "TrackDel"))
  ELSE MapWide(r, MapPosBy(c, r.from, StartSide(r), "Simple"), MapPos(c, r.to, EndSide(r)))
RECURSIVE MapEach(_, _)
MapEach(ranges, c) == IF ranges = <<>> THEN <<>> ELSE MapRange(Head(ranges), c) \o MapEach(Tail(ranges), c)
ChunkOf(mapped) ==
  IF mapped = <<>> THEN <<>>
  ELSE <<[pos |-> mapped[1].from, ranges |-> [i \in DOMAIN mapped |-> AtPlace(mapped[i], -mapped[1].from)]]>>
MapChunk(chunk, c) == ChunkOf(MapEach(RangesOfChunk(chunk), c))
Touched(chunk, c) == TouchesRange(c, chunk.pos, ChunkEnd(chunk))
MapTouched(chunk, c, touched) ==
  CASE touched = "no" -> <<[chunk EXCEPT !.pos = MapPos(c, @, -1)]>>
    [] touched = "yes" -> MapChunk(chunk, c)
    [] OTHER -> <<>>
RECURSIVE MapLayer(_, _)
MapLayer(layer, c) ==
  IF layer = <<>> THEN <<>>
  ELSE MapTouched(Head(layer), c, Touched(Head(layer), c)) \o MapLayer(Tail(layer), c)
MapRanges(set, c) == SelectSeq([i \in DOMAIN set |-> MapLayer(set[i], c)], LAMBDA layer : layer # <<>>)
----------------------------------------------------------------------------
(* HeapCursor: the ranges of several sets in order, without the chunks two    *)
(* groups of sets share.                                                      *)
RECURSIVE Ordered(_)
Ordered(set) ==
  IF set = {} THEN <<>>
  ELSE LET Comes(r, s) == Order(CmpRange(r, s), CmpEnd(r, s)) <= 0
           first == CHOOSE r \in set : \A s \in set : Comes(r, s)
       IN <<first>> \o Ordered(set \ {first})
Chunks(set) == UNION {Range(set[i]) : i \in DOMAIN set}
Without(set, shared) == [i \in DOMAIN set |-> SelectSeq(set[i], LAMBDA chunk : chunk \notin shared)]
Merged(set, shared, pos) == SelectSeq(Ordered(RangesIn(Without(set, shared))), LAMBDA r : r.to >= pos)
SharedChunks(a, b) == Chunks(a) \cap Chunks(b)

(* SpanCursor: the ranges active up to the next boundary, or a point.         *)
Started(set, shared, pos) ==
  [rest |-> Merged(set, shared, pos), active |-> <<>>, point |-> <<>>, to |-> pos, endSide |-> -Beyond]
Behind(r, to, side) == Order(r.to - to, EndSide(r) - side) < 0
FirstEnding(active) ==
  CHOOSE i \in DOMAIN active : \A k \in DOMAIN active : CmpEnd(active[i], active[k]) < 0
                                                        \/ (CmpEnd(active[i], active[k]) = 0 /\ i <= k)
ComesAt(rest) == IF rest = <<>> THEN <<Beyond, 0>> ELSE <<Head(rest).from, StartSide(Head(rest))>>
EndsFirst(c) ==
  /\ c.active # <<>>
  /\ Behind(c.active[FirstEnding(c.active)], ComesAt(c.rest)[1], ComesAt(c.rest)[2])
TakePoint(c, from) ==
  LET r == Head(c.rest)
      Ahead(list) == IF r.to > from THEN SelectSeq(list, LAMBDA x : ~Behind(x, r.to, EndSide(r))) ELSE list
  IN [c EXCEPT !.point = <<r>>, !.to = r.to, !.endSide = EndSide(r), !.rest = Ahead(Tail(@)), !.active = Ahead(@)]
UpToEnd(c, r) == [c EXCEPT !.to = r.to, !.endSide = EndSide(r)]
RECURSIVE NextFrom(_, _, _)
NextFrom(c, from, wasPoint) ==
  IF EndsFirst(c)
  THEN IF c.active[FirstEnding(c.active)].to > from THEN UpToEnd(c, c.active[FirstEnding(c.active)])
       ELSE NextFrom([c EXCEPT !.active = RemoveAt(@, FirstEnding(@))], from, wasPoint)
  ELSE IF c.rest = <<>> THEN [c EXCEPT !.to = Beyond, !.endSide = Beyond]
  ELSE LET r == Head(c.rest)
       IN IF r.from > from THEN [c EXCEPT !.to = r.from, !.endSide = StartSide(r)]
          ELSE IF ~IsPoint(r) THEN NextFrom([c EXCEPT !.active = Append(@, r), !.rest = Tail(@)], from, wasPoint)
          ELSE IF wasPoint /\ r.to = c.to /\ r.from < r.to /\ EndSide(r) = c.endSide
          THEN NextFrom([c EXCEPT !.rest = Tail(@)], from, wasPoint)
          ELSE TakePoint(c, from)
NextSpan(c) == NextFrom([c EXCEPT !.point = <<>>], c.to, c.point # <<>>)
GoTo(set, shared, pos) == NextSpan(Started(set, shared, pos))

(* RangeSet.spans: the pieces of the text with the ranges that cover each.    *)
RECURSIVE SpansOn(_, _, _)
SpansOn(c, pos, to) ==
  LET end == Least(c.to, to)
      piece == IF c.point # <<>> \/ end > pos THEN <<[from |-> pos, to |-> end, active |-> c.active, point |-> c.point]>> ELSE <<>>
  IN IF c.to > to THEN piece ELSE piece \o SpansOn(NextSpan(c), c.to, to)
Spans(set, from, to) == SpansOn(GoTo(set, {}, from), from, to)

(* RangeSet.compare: where the text did not change, the pieces that are not   *)
(* covered by equal values in both.                                           *)
KindsOf(list) == [i \in DOMAIN list |-> list[i].value.kind]
Differs(a, b) ==
  IF a.point # <<>> \/ b.point # <<>> THEN KindsOf(a.point) # KindsOf(b.point) ELSE KindsOf(a.active) # KindsOf(b.active)
FirstDone(a, b, shift) == Order((a.to + shift) - b.to, a.endSide - b.endSide)
RECURSIVE CompareOn(_, _, _, _, _)
CompareOn(a, b, pos, shift, endB) ==
  LET diff == FirstDone(a, b, shift)
      end == IF diff < 0 THEN a.to + shift ELSE b.to
      piece == IF Differs(a, b) /\ (a.point # <<>> \/ b.point # <<>> \/ Least(end, endB) > pos)
               THEN {[from |-> pos, to |-> Least(end, endB)]} ELSE {}
  IN IF end > endB THEN piece
     ELSE piece \cup CompareOn(IF diff <= 0 THEN NextSpan(a) ELSE a, IF diff >= 0 THEN NextSpan(b) ELSE b, end, shift, endB)
Compared(a, b, c) ==
  LET shared == SharedChunks(a, b)
      gaps == {i \in DOMAIN c : ~c[i].edit}
  IN UNION {CompareOn(GoTo(a, shared, StartA(c, i)), GoTo(b, shared, StartB(c, i)), StartB(c, i),
                      StartB(c, i) - StartA(c, i), StartB(c, i + 1)) : i \in gaps}
----------------------------------------------------------------------------
(* A set of decorations under a text that changes: ranges are built into it,  *)
(* added, dropped and mapped.                                                 *)
CONSTANTS RangesLength, MaxBuilt, MaxWide, MaxSetSteps, MaxAdded   \* bounds
VARIABLES length,          \* of the document
          layers,          \* the set
          expected,        \* the ranges it should hold, each by itself
          before, changes, \* the set before the last step, and what the step did to the text
          added, setSteps
rangeVars == <<length, layers, expected, before, changes, added, setSteps>>

RangesFor(len, ids) ==
  {r \in [from : 0 .. len, to : 0 .. len, value : [kind : DOMAIN Kinds, id : ids]] :
     IF Kinds[r.value.kind].empty THEN r.from = r.to ELSE r.from < r.to}

(* The set is built from its ranges, as the plugins of the view do.           *)
RangeInit ==
  /\ length = RangesLength
  /\ \E n \in 0 .. MaxBuilt : \E ranges \in [1 .. n -> RangesFor(RangesLength, {0})] :
       LET numbered == [i \in 1 .. n |-> [ranges[i] EXCEPT !.value.id = i]]
       IN /\ \A i \in 1 .. n : ranges[i].to <= ranges[i].from + MaxWide
          /\ \A i \in 2 .. n : CmpRange(ranges[i - 1], ranges[i]) <= 0
          /\ layers = BuiltSet(numbered) /\ expected = Range(numbered)
  /\ before = layers /\ changes = EmptySet(RangesLength)
  /\ added = 0 /\ setSteps = 0
SetStep(set, ranges, c) ==
  /\ setSteps < MaxSetSteps /\ setSteps' = setSteps + 1
  /\ layers' = set /\ expected' = ranges /\ before' = layers /\ changes' = c /\ length' = NewLength(c)

(* Ranges are added; those of the same kind may go where they are.            *)
NoFilter == [from |-> 0, to |-> 0, drops |-> {}]
OfKind(set, kind) == {r.value : r \in {x \in set : x.value.kind = kind}}
AddRanges ==
  /\ added < MaxAdded /\ added' = added + 1
  /\ \E r \in RangesFor(length, {MaxBuilt + 1 + added}) :
       \E filter \in {NoFilter, [from |-> r.from, to |-> r.to, drops |-> OfKind(expected, r.value.kind)]} :
         SetStep(UpdateSet(layers, <<r>>, filter), {x \in expected : Spared(x, filter)} \cup {r}, EmptySet(length))

(* The text changes, and the set is mapped; the ranges of a kind may go.      *)
ChangeUnder ==
  /\ expected # {}
  /\ \E from, to \in 0 .. length, n \in 0 .. 1, kind \in {"none"} \cup DOMAIN Kinds :
       /\ (from < to /\ to <= from + 2) \/ (from = to /\ n > 0)
       /\ \E c \in {Of(<<[from |-> from, to |-> to, insert |-> [i \in 1 .. n |-> 99]]>>, length)} :
          \E mapped \in {UNION {Range(MapRange(r, c)) : r \in expected}} :
          \E filter \in {[from |-> 0, to |-> NewLength(c), drops |-> OfKind(mapped, kind)]} :
            SetStep(UpdateSet(MapRanges(layers, c), <<>>, filter), {r \in mapped : Spared(r, filter)}, c)
  /\ UNCHANGED added
RangeNext == AddRanges \/ ChangeUnder
----------------------------------------------------------------------------
(* Whatever was added, filtered and mapped in whatever chunks, the set holds  *)
(* the ranges that each by itself would have become.                          *)
HoldsRanges == RangesIn(layers) = expected

(* The ranges of a layer are in order and do not overlap, which the binary    *)
(* searches and the builder rely on (it throws on a range out of order).      *)
LayersOrdered ==
  \A i \in DOMAIN layers :
    LET all == FlattenSeq([j \in DOMAIN layers[i] |-> RangesOfChunk(layers[i][j])])
    IN \A k \in 2 .. Len(all) : Order(all[k].from - all[k - 1].to, StartSide(all[k]) - EndSide(all[k - 1])) >= 0

(* The pieces drawn cover the text without gaps, and every piece that no      *)
(* point replaces has the marks that reach into it.                           *)
MarksOver(pos) == {r \in expected : ~IsPoint(r) /\ r.from <= pos /\ pos < r.to}
CoveredBy(pieces) ==
  \A pos \in 0 .. length - 1 :
    \E i \in DOMAIN pieces :
      /\ pieces[i].from <= pos /\ pos < pieces[i].to
      /\ IF pieces[i].point = <<>> THEN Range(pieces[i].active) = MarksOver(pos)
         ELSE pieces[i].point[1].from <= pos /\ pos < pieces[i].point[1].to
      /\ \A k \in DOMAIN pieces : k # i => pieces[k].to <= pos \/ pieces[k].from > pos \/ pieces[k].from = pieces[k].to
SpansCover == CoveredBy(Spans(layers, 0, length))

(* Text whose marks changed is reported for drawing, wherever the change of   *)
(* the text moved it and whatever the two sets share.                         *)
Seen(set, pos) ==
  LET over == {r \in RangesIn(set) : r.from <= pos /\ pos < r.to}
      hides == {r \in over : IsPoint(r)}
  IN {r.value.kind : r \in IF hides # {} THEN hides ELSE over}
ChangesSeen ==
  \A pos \in 0 .. length - 1 :
    LET i == CHOOSE k \in DOMAIN changes : StartB(changes, k) <= pos /\ pos < StartB(changes, k + 1)
    IN ~changes[i].edit /\ Seen(before, StartA(changes, i) + pos - StartB(changes, i)) # Seen(layers, pos) =>
         \E r \in Compared(before, layers, changes) : r.from <= pos /\ pos < r.to
=============================================================================
