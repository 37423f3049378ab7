---------------------------- MODULE EditorHeights ---------------------------
(* The heights of the editor's lines and the part of the text it draws        *)
(* (HeightMap, NodeBuilder, ViewState).  Lines that were drawn have a         *)
(* measured height, the others are gaps of estimated height; the tree of both *)
(* is changed with the text, and the viewport follows from it.                *)
EXTENDS ChangeSets

CONSTANTS TextChanges,     \* of each first text, how often it may change (a bound): 0 is a
                           \* line break, Tall a high character, Special a replaced one
          Tall, Special, TypedTexts,
          FirstLineHeight, TextHeight, TallHeight,   \* as guessed at first, and as drawn
          Margin, MinCoverMargin, MaxCoverMargin,    \* (1000, 10 and 250 pixels)
          NearRange,       \* ranges closer than this are joined (5)
          NearLength,      \* a line of a length closer than this keeps its height (10)
          Screen, Tops,    \* height of the screen, and where it may be scrolled to
          MaxMeasures      \* a bound
VARIABLES heightText, replaced,  \* the document, and where a widget stands for a character
          heights, lineHeight, samples,              \* heightMap and heightOracle
          viewport, screen, scrollTo,
          drawn,           \* the lines drawn since anything of them changed
          changesLeft, measures
heightVars == <<heightText, replaced, heights, lineHeight, samples, viewport, screen, scrollTo, drawn, changesLeft, measures>>

Most(m, n) == IF m >= n THEN m ELSE n
StartOfLine(d, pos) == CHOOSE p \in 0 .. pos : (p = 0 \/ d[p] = 0) /\ \A q \in p + 1 .. pos : d[q] # 0
EndOfLine(d, pos) == CHOOSE p \in pos .. Len(d) : (p = Len(d) \/ d[p + 1] = 0) /\ \A q \in pos + 1 .. p : d[q] # 0
NumberOfLine(d, pos) == 1 + Len(SelectSeq(SubSeq(d, 1, pos), LAMBDA x : x = 0))
TextLines(d) == {[from |-> StartOfLine(d, p), to |-> EndOfLine(d, p)] : p \in 0 .. Len(d)}
DrawnHeight(d, line) == IF Tall \in Range(SubSeq(d, line.from + 1, line.to)) THEN TallHeight ELSE TextHeight
----------------------------------------------------------------------------
(* HeightMap: lines, gaps of lines not drawn yet, and branches.               *)
HeightNode(type, len, height) ==
  [type |-> type, len |-> len, height |-> height, outdated |-> TRUE, single |-> FALSE,
   size |-> IF type = "break" THEN 0 ELSE 1, brk |-> 0, kids |-> <<>>]
LineNode(len) == HeightNode("line", len, -1)
Gap(len) == HeightNode("gap", len, 0)
BreakNode == HeightNode("break", 1, 0)
Fork(left, brk, right) ==
  [type |-> "branch", len |-> left.len + brk + right.len, height |-> left.height + right.height,
   outdated |-> left.outdated \/ right.outdated, single |-> FALSE,
   size |-> left.size + right.size, brk |-> brk, kids |-> <<left, right>>]
AsNodes(fork) == IF fork.brk = 1 THEN <<fork.kids[1], BreakNode, fork.kids[2]>> ELSE fork.kids
SpliceOne(nodes, i, new) == SubSeq(nodes, 1, i - 1) \o new \o SubSeq(nodes, i + 1, Len(nodes))

(* HeightMap.of: i nodes go to the left and those after j to the right, with  *)
(* the branches where they meet split until the sides balance.                *)
RECURSIVE Balance(_, _, _, _, _)
Balance(nodes, i, j, before, after) ==
  IF i < j
  THEN IF before < after THEN Balance(nodes, i + 1, j, before + nodes[i + 1].size, after)
       ELSE Balance(nodes, i, j - 1, before, after + nodes[j].size)
  ELSE IF before > 2 * after
  THEN Balance(SpliceOne(nodes, i, AsNodes(nodes[i])), i - 1, j + 1 + nodes[i].brk, before - nodes[i].size, after)
  ELSE IF after > 2 * before
  THEN Balance(SpliceOne(nodes, j + 1, AsNodes(nodes[j + 1])), i, j + 2 + nodes[j + 1].brk, before,
               after - nodes[j + 1].size)
  ELSE [nodes |-> nodes, at |-> i]
RECURSIVE MapOf(_), ForkAt(_)
ForkAt(b) ==
  LET breakLeft == b.nodes[b.at].type = "break"
      breakRight == ~breakLeft /\ b.nodes[b.at + 1].type = "break"
  IN Fork(MapOf(SubSeq(b.nodes, 1, IF breakLeft THEN b.at - 1 ELSE b.at)),
          IF breakLeft \/ breakRight THEN 1 ELSE 0,
          MapOf(SubSeq(b.nodes, IF breakRight THEN b.at + 2 ELSE b.at + 1, Len(b.nodes))))
MapOf(nodes) == IF Len(nodes) = 1 THEN nodes[1] ELSE ForkAt(Balance(nodes, 0, Len(nodes), 0, 0))
Balanced(fork, left, right) ==
  IF left.size > 2 * right.size \/ right.size > 2 * left.size
  THEN MapOf(IF fork.brk = 1 THEN <<left, BreakNode, right>> ELSE <<left, right>>)
  ELSE Fork(left, fork.brk, right)

(* lineAt, by position or by height: the line with its top and its height.    *)
Block(from, to, top, height) == [from |-> from, to |-> to, top |-> top, height |-> height]
GapLine(gap, d, offset) == gap.height \div (NumberOfLine(d, offset + gap.len) - NumberOfLine(d, offset) + 1)
GapBlock(gap, d, top, offset, pos) ==
  LET height == GapLine(gap, d, offset)
  IN Block(StartOfLine(d, pos), EndOfLine(d, pos), top + height * (NumberOfLine(d, pos) - NumberOfLine(d, offset)), height)
NthLine(d, n) == CHOOSE p \in 0 .. Len(d) : StartOfLine(d, p) = p /\ NumberOfLine(d, p) = n
GapAtHeight(gap, d, top, offset, value) ==
  LET first == NumberOfLine(d, offset)   last == NumberOfLine(d, offset + gap.len)
      line == Most(0, Least(last - first, (value - top) \div GapLine(gap, d, offset)))
  IN GapBlock(gap, d, top, offset, NthLine(d, first + line))
RightOf(map, offset) == offset + map.kids[1].len + map.brk
RECURSIVE BlockAt(_, _, _, _, _)
BlockAt(map, pos, d, top, offset) ==
  CASE map.type = "line" -> Block(offset, offset + map.len, top, map.height)
    [] map.type = "gap" -> GapBlock(map, d, top, offset, pos)
    [] OTHER -> IF pos < RightOf(map, offset) THEN BlockAt(map.kids[1], pos, d, top, offset)
                ELSE BlockAt(map.kids[2], pos, d, top + map.kids[1].height, RightOf(map, offset))
RECURSIVE BlockAtHeight(_, _, _, _, _)
BlockAtHeight(map, value, d, top, offset) ==
  CASE map.type = "line" -> Block(offset, offset + map.len, top, map.height)
    [] map.type = "gap" -> GapAtHeight(map, d, top, offset, value)
    [] OTHER -> IF value < top + map.kids[1].height \/ map.kids[2].height = 0
                THEN BlockAtHeight(map.kids[1], value, d, top, offset)
                ELSE BlockAtHeight(map.kids[2], value, d, top + map.kids[1].height, RightOf(map, offset))
RECURSIVE OldLine(_, _, _, _)   \* lineAt without heights
OldLine(map, pos, d, offset) ==
  CASE map.type = "line" -> [from |-> offset, to |-> offset + map.len]
    [] map.type = "gap" -> [from |-> StartOfLine(d, pos), to |-> EndOfLine(d, pos)]
    [] OTHER -> IF pos < RightOf(map, offset) THEN OldLine(map.kids[1], pos, d, offset)
                ELSE OldLine(map.kids[2], pos, d, RightOf(map, offset))
----------------------------------------------------------------------------
(* replace: the nodes built for whole lines take the place of the old ones.   *)
KeepsHeight(old, node) ==
  (node.type = "line" \/ node.single) /\ old.len - node.len < NearLength /\ node.len - old.len < NearLength
ReplaceLine(old, nodes) ==
  IF Len(nodes) = 1 /\ KeepsHeight(old, nodes[1])
  THEN [LineNode(nodes[1].len) EXCEPT !.height = old.height,
                                  !.outdated = old.outdated /\ (nodes[1].type = "gap" \/ nodes[1].outdated)]
  ELSE MapOf(nodes)
GapBefore(nodes, from) ==
  IF from = 0 THEN nodes
  ELSE IF Head(nodes).type = "gap" THEN <<Gap(from + Head(nodes).len)>> \o Tail(nodes)
  ELSE <<Gap(from - 1), BreakNode>> \o nodes
GapAfter(nodes, after) ==
  IF after = 0 THEN nodes
  ELSE IF Last(nodes).type = "gap" THEN Front(nodes) \o <<Gap(Last(nodes).len + after)>>
  ELSE nodes \o <<BreakNode, Gap(after - 1)>>
ReplaceInGap(gap, from, to, nodes) == MapOf(GapAfter(GapBefore(nodes, from), gap.len - to))
MergeGaps(nodes, at) ==
  IF /\ at > 1 /\ at < Len(nodes) /\ nodes[at].type = "break"
     /\ nodes[at - 1].type = "gap" /\ nodes[at + 1].type = "gap"
  THEN SubSeq(nodes, 1, at - 2) \o <<Gap(nodes[at - 1].len + 1 + nodes[at + 1].len)>> \o SubSeq(nodes, at + 2, Len(nodes))
  ELSE nodes
RECURSIVE DecomposeLeft(_, _)
DecomposeLeft(map, to) ==
  CASE map.type = "line" -> <<map>>
    [] map.type = "gap" -> <<Gap(to - 1), BreakNode>>
    [] to <= map.kids[1].len -> DecomposeLeft(map.kids[1], to)
    [] OTHER -> LET right == RightOf(map, 0)
                IN <<map.kids[1]>> \o (IF map.brk = 1 /\ to >= right THEN <<BreakNode>> ELSE <<>>)
                   \o (IF to > right THEN DecomposeLeft(map.kids[2], to - right) ELSE <<>>)
RECURSIVE DecomposeRight(_, _)
DecomposeRight(map, from) ==
  CASE map.type = "line" -> <<map>>
    [] map.type = "gap" -> <<BreakNode, Gap(map.len - from - 1)>>
    [] from >= RightOf(map, 0) -> DecomposeRight(map.kids[2], from - RightOf(map, 0))
    [] OTHER -> (IF from < map.kids[1].len THEN DecomposeRight(map.kids[1], from) ELSE <<>>)
                \o (IF map.brk = 1 /\ from < RightOf(map, 0) THEN <<BreakNode>> ELSE <<>>) \o <<map.kids[2]>>
JoinLeft(left, nodes) == IF left = <<>> THEN nodes ELSE MergeGaps(left \o nodes, Len(left))
JoinRight(nodes, right) == IF right = <<>> THEN nodes ELSE MergeGaps(nodes \o right, Len(nodes) + 1)
RECURSIVE ReplaceNodes(_, _, _, _)
ReplaceNodes(map, from, to, nodes) ==
  CASE map.type = "line" -> ReplaceLine(map, nodes)
    [] map.type = "gap" -> ReplaceInGap(map, from, to, nodes)
    [] to < RightOf(map, 0) -> Balanced(map, ReplaceNodes(map.kids[1], from, to, nodes), map.kids[2])
    [] from > map.kids[1].len ->
         Balanced(map, map.kids[1], ReplaceNodes(map.kids[2], from - RightOf(map, 0), to - RightOf(map, 0), nodes))
    [] OTHER ->
         MapOf(JoinRight(JoinLeft(IF from > 0 THEN DecomposeLeft(map, from) ELSE <<>>, nodes),
                         IF to < map.len THEN DecomposeRight(map, to) ELSE <<>>))
----------------------------------------------------------------------------
(* NodeBuilder: lines with a replaced character become lines, the others one  *)
(* gap.                                                                       *)
BlankContent(d, from, to) == [Gap(to - from) EXCEPT !.single = EndOfLine(d, from) = to]
EndsInBreak(nodes) == nodes = <<>> \/ Last(nodes).type = "break"
BeforeLine(b, d, from) ==
  IF b.writtenTo >= from THEN <<>>
  ELSE (IF b.writtenTo < from - 1 \/ EndsInBreak(b.nodes) THEN <<BlankContent(d, b.writtenTo, from - 1)>> ELSE <<>>)
       \o <<BreakNode>>
EnterAt(b, d, from) ==
  [b EXCEPT !.inLine = TRUE, !.lineEnd = EndOfLine(d, b.pos), !.writtenTo = b.pos,
            !.nodes = @ \o BeforeLine(b, d, from) \o (IF b.pos > from THEN <<LineNode(b.pos - from)>> ELSE <<>>)]
EnterLine(b, d) == IF b.inLine THEN b ELSE EnterAt(b, d, StartOfLine(d, b.pos))
Lengthened(nodes, n) == [nodes EXCEPT ![Len(nodes)].len = @ + n]
OnLine(nodes) == nodes # <<>> /\ Last(nodes).type = "line"
Grown(nodes, n) == Lengthened(IF OnLine(nodes) THEN nodes ELSE Append(nodes, LineNode(0)), n)
SpanTo(b, to, end) ==
  IF ~b.inLine THEN [b EXCEPT !.pos = to]
  ELSE [b EXCEPT !.pos = to, !.inLine = to <= end, !.writtenTo = IF to > end THEN end + 1 ELSE end,
                 !.nodes = Grown(@, end - b.pos) \o (IF to > end THEN <<BreakNode>> ELSE <<>>)]
AddSpan(b, to) == IF to > b.pos THEN SpanTo(b, to, Least(to, b.lineEnd)) ELSE b
AddPoint(b, to, d) == [EnterLine(b, d) EXCEPT !.nodes = Grown(@, to - b.pos), !.pos = to, !.writtenTo = to]
RECURSIVE BuildTo(_, _, _, _)
BuildTo(b, points, to, d) ==
  IF points = {} THEN AddSpan(b, to)
  ELSE LET p == CHOOSE x \in points : \A y \in points : x <= y
       IN BuildTo(AddPoint(AddSpan(b, p), p + 1, d), points \ {p}, to, d)
LastNode(b, d) ==
  IF b.inLine /\ ~OnLine(b.nodes) THEN <<LineNode(0)>>
  ELSE IF b.writtenTo < b.pos \/ EndsInBreak(b.nodes) THEN <<BlankContent(d, b.writtenTo, b.pos)>>
  ELSE <<>>
AsDrawn(nodes, high) ==
  [i \in DOMAIN nodes |->
     IF nodes[i].type = "line" THEN [nodes[i] EXCEPT !.height = high, !.outdated = FALSE] ELSE nodes[i]]
FinishNodes(b, d, high) == AsDrawn(b.nodes \o LastNode(b, d), high)
Build(from, to, d, points, high) ==
  FinishNodes(BuildTo([nodes |-> <<>>, pos |-> from, inLine |-> FALSE, lineEnd |-> -1, writtenTo |-> from],
                      {p \in points : from <= p /\ p < to}, to, d), d, high)

(* updateHeight: e has the text, the line height, whether to estimate again,  *)
(* and from where the measured heights are; the result has those left.        *)
Estimated(node, offset, e) ==
  IF ~e.force /\ ~node.outdated THEN node
  ELSE [node EXCEPT !.outdated = FALSE,
          !.height = e.high * (IF node.type = "line" THEN 1
                               ELSE NumberOfLine(e.doc, offset + node.len) - NumberOfLine(e.doc, offset) + 1)]
Remeasured(node, left) == [node |-> node, left |-> left]
RECURSIVE FillGap(_, _, _, _, _)
FillGap(nodes, pos, end, e, measured) ==
  LET sep == IF nodes = <<>> THEN <<>> ELSE <<BreakNode>>
      len == EndOfLine(e.doc, pos) - StartOfLine(e.doc, pos)
  IN IF pos > end THEN Remeasured(MapOf(nodes), measured)
     ELSE IF measured = <<>>
     THEN Remeasured(MapOf(nodes \o <<BreakNode, Estimated(Gap(end - pos), pos, [e EXCEPT !.force = FALSE])>>), measured)
     ELSE FillGap(nodes \o sep \o <<[LineNode(len) EXCEPT !.height = Head(measured), !.outdated = FALSE]>>,
                  pos + len + 1, end, e, Tail(measured))
Reaches(e, node, at, rest) == rest # <<>> /\ e.from <= at + node.len
JoinKids(map, l, r, reached) ==
  Remeasured(IF reached THEN Balanced(map, l.node, r.node) ELSE Fork(l.node, map.brk, r.node), r.left)
RECURSIVE UpdateHeight(_, _, _, _), UpdateKid(_, _, _, _), UpdateRight(_, _, _, _, _)
UpdateKid(node, at, e, rest) ==
  [UpdateHeight(node, at, e, IF Reaches(e, node, at, rest) THEN rest ELSE <<>>)
     EXCEPT !.left = IF Reaches(e, node, at, rest) THEN @ ELSE rest]
UpdateRight(map, at, e, l, reached) ==
  JoinKids(map, l, UpdateKid(map.kids[2], at, e, l.left), reached \/ Reaches(e, map.kids[2], at, l.left))
UpdateHeight(map, offset, e, measured) ==
  CASE map.type = "line" ->
         IF measured # <<>> /\ e.from <= offset
         THEN Remeasured([map EXCEPT !.height = Head(measured), !.outdated = FALSE], Tail(measured))
         ELSE Remeasured(Estimated(map, offset, e), measured)
    [] map.type = "gap" ->
         IF measured # <<>> /\ e.from <= offset + map.len
         THEN FillGap(IF e.from > offset THEN <<Estimated(Gap(e.from - offset - 1), offset, e)>> ELSE <<>>,
                      Most(offset, e.from), offset + map.len, e, measured)
         ELSE Remeasured(Estimated(map, offset, e), measured)
    [] OTHER ->
         UpdateRight(map, RightOf(map, offset), e, UpdateKid(map.kids[1], offset, e, measured),
                     Reaches(e, map.kids[1], offset, measured))
Refreshed(map, d, high) == UpdateHeight(map, 0, [doc |-> d, high |-> high, force |-> FALSE, from |-> 0], <<>>).node

(* applyChanges: from the last change to the first, the lines a change        *)
(* touches are built anew; changes of one line are taken together.            *)
RECURSIVE JoinChanges(_, _, _, _)
JoinChanges(map, changes, at, d) ==
  LET before == changes[at.i - 1]
  IN IF at.i = 1 \/ at.start > before.toA THEN at
     ELSE JoinChanges(map, changes, [i |-> at.i - 1, fromA |-> before.fromA, fromB |-> before.fromB,
             start |-> IF before.fromA < at.start THEN OldLine(map, before.fromA, d, 0).from ELSE at.start], d)
RECURSIVE ChangeLines(_, _, _, _, _, _, _), LinesFrom(_, _, _, _, _, _, _, _, _), LinesAround(_, _, _, _, _, _, _, _)
EndOfChange(map, c, start, old) == IF start.to >= c.toA THEN start.to ELSE OldLine(map, c.toA, old, 0).to
JoinedChange(map, changes, i, start, old) ==
  JoinChanges(map, changes, [i |-> i, fromA |-> changes[i].fromA, fromB |-> changes[i].fromB, start |-> start.from], old)
BuiltAnew(map, c, at, end, d, points, high) ==
  ReplaceNodes(map, at.start, end, Build(at.fromB + at.start - at.fromA, c.toB + end - c.toA, d, points, high))
LinesFrom(map, changes, c, at, end, old, d, points, high) ==
  ChangeLines(BuiltAnew(map, c, at, end, d, points, high), changes, at.i - 1, old, d, points, high)
LinesAround(map, changes, i, start, old, d, points, high) ==
  LinesFrom(map, changes, changes[i], JoinedChange(map, changes, i, start, old), EndOfChange(map, changes[i], start, old),
            old, d, points, high)
ChangeLines(map, changes, i, old, d, points, high) ==
  IF i = 0 THEN map
  ELSE LinesAround(map, changes, i, OldLine(map, changes[i].fromA, old, 0), old, d, points, high)
ApplyChanges(map, changes, old, d, points, high) ==
  Refreshed(ChangeLines(map, changes, Len(changes), old, d, points, high), d, high)

(* ChangedRange: the changes of the text with the ranges whose replaced       *)
(* characters differ, in order and joined.                                    *)
JoinRange(a, b) == [fromA |-> Least(a.fromA, b.fromA), toA |-> Most(a.toA, b.toA),
                    fromB |-> Least(a.fromB, b.fromB), toB |-> Most(a.toB, b.toB)]
RECURSIVE AddToSet(_, _, _)
AddToSet(set, i, me) ==
  IF i = 0 \/ set[i].toA < me.fromA THEN SubSeq(set, 1, i) \o <<me>> \o SubSeq(set, i + 1, Len(set))
  ELSE IF set[i].fromA > me.toA THEN AddToSet(set, i - 1, me)
  ELSE AddToSet(RemoveAt(set, i), i - 1, JoinRange(set[i], me))
AddNear(ranges, pos) ==
  IF ranges # <<>> /\ Last(ranges).to + NearRange > pos
  THEN [ranges EXCEPT ![Len(ranges)].to = Most(@, pos + 1)] ELSE Append(ranges, [from |-> pos, to |-> pos + 1])
RECURSIVE JoinNear(_, _)
JoinNear(ranges, points) ==
  IF points = {} THEN ranges
  ELSE LET p == CHOOSE x \in points : \A y \in points : x <= y IN JoinNear(AddNear(ranges, p), points \ {p})
ChangedPart(fromA, toA, fromB, toB) == [fromA |-> fromA, toA |-> toA, fromB |-> fromB, toB |-> toB]
RECURSIVE ExtendOn(_, _, _, _, _)
ExtendOn(diff, ranges, posA, posB, out) ==
  LET end == IF diff = <<>> THEN 1000 ELSE Head(diff).fromB
      from == Most(posB, Head(ranges).from)   to == Least(end, Head(ranges).to)
      next == IF from <= to THEN AddToSet(out, Len(out), ChangedPart(from + posA - posB, to + posA - posB, from, to)) ELSE out
  IN IF ranges # <<>> /\ Head(ranges).from < end
     THEN IF Head(ranges).to > end
          THEN ExtendOn(Tail(diff), ranges, Head(diff).toA, Head(diff).toB, AddToSet(next, Len(next), Head(diff)))
          ELSE ExtendOn(diff, Tail(ranges), posA, posB, next)
     ELSE IF diff = <<>> THEN out
     ELSE ExtendOn(Tail(diff), ranges, Head(diff).toA, Head(diff).toB, AddToSet(out, Len(out), Head(diff)))
ExtendedWith(diff, ranges) == IF ranges = <<>> THEN diff ELSE ExtendOn(diff, ranges, 0, 0, <<>>)
----------------------------------------------------------------------------
(* ViewState: the viewport has whole lines around what is on the screen.      *)
Viewport(from, to) == [from |-> from, to |-> to]
Lookup(map, d, pos) == BlockAt(map, pos, d, 0, 0)
AtHeight(map, d, value) == BlockAtHeight(map, value, d, 0, 0)
BetweenHeights(map, d, top, bottom) == Viewport(AtHeight(map, d, top).from, AtHeight(map, d, bottom).to)
Bottom(block) == block.top + block.height
Above(bias) == Margin \div 2 - Most(-(Margin \div 2), Least(Margin \div 2, bias \div 2))
TopFor(line, target, seen, size) == IF target < seen.from THEN line.top ELSE Bottom(line) - size
Around(map, d, newTop, size) == BetweenHeights(map, d, newTop - Margin \div 2, newTop + size + Margin \div 2)
ViewportFor(map, d, seen, size, target) ==
  IF target < 0 \/ (seen.from <= target /\ target <= seen.to) THEN seen
  ELSE Around(map, d, TopFor(Lookup(map, d, target), target, seen, size), size)
GetViewport(map, d, seenNow, bias, target) ==
  ViewportFor(map, d, BetweenHeights(map, d, seenNow.top - Above(bias), seenNow.bottom + Margin - Above(bias)),
              seenNow.bottom - seenNow.top, target)
MapViewport(map, d, view, c) ==
  Viewport(Lookup(map, d, MapPos(c, view.from, -1)).from, Lookup(map, d, MapPos(c, view.to, 1)).to)
BugAppropriate(map, d, view, seenNow, bias) == TRUE
Appropriate(map, d, view, seenNow, bias) ==
  LET first == Lookup(map, d, view.from).top   last == Bottom(Lookup(map, d, view.to))
  IN /\ view.from = 0 \/ first <= seenNow.top - Most(MinCoverMargin, Least(-bias, MaxCoverMargin))
     /\ view.to = Len(d) \/ last >= seenNow.bottom + Most(MinCoverMargin, Least(bias, MaxCoverMargin))
     /\ first > seenNow.top - 2 * Margin /\ last < seenNow.bottom + 2 * Margin
BeyondView(view, target) == target >= 0 /\ (target < view.from \/ target > view.to)

HeightInit ==
  /\ heightText \in DOMAIN TextChanges /\ changesLeft = TextChanges[heightText] /\ replaced = {}
  /\ lineHeight = FirstLineHeight /\ samples = {}
  /\ heights = ApplyChanges(HeightNode("line", 0, 0), <<ChangedPart(0, 0, 0, Len(heightText))>>, <<>>, heightText, {}, FirstLineHeight)
  /\ screen = [top |-> 0, bottom |-> Screen] /\ viewport = GetViewport(heights, heightText, screen, 0, -1)
  /\ scrollTo = -1 /\ drawn = {} /\ measures = 0

(* ViewState.update: the text changes, or other characters are replaced; a    *)
(* transaction may ask that a position be scrolled to.                        *)
Specials(d) == {p \in 0 .. Len(d) - 1 : d[p + 1] = Special}
KeptPart(c, p) == \E i \in DOMAIN c : ~c[i].edit /\ StartB(c, i) <= p /\ p < StartB(c, i + 1)
Differing(c, d, points) ==
  {p \in 0 .. Len(d) - 1 : KeptPart(c, p) /\ (p \in points) # (p \in {MapPos(c, q, 1) : q \in replaced})}
StillDrawn(c, changes) ==
  {MapPos(c, p, 1) : p \in {q \in drawn : \A i \in DOMAIN changes :
                              changes[i].toA < q \/ changes[i].fromA > EndOfLine(heightText, q)}}
UpdateHeights(c, points, target) ==
  \E d \in {Apply(c, heightText)} :
  \E changes \in {ExtendedWith(Changed(c, FALSE), JoinNear(<<>>, Differing(c, d, points)))} :
  \E map \in {ApplyChanges(heights, changes, heightText, d, points, lineHeight)} :
  \E view \in {IF changes = <<>> THEN viewport ELSE MapViewport(map, d, viewport, c)} :
     /\ heightText' = d /\ replaced' = points /\ heights' = map
     /\ viewport' = IF BeyondView(view, target) \/ ~Appropriate(map, d, view, screen, 0)
                    THEN GetViewport(map, d, screen, 0, target) ELSE view
     /\ scrollTo' = IF target >= 0 THEN target ELSE scrollTo
     /\ drawn' = StillDrawn(c, changes)
ChangeText ==
  /\ changesLeft > 0 /\ changesLeft' = changesLeft - 1
  /\ \E from, to \in 0 .. Len(heightText), typed \in TypedTexts :
       /\ from <= to /\ to <= from + 2 /\ (from < to \/ typed # <<>>)
       /\ \E c \in {Of(<<[from |-> from, to |-> to, insert |-> typed]>>, Len(heightText))} :
          \E target \in {-1} \cup {from + n : n \in {Len(typed)} \ {0}} : UpdateHeights(c, Specials(Apply(c, heightText)) \cap replaced, target)
  /\ UNCHANGED <<lineHeight, samples, screen, measures>>
Redecorate ==
  /\ changesLeft > 0 /\ changesLeft' = changesLeft - 1
  /\ \E points \in SUBSET Specials(heightText), target \in {-1, Len(heightText)} :
       UpdateHeights(EmptySet(Len(heightText)), points, target)
  /\ UNCHANGED <<lineHeight, samples, screen, measures>>

(* ViewState.measure: the drawn lines are measured, in the order of the DOM.  *)
InView(view, d) == {line \in TextLines(d) : view.from <= line.from /\ line.to <= view.to}
RECURSIVE DrawnHeights(_)
DrawnHeights(lines) ==
  IF lines = {} THEN <<>>
  ELSE LET first == CHOOSE l \in lines : \A k \in lines : l.from <= k.from
       IN <<DrawnHeight(heightText, first)>> \o DrawnHeights(lines \ {first})
RECURSIVE LastLeaf(_)
LastLeaf(map) == IF map.type = "branch" THEN LastLeaf(map.kids[2]) ELSE map
Throws(map) == scrollTo > Len(heightText) /\ LastLeaf(map).type = "gap"
Moves(was, now) == [top |-> now.top - was.top, bottom |-> now.bottom - was.bottom]
Bias(move, repeated) ==
  CASE ~repeated /\ move.top > 0 /\ move.bottom > 0 -> Most(move.top, move.bottom)
    [] ~repeated /\ move.top < 0 /\ move.bottom < 0 -> Least(move.top, move.bottom)
    [] OTHER -> 0
Measured(measured, high, force) ==
  UpdateHeight(heights, 0, [doc |-> heightText, high |-> high, force |-> force, from |-> viewport.from], measured).node
MeasureView(map, now, bias) ==
  LET moves == ~Appropriate(map, heightText, viewport, now, bias) \/ BeyondView(viewport, scrollTo)
  IN /\ viewport' = IF moves /\ ~Throws(map) THEN GetViewport(map, heightText, now, bias, scrollTo) ELSE viewport
     /\ scrollTo' = IF moves /\ Throws(map) THEN scrollTo ELSE -1
Measure ==
  /\ measures < MaxMeasures /\ measures' = measures + 1
  /\ \E measured \in {DrawnHeights(InView(viewport, heightText))}, top \in Tops, repeated \in BOOLEAN :
       /\ repeated => measures > 0
       /\ \E force \in {~repeated /\ ~(Range(measured) \subseteq samples) /\ lineHeight # TextHeight} :
          \E map \in {Measured(measured, IF force THEN TextHeight ELSE lineHeight, force)} :
          \E now \in {[top |-> top, bottom |-> Least(top + Screen, map.height)]} :
            /\ now.bottom > now.top
            /\ heights' = map /\ screen' = now /\ lineHeight' = IF force THEN TextHeight ELSE lineHeight
            /\ samples' = CASE repeated -> samples [] force -> Range(measured) [] OTHER -> samples \cup Range(measured)
            /\ drawn' = {l.from : l \in InView(viewport, heightText)} \cup (IF force THEN {} ELSE drawn)
            /\ MeasureView(map, now, Bias(Moves(screen, now), repeated))
  /\ UNCHANGED <<heightText, replaced, changesLeft>>
HeightNext == ChangeText \/ Redecorate \/ Measure
----------------------------------------------------------------------------
(* Whatever was changed and measured, the map has the lines of the text, one  *)
(* below the other, and a place on the screen finds the line that is there.   *)
MapFitsText ==
  LET at == [line \in TextLines(heightText) |-> Lookup(heights, heightText, line.from)]
  IN \A line \in TextLines(heightText) :
       /\ [from |-> at[line].from, to |-> at[line].to] = line
       /\ Lookup(heights, heightText, line.to) = at[line]
       /\ at[line].height > 0 /\ AtHeight(heights, heightText, at[line].top) = at[line]
       /\ IF line.to < Len(heightText) THEN Lookup(heights, heightText, line.to + 1).top = Bottom(at[line])
          ELSE Bottom(at[line]) = heights.height

(* A line that was drawn has the height it was drawn with, however the lines  *)
(* around it changed since: heights do not move to other lines.               *)
HeightsAsDrawn ==
  \A p \in drawn : Lookup(heights, heightText, p).height = DrawnHeight(heightText, [from |-> p, to |-> EndOfLine(heightText, p)])

(* The part drawn is made of whole lines, which measuring relies on.          *)
ViewportWhole == viewport.from = StartOfLine(heightText, viewport.from) /\ viewport.to = EndOfLine(heightText, viewport.to)

(* After every step the lines on the screen are in the viewport, or the       *)
(* position that was asked for is ("make sure the viewport includes that      *)
(* position").                                                                *)
ScreenCovered ==
  /\ AtHeight(heights, heightText, screen.top).from >= viewport.from
  /\ AtHeight(heights, heightText, screen.bottom - 1).to <= viewport.to
Shows ==
  [][changesLeft' # changesLeft \/ measures' # measures =>
     LET asked == IF measures' # measures THEN scrollTo ELSE scrollTo'
     IN /\ asked < 0 => ScreenCovered'
        /\ asked \in 0 .. Len(heightText') => ScreenCovered' \/ ~BeyondView(viewport', asked)]_heightVars
=============================================================================
