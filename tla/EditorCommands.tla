--------------------------- MODULE EditorCommands ---------------------------
(* The editor's commands: what a key does to a document and a selection of    *)
(* several ranges.  A document is a sequence of characters; the letters of a  *)
(* document all differ, so that a line can be followed.                       *)
EXTENDS EditorTransactions, FiniteSets

CONSTANT CommandDocs     \* the documents a command is tried on
VARIABLES commandDoc, commandSel,
          command        \* the command that was run, or "none"
commandVars == <<commandDoc, commandSel, command>>

NewLine == -1
Space == -2
Semicolon == -3        \* the line comment token of the sequence language
Open == -4             \* "(" and ")"
Close == -5
IndentUnit == <<Space, Space>>
Category(ch) ==
  CASE ch \in {NewLine, Space} -> "space" [] ch > 0 -> "word" [] OTHER -> "other"

(* Text.lineAt, by positions; a line's number is one more than the newlines   *)
(* before it.                                                                 *)
LineFrom(d, pos) == CHOOSE f \in 0 .. pos : /\ f = 0 \/ d[f] = NewLine
                                            /\ \A i \in f + 1 .. pos : d[i] # NewLine
LineTo(d, pos) == CHOOSE t \in pos .. Len(d) : /\ t = Len(d) \/ d[t + 1] = NewLine
                                               /\ \A i \in pos + 1 .. t : d[i] # NewLine
LineNumber(d, pos) == 1 + Cardinality({i \in 1 .. pos : d[i] = NewLine})
Blanks(d, from) == CHOOSE n \in 0 .. LineTo(d, from) - from :
                     /\ \A i \in from + 1 .. from + n : d[i] = Space
                     /\ from + n = LineTo(d, from) \/ d[from + n + 1] # Space
Greater(m, n) == IF m > n THEN m ELSE n
Insert(pos, text) == [from |-> pos, to |-> pos, insert |-> text]
CutOut(from, to) == [from |-> from, to |-> to, insert |-> <<>>]
Piece(d, from, to) == SubSeq(d, from + 1, to)

CommandsInit ==
  /\ commandDoc \in CommandDocs /\ command = "none"
  /\ \E a \in 0 .. Len(commandDoc), h \in 0 .. Len(commandDoc) :
       LET first == Ranged(a, h)
       IN \/ commandSel = Create(<<first>>, 1)
          \/ \E from \in first.to .. Len(commandDoc) : \E to \in from .. Len(commandDoc), main \in 1 .. 2 :
               /\ ~Meets(first, Ranged(from, to))
               /\ commandSel = Create(<<first, Ranged(from, to)>>, main)
(* dispatch: a selection that is not given is mapped.                         *)
Run(name, tr) ==
  /\ command' = name
  /\ commandDoc' = Apply(tr.changes, commandDoc) /\ commandSel' = NewSelection(tr, commandSel)
RunByRange(name, results) == Run(name, ChangeByRange(commandSel, results))
EachRange(Result(_)) == [i \in DOMAIN commandSel.ranges |-> Result(commandSel.ranges[i])]
EditedRange(specs, range) == [changes |-> Of(specs, Len(commandDoc)), range |-> range]
----------------------------------------------------------------------------
(* Where a movement leads from a position.                                    *)
ByChar(d, pos, forward) ==
  IF forward THEN Least(Len(d), pos + 1) ELSE Greater(0, pos - 1)
MovedOver(d, pos, forward) == d[IF forward THEN pos + 1 ELSE pos]
AtEnd(d, pos, forward) == pos = IF forward THEN Len(d) ELSE 0
RECURSIVE OverGroup(_, _, _, _)
OverGroup(d, pos, cat, forward) ==
  IF AtEnd(d, pos, forward) THEN pos
  ELSE LET next == Category(MovedOver(d, pos, forward))
       IN IF cat \notin {"space", next} THEN pos
          ELSE OverGroup(d, ByChar(d, pos, forward), next, forward)
ByGroup(d, pos, forward) == OverGroup(d, pos, "space", forward)
(* moveVertically keeps the column as far as the other line reaches, and      *)
(* stays when there is no other line.                                         *)
ByLine(d, pos, forward) ==
  LET other == IF forward THEN LineTo(d, pos) + 1 ELSE LineFrom(d, pos) - 1
  IN IF other \notin 0 .. Len(d) THEN pos
     ELSE Least(LineTo(d, other), LineFrom(d, other) + pos - LineFrom(d, pos))
ToLineEdge(d, pos, forward) == IF forward THEN LineTo(d, pos) ELSE LineFrom(d, pos)
ToBoundary(d, pos, forward) ==
  LET from == LineFrom(d, pos)
  IN IF forward THEN LineTo(d, pos)
     ELSE IF pos # from + Blanks(d, from) THEN from + Blanks(d, from) ELSE from

(* updateSel with moveSel or extendSel: a range that is not empty collapses   *)
(* to one of its ends when moved by characters, groups or lines.              *)
UpdateSel(ranges) == Create(ranges, commandSel.main)
SelectTo(selection) ==
  /\ ~SameSelection(selection, commandSel)
  /\ Run("select", [NoSpec EXCEPT !.selection = <<selection>>, !.changes = EmptySet(Len(commandDoc))])
(* A movement "to" gives for each position the one it leads to.             *)
Places == 0 .. Len(commandDoc)
CharMove(forward) == [pos \in Places |-> ByChar(commandDoc, pos, forward)]
GroupMove(forward) == [pos \in Places |-> ByGroup(commandDoc, pos, forward)]
LineMove(forward) == [pos \in Places |-> ByLine(commandDoc, pos, forward)]
BoundaryMove(forward) == [pos \in Places |-> ToBoundary(commandDoc, pos, forward)]
EdgeMove(forward) == [pos \in Places |-> ToLineEdge(commandDoc, pos, forward)]
MovedBy(r, to, forward) ==
  IF Point(r) THEN Cursor(to[HeadOfRange(r)])
  ELSE Cursor(IF forward THEN r.to ELSE r.from)
Collapsing(to, forward) == SelectTo(UpdateSel(EachRange(LAMBDA r : MovedBy(r, to, forward))))
CursorByChar == \E forward \in BOOLEAN : Collapsing(CharMove(forward), forward)
CursorByGroup == \E forward \in BOOLEAN : Collapsing(GroupMove(forward), forward)
CursorByLine == \E forward \in BOOLEAN : Collapsing(LineMove(forward), forward)
CursorToEdge ==
  \E forward \in BOOLEAN : \E to \in {BoundaryMove(forward), EdgeMove(forward)} :
    SelectTo(UpdateSel(EachRange(LAMBDA r : Cursor(to[HeadOfRange(r)]))))
Extending(to) == SelectTo(UpdateSel(EachRange(LAMBDA r : Ranged(Anchor(r), to[HeadOfRange(r)]))))
SelectByChar == \E forward \in BOOLEAN : Extending(CharMove(forward))
SelectByGroup == \E forward \in BOOLEAN : Extending(GroupMove(forward))
SelectByLine == \E forward \in BOOLEAN : Extending(LineMove(forward))
SelectToEdge == \E forward \in BOOLEAN : Extending(BoundaryMove(forward)) \/ Extending(EdgeMove(forward))
(* The document's ends, from the main range, and all of it.                   *)
SelectDoc ==
  LET main == MainRange(commandSel)   all == Len(commandDoc)
  IN \E s \in {Single(0, 0), Single(all, all), Single(Anchor(main), 0), Single(Anchor(main), all), Single(0, all)} :
       SelectTo(s)
Simplify ==
  /\ Len(commandSel.ranges) > 1 \/ ~Point(MainRange(commandSel))
  /\ SelectTo(IF Len(commandSel.ranges) > 1 THEN AsSingle(commandSel)
            ELSE Single(HeadOfRange(MainRange(commandSel)), HeadOfRange(MainRange(commandSel))))
----------------------------------------------------------------------------
(* deleteBy: the range, or what a movement from the cursor covers.            *)
DeletedTo(r, to) ==
  LET from == IF Point(r) THEN Least(r.from, to) ELSE r.from
      end == IF Point(r) THEN Greater(r.to, to) ELSE r.to
  IN EditedRange(IF from = end THEN <<>> ELSE <<CutOut(from, end)>>, IF from = end THEN r ELSE Cursor(from))
RunUnlessEmpty(name, results) ==
  \E tr \in {ChangeByRange(commandSel, results)} : ~IsEmpty(tr.changes) /\ Run(name, tr)
DeleteBy(to) == RunUnlessEmpty("delete", EachRange(LAMBDA r : DeletedTo(r, to[r.from])))
(* In the indentation, back to the column of a unit before.                   *)
Indenting(d, pos) ==
  LineFrom(d, pos) < pos /\ pos <= LineFrom(d, pos) + Blanks(d, LineFrom(d, pos))
BackByChar(d, pos) ==
  IF Indenting(d, pos)
  THEN LET over == (pos - LineFrom(d, pos)) % Len(IndentUnit)
       IN pos - (IF over = 0 THEN Len(IndentUnit) ELSE over)
  ELSE ByChar(d, pos, FALSE)
RECURSIVE GroupEnd(_, _, _, _, _)
GroupEnd(d, pos, cat, start, forward) ==
  IF pos = IF forward THEN LineTo(d, start) ELSE LineFrom(d, start)
  THEN IF pos = start THEN ByChar(d, pos, forward) ELSE pos
  ELSE LET ch == MovedOver(d, pos, forward)   next == Category(ch)
       IN IF cat \notin {"none", next} THEN pos
          ELSE GroupEnd(d, ByChar(d, pos, forward), IF ch # Space \/ pos # start THEN next ELSE cat,
                        start, forward)
PastLineEdge(d, pos, forward) ==
  IF pos # ToLineEdge(d, pos, forward) THEN ToLineEdge(d, pos, forward) ELSE ByChar(d, pos, forward)
Delete ==
  \E forward \in BOOLEAN :
    \E to \in {IF forward THEN CharMove(TRUE) ELSE [pos \in Places |-> BackByChar(commandDoc, pos)],
             [pos \in Places |-> GroupEnd(commandDoc, pos, "none", pos, forward)],
             [pos \in Places |-> PastLineEdge(commandDoc, pos, forward)]} : DeleteBy(to)

SplitLine ==
  RunByRange("splitLine", EachRange(LAMBDA r : EditedRange(<<[from |-> r.from, to |-> r.to, insert |-> <<NewLine>>]>>, Cursor(r.from))))
Flipped(pos) ==
  [from |-> pos - 1, to |-> pos + 1, insert |-> <<commandDoc[pos + 1], commandDoc[pos]>>]
Flips(r) == Point(r) /\ r.from \notin {0, Len(commandDoc)}
TransposeChars ==
  RunUnlessEmpty("transposeChars", EachRange(LAMBDA r :
    EditedRange(IF Flips(r) THEN <<Flipped(r.from)>> ELSE <<>>, IF Flips(r) THEN Cursor(r.from + 1) ELSE r)))

(* insertNewlineAndIndent: between brackets a second line is opened, indented *)
(* as the line was.  The language gives no indentation but 0.  The test for   *)
(* blanks before the cursor reads the line up to the column "from".           *)
BetweenBrackets(d, r) ==
  Point(r) /\ r.from \in 1 .. Len(d) - 1 /\ d[r.from] = Open /\ d[r.from + 1] = Close
OnlyBlanksBefore(d, pos) ==
  LET from == LineFrom(d, pos)
  IN pos > from /\ from + Blanks(d, from) >= Least(LineTo(d, from), from + pos)
IndentAt(d, from) == SubSeq(d, from + 1, from + Blanks(d, from))
BreakStart(d, r) == IF OnlyBlanksBefore(d, r.from) THEN LineFrom(d, r.from) ELSE r.from
BreakEnd(d, r) == IF LineFrom(d, r.to) = LineFrom(d, r.from) THEN r.to + Blanks(d, r.to) ELSE r.to
BrokenAt(spec) == EditedRange(<<spec>>, Cursor(spec.from + 1))
NewLineAt(r) ==
  BrokenAt(
    IF BetweenBrackets(commandDoc, r)
    THEN Insert(r.from, <<NewLine, NewLine>> \o IndentAt(commandDoc, LineFrom(commandDoc, r.from)))
    ELSE [from |-> BreakStart(commandDoc, r), to |-> BreakEnd(commandDoc, r), insert |-> <<NewLine>>])
InsertNewlineAndIndent == RunByRange("insertNewline", EachRange(NewLineAt))
----------------------------------------------------------------------------
(* selectedLineBlocks: blocks of whole lines, each with its ranges; ranges in *)
(* the same or in the next line share one.                                    *)
EndOfLines(r) == IF ~Point(r) /\ r.to = LineFrom(commandDoc, r.to) THEN r.to - 1 ELSE r.to
SharesBlock(blocks, r) == blocks # <<>> /\ Last(blocks).upto >= LineNumber(commandDoc, r.from)
WithRange(blocks, r) ==
  LET end == LineTo(commandDoc, EndOfLines(r))   upto == LineNumber(commandDoc, EndOfLines(r)) + 1
  IN IF SharesBlock(blocks, r)
     THEN [blocks EXCEPT ![Len(blocks)] = [@ EXCEPT !.to = end, !.upto = upto, !.ranges = Append(@, r)]]
     ELSE Append(blocks, [from |-> LineFrom(commandDoc, r.from), to |-> end, upto |-> upto, ranges |-> <<r>>])
RECURSIVE BlocksWith(_, _)
BlocksWith(blocks, ranges) ==
  IF ranges = <<>> THEN blocks ELSE BlocksWith(WithRange(blocks, Head(ranges)), Tail(ranges))
SelectedLineBlocks == BlocksWith(<<>>, commandSel.ranges)

SelectLine ==
  \E blocks \in {SelectedLineBlocks} :
    LET ranges == [i \in DOMAIN blocks |-> Ranged(blocks[i].from, Least(blocks[i].to + 1, Len(commandDoc)))]
    IN Run("select", [NoSpec EXCEPT !.selection = <<Create(ranges, 1)>>, !.changes = EmptySet(Len(commandDoc))])

(* moveLine: each block changes places with the line next to it; a block that *)
(* has none is left out, and its ranges with it.                              *)
Movable(block, forward) == IF forward THEN block.to < Len(commandDoc) ELSE block.from > 0
MoveDown(block) ==
  LET d == commandDoc   end == LineTo(d, block.to + 1)   size == end - block.to
      shifted(pos) == Least(Len(d), pos + size)
  IN [specs |-> <<CutOut(block.to, end), Insert(block.from, Append(Piece(d, block.to + 1, end), NewLine))>>,
      ranges |-> [i \in DOMAIN block.ranges |->
                    Ranged(shifted(Anchor(block.ranges[i])), shifted(HeadOfRange(block.ranges[i])))]]
MoveUp(block) ==
  LET d == commandDoc   from == LineFrom(d, block.from - 1)   size == block.from - from
  IN [specs |-> <<CutOut(from, block.from), Insert(block.to, <<NewLine>> \o Piece(d, from, block.from - 1))>>,
      ranges |-> [i \in DOMAIN block.ranges |->
                    Ranged(Anchor(block.ranges[i]) - size, HeadOfRange(block.ranges[i]) - size)]]
MovedBlock(block, forward) == IF forward THEN MoveDown(block) ELSE MoveUp(block)
MoveLine(forward) ==
  \E movable \in {SelectSeq(SelectedLineBlocks, LAMBDA b : Movable(b, forward))} :
  \E moved \in {[i \in DOMAIN movable |-> MovedBlock(movable[i], forward)]} :
     /\ movable # <<>>
     /\ Run("moveLine", [NoSpec EXCEPT
               !.changes = Of(FlattenSeq([i \in DOMAIN moved |-> moved[i].specs]), Len(commandDoc)),
               !.selection = <<Create(FlattenSeq([i \in DOMAIN moved |-> moved[i].ranges]), commandSel.main)>>])
CopyOf(block, forward) ==
  LET lines == Piece(commandDoc, block.from, block.to)
  IN IF forward THEN Insert(block.from, Append(lines, NewLine)) ELSE Insert(block.to, <<NewLine>> \o lines)
CopyLine(forward) ==
  \E blocks \in {SelectedLineBlocks} :
     Run("copyLine", [NoSpec EXCEPT !.changes = Of([i \in DOMAIN blocks |-> CopyOf(blocks[i], forward)], Len(commandDoc))])
DeletionOf(block) ==
  IF block.from > 0 THEN CutOut(block.from - 1, block.to)
  ELSE CutOut(block.from, Least(block.to + 1, Len(commandDoc)))
DeleteLine ==
  \E blocks \in {SelectedLineBlocks} :
  \E changes \in {Of([i \in DOMAIN blocks |-> DeletionOf(blocks[i])], Len(commandDoc))} :
  \E selection \in {UpdateSel(EachRange(LAMBDA r : Cursor(ByLine(commandDoc, HeadOfRange(r), TRUE))))} :
     Run("deleteLine", [NoSpec EXCEPT !.changes = changes, !.selection = <<MappedSelection(selection, changes)>>])
----------------------------------------------------------------------------
(* changeBySelectedLine: f is asked once for each line, of the range that     *)
(* comes to it first; a range that only ends at its start does not.           *)
LinesCovered(d, r) == {f \in {LineFrom(d, p) : p \in r.from .. r.to} : Point(r) \/ r.to > f}
LinesTouched(r) == LinesCovered(commandDoc, r)
NewLinesOnly(lines, atLine) == {f \in lines : f > atLine}

MappedAlong(r, changes) ==
  [changes |-> changes, range |-> Ranged(MapPos(changes, Anchor(r), 1), MapPos(changes, HeadOfRange(r), 1))]
LinesChanged(r, order, change) ==
  MappedAlong(r, Of(FlattenSeq([i \in DOMAIN order |-> change[order[i]]]), Len(commandDoc)))
RECURSIVE ByLines(_, _, _), ByLinesOf(_, _, _, _)
ByLinesOf(ranges, order, atLine, change) ==
  <<LinesChanged(Head(ranges), order, change)>>
    \o ByLines(Tail(ranges), IF order = <<>> THEN atLine ELSE Last(order), change)
ByLines(ranges, atLine, change) ==
  IF ranges = <<>> THEN <<>>
  ELSE ByLinesOf(ranges, SetToSortSeq(NewLinesOnly(LinesTouched(Head(ranges)), atLine), <), atLine, change)
ChangeByLine(name, change) == RunByRange(name, ByLines(commandSel.ranges, -1, change))
IndentMore == ChangeByLine("indentMore", [from \in Places |-> <<Insert(from, IndentUnit)>>])
LessBy(from) ==
  LET cols == Blanks(commandDoc, from)
  IN IF cols = 0 THEN <<>> ELSE <<CutOut(from + Greater(0, cols - Len(IndentUnit)), from + cols)>>
IndentLess == ChangeByLine("indentLess", [from \in Places |-> LessBy(from)])
IndentSelection ==
  ChangeByLine("indentSelection", [from \in Places |-> <<CutOut(from, from + Blanks(commandDoc, from))>>])

(* changeLineComment, toggling.  A line is its start, its indentation (that   *)
(* of the least indented line that comes with it, unless it is blank),        *)
(* whether it is blank, commented, and the only one of its range.             *)
CommentLine(d, from) ==
  LET blanks == Blanks(d, from)
  IN [from |-> from, indent |-> blanks, own |-> blanks, empty |-> from + blanks = LineTo(d, from),
      comment |-> from + blanks < Len(d) /\ d[from + blanks + 1] = Semicolon, single |-> FALSE]
TogetherIndented(lines) ==
  LET full == {i \in DOMAIN lines : ~lines[i].empty}
      least == CHOOSE n \in {lines[i].indent : i \in full} : \A i \in full : n <= lines[i].indent
  IN [i \in DOMAIN lines |-> [lines[i] EXCEPT !.indent = IF i \in full THEN least ELSE @,
                                              !.single = Len(lines) = 1]]
RECURSIVE LinesCommented(_, _, _)
WithLines(d, all, order) == all \o TogetherIndented([i \in DOMAIN order |-> CommentLine(d, order[i])])
LinesCommented(d, all, ranges) ==
  IF ranges = <<>> THEN all
  ELSE LET prev == IF all = <<>> THEN -1 ELSE Last(all).from
       IN LinesCommented(d, WithLines(d, all, SetToSortSeq({f \in LinesCovered(d, Head(ranges)) : f > prev}, <)),
                         Tail(ranges))
Uncommented(d, l) ==
  LET at == l.from + l.own
  IN CutOut(at, IF at + 2 <= LineTo(d, at) /\ d[at + 2] = Space THEN at + 2 ELSE at + 1)
Commented(l) == Insert(l.from + l.indent, <<Semicolon, Space>>)
WithComments(sel, changes) ==
  [NoSpec EXCEPT !.changes = changes,
     !.selection = <<Create([i \in DOMAIN sel.ranges |-> MappedRange(sel.ranges[i], changes, 1)], sel.main)>>]
ToggleLines(d, sel, wanted, done) ==
  IF \E i \in DOMAIN wanted : ~wanted[i].comment
  THEN <<WithComments(sel, Of([i \in DOMAIN wanted |-> Commented(wanted[i])], Len(d)))>>
  ELSE IF done # <<>>
  THEN <<[NoSpec EXCEPT !.changes = Of([i \in DOMAIN done |-> Uncommented(d, done[i])], Len(d))]>>
  ELSE <<>>
CommentChange(d, sel, lines) ==
  ToggleLines(d, sel, SelectSeq(lines, LAMBDA l : l.single \/ ~l.empty), SelectSeq(lines, LAMBDA l : l.comment))
LineCommentChange(d, sel) == CommentChange(d, sel, LinesCommented(d, <<>>, sel.ranges))
ToggleLineComment ==
  \E tr \in {LineCommentChange(commandDoc, commandSel)} : tr # <<>> /\ Run("toggleLineComment", tr[1])

CommandsNext ==
  /\ command = "none"
  /\ \/ CursorByChar \/ CursorByGroup \/ CursorByLine \/ CursorToEdge
     \/ SelectByChar \/ SelectByGroup \/ SelectByLine \/ SelectToEdge
     \/ SelectDoc \/ Simplify
     \/ Delete \/ SplitLine \/ TransposeChars \/ InsertNewlineAndIndent
     \/ SelectLine \/ (\E forward \in BOOLEAN : MoveLine(forward) \/ CopyLine(forward)) \/ DeleteLine
     \/ IndentMore \/ IndentLess \/ IndentSelection \/ ToggleLineComment
----------------------------------------------------------------------------
(* The ranges a command leaves lie in the document, apart from each other,    *)
(* and the main one is one of them: the view reads them as they are.  (Moving *)
(* lines keeps the index of a range it may have left out.)                    *)
CommandsFit ==
  [][/\ Inside(commandSel', Len(commandDoc'))
     /\ \A i \in DOMAIN commandSel'.ranges \ {1} : ~Meets(commandSel'.ranges[i - 1], commandSel'.ranges[i])
     /\ commandSel'.main \in DOMAIN commandSel'.ranges \/ command' = "moveLine"]_commandVars

(* The commands on lines keep every line whole: a moved line is there once, a *)
(* copied one twice, a deleted one not at all and each other one once.        *)
StartsOfLines(d) == {LineFrom(d, p) : p \in 0 .. Len(d)}
LineText(d, f) == Piece(d, f, LineTo(d, f))
SelectedLines == UNION {LinesTouched(commandSel.ranges[i]) : i \in DOMAIN commandSel.ranges}
Times(d, starts, text) == Cardinality({f \in starts : LineText(d, f) = text})
LinesOccur(times) ==
  LET others == StartsOfLines(commandDoc) \ SelectedLines
      texts == {LineText(commandDoc, f) : f \in StartsOfLines(commandDoc)}
  IN /\ \A text \in texts :
          Times(commandDoc', StartsOfLines(commandDoc'), text)
            = Times(commandDoc, others, text) + times * Times(commandDoc, SelectedLines, text)
     /\ \A f \in StartsOfLines(commandDoc') : LineText(commandDoc', f) \in texts
LinesWhole ==
  [][/\ command' = "moveLine" => LinesOccur(1)
     /\ command' = "copyLine" => LinesOccur(2)
     /\ command' = "deleteLine" /\ commandDoc' # <<>> => LinesOccur(0)]_commandVars

(* A range that is moved with its lines goes on covering what it covered.     *)
Letters(d, r) == {d[i] : i \in r.from + 1 .. r.to} \ {NewLine, Space, Semicolon, Open, Close}
RangesRideAlong ==
  [][command' = "moveLine" =>
       \A i \in DOMAIN commandSel'.ranges : \E j \in DOMAIN commandSel.ranges :
         Letters(commandDoc', commandSel'.ranges[i]) = Letters(commandDoc, commandSel.ranges[j])]_commandVars

(* Indenting changes each selected line once, shared by two ranges or not,    *)
(* and no other.                                                              *)
IndentedText(f) ==
  IF f \in SelectedLines THEN IndentUnit \o LineText(commandDoc, f) ELSE LineText(commandDoc, f)
IndentsOnce ==
  [][command' = "indentMore" =>
       LET order == SetToSortSeq(StartsOfLines(commandDoc), <)
           joined == FlattenSeq([i \in DOMAIN order |-> <<NewLine>> \o IndentedText(order[i])])
       IN commandDoc' = Tail(joined)]_commandVars

(* Commenting the lines of one range and toggling again gives the text back.  *)
TogglesBack ==
  [][command' = "toggleLineComment" /\ Len(commandDoc') > Len(commandDoc) /\ Len(commandSel.ranges) = 1 =>
       \E back \in {LineCommentChange(commandDoc', commandSel')} :
         back # <<>> /\ Apply(back[1].changes, commandDoc') = commandDoc]_commandVars

(* A line break takes the place of the ranges and of the blanks around them,  *)
(* never of other text of their lines.                                        *)
Dark(d, places) == SelectSeq([i \in DOMAIN d |-> IF i \in places THEN d[i] ELSE Space],
                             LAMBDA ch : ch \notin {Space, NewLine})
Unselected ==
  {i \in DOMAIN commandDoc : \A r \in DOMAIN commandSel.ranges :
     i <= commandSel.ranges[r].from \/ i > commandSel.ranges[r].to}
BreaksKeepText ==
  [][command' \in {"splitLine", "insertNewline"} =>
       Dark(commandDoc', DOMAIN commandDoc') = Dark(commandDoc, Unselected)]_commandVars

(* Commands on several selections at once are commands on each of them.       *)
CommandsKeepText ==
  CommandsFit /\ LinesWhole /\ RangesRideAlong /\ IndentsOnce /\ TogglesBack /\ BreaksKeepText
=============================================================================
