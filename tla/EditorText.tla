------------------------------ MODULE EditorText -----------------------------
(* The editor's document (Text, TextLeaf, TextNode): a tree whose leaves hold *)
(* at most Branch lines, rebuilt on every replacement.  A line is a sequence  *)
(* of characters; between two lines, leaves and children is one line break.   *)
EXTENDS Integers, Sequences, SequencesExt, FiniteSets

CONSTANTS TextShift,       \* BranchShift: Branch is its power of two
          TextBound,       \* characters of a document
          Inserts          \* what is typed, as lists of lines
VARIABLES tree, flat       \* the tree, and the characters it should hold
textVars == <<tree, flat>>

Branch == 2 ^ TextShift
Break == 0
RECURSIVE TextLength(_), LinesOf(_), LengthOf(_)
TextLength(lines) == IF lines = <<>> THEN -1 ELSE Len(Head(lines)) + 1 + TextLength(Tail(lines))
LinesOf(kids) == IF kids = <<>> THEN 0 ELSE Head(kids).lines + LinesOf(Tail(kids))
LengthOf(kids) == IF kids = <<>> THEN 0 ELSE Head(kids).length + 1 + LengthOf(Tail(kids))
Leaf(lines) == [kids |-> <<>>, text |-> lines, length |-> TextLength(lines), lines |-> Len(lines)]
Node(kids, length) ==
  [kids |-> kids, text |-> <<>>, length |-> length, lines |-> LinesOf(kids)]
IsLeaf(t) == t.kids = <<>>
EmptyText == Leaf(<<<<>>>>)
(* Where the i-th line, or child, starts.                                     *)
LineStart(lines, i) == TextLength(SubSeq(lines, 1, i - 1)) + 1
KidStart(kids, i) == LengthOf(SubSeq(kids, 1, i - 1))

(* appendText and sliceText: the lines that meet the range, cut to it, the    *)
(* first one joined to the last line of the target.                           *)
Atleast(m, n) == IF m >= n THEN m ELSE n
Atmost(m, n) == IF m <= n THEN m ELSE n
CutAt(line, pos, from, to) == SubSeq(line, Atleast(0, from - pos) + 1, Atmost(Len(line), to - pos))
Cut(lines, i, from, to) == CutAt(lines[i], LineStart(lines, i), from, to)
CutEach(lines, at, from, to) == [k \in DOMAIN at |-> Cut(lines, at[k], from, to)]
Within(lines, from, to) ==
  CutEach(lines, SelectSeq([i \in DOMAIN lines |-> i],
                           LAMBDA i : LineStart(lines, i) <= to /\ LineStart(lines, i + 1) > from), from, to)
JoinLines(target, kept) ==
  IF kept = <<>> THEN target
  ELSE Front(target) \o <<Last(target) \o Head(kept)>> \o Tail(kept)
AppendTo(target, lines, from, to) == JoinLines(target, Within(lines, from, to))
SliceText(lines, from, to) == AppendTo(<<<<>>>>, lines, from, to)

(* TextLeaf.split: leaves of Branch lines.                                    *)
RECURSIVE SplitLeaves(_), FlattenText(_)
SplitLeaves(lines) ==
  IF Len(lines) <= Branch THEN IF lines = <<>> THEN <<>> ELSE <<Leaf(lines)>>
  ELSE <<Leaf(SubSeq(lines, 1, Branch))>> \o SplitLeaves(SubSeq(lines, Branch + 1, Len(lines)))
FlattenText(t) ==
  IF IsLeaf(t) THEN t.text ELSE FlattenSeq([i \in DOMAIN t.kids |-> FlattenText(t.kids[i])])

(* TextNode.from: children gathered into chunks of about "chunk" lines.  The  *)
(* state of the loop is the chunks closed and the one being filled.           *)
RECURSIVE NodeFrom(_, _), AddKids(_, _, _)
FlushChunk(st) ==
  IF st.open = <<>> THEN st
  ELSE [closed |-> Append(st.closed, IF Len(st.open) = 1 THEN st.open[1]
                                     ELSE NodeFrom(st.open, KidStart(st.open, Len(st.open) + 1) - 1)),
        open |-> <<>>]
MergeLeaf(st, kid) == [st EXCEPT !.open = Append(Front(@), Leaf(Last(@).text \o kid.text))]
Merges(st, kid) ==
  /\ st.open # <<>> /\ IsLeaf(kid) /\ IsLeaf(Last(st.open))
  /\ kid.lines + Last(st.open).lines <= Branch
CloseKid(st, kid) == [st EXCEPT !.closed = Append(@, kid)]
Gather(st, kid) == [st EXCEPT !.open = Append(@, kid)]
AddKid(st, kid, chunk) ==
  IF kid.lines > 2 * chunk /\ ~IsLeaf(kid) THEN AddKids(st, kid.kids, chunk)
  ELSE IF kid.lines > chunk \div 2 /\ (LinesOf(st.open) > chunk \div 2 \/ st.open = <<>>)
  THEN CloseKid(FlushChunk(st), kid)
  ELSE IF Merges(st, kid) THEN MergeLeaf(st, kid)
  ELSE Gather(IF LinesOf(st.open) + kid.lines > chunk THEN FlushChunk(st) ELSE st, kid)
AddKids(st, kids, chunk) ==
  IF kids = <<>> THEN st ELSE AddKids(AddKid(st, Head(kids), chunk), Tail(kids), chunk)
FromChunks(chunks, length) == IF Len(chunks) = 1 THEN chunks[1] ELSE Node(chunks, length)
NodeFrom(kids, length) ==
  IF LinesOf(kids) < Branch
  THEN Leaf(FlattenSeq([i \in DOMAIN kids |-> FlattenText(kids[i])]))
  ELSE FromChunks(FlushChunk(AddKids([closed |-> <<>>, open |-> <<>>], kids,
                                     Atleast(Branch, LinesOf(kids) \div Branch))).closed, length)

(* decompose: the parts of a range, the first joined to the part before it    *)
(* when it is open at its start (From), the last a leaf when open at its end. *)
RECURSIVE DecomposeKids(_, _, _, _, _, _)
HalvesAt(joined, mid) ==
  <<Leaf(SubSeq(joined, 1, mid)), Leaf(SubSeq(joined, mid + 1, Len(joined)))>>
Halves(joined) == IF Len(joined) <= Branch THEN <<Leaf(joined)>> ELSE HalvesAt(joined, Len(joined) \div 2)
JoinLeaf(leaf, parts) == Front(parts) \o Halves(AppendTo(Last(parts).text, leaf.text, 0, leaf.length))
AddLeaf(leaf, parts, open) == IF "From" \in open THEN JoinLeaf(leaf, parts) ELSE Append(parts, leaf)
ChildOpen(pos, end, from, to, open) ==
  open \cap ((IF pos <= from THEN {"From"} ELSE {}) \cup (IF end >= to THEN {"To"} ELSE {}))
Decompose(t, from, to, parts, open) ==
  IF ~IsLeaf(t) THEN DecomposeKids(t.kids, 0, from, to, parts, open)
  ELSE AddLeaf(IF from <= 0 /\ to >= t.length THEN t ELSE Leaf(SliceText(t.text, from, to)), parts, open)
DecomposeKid(kid, pos, end, from, to, parts, open) ==
  IF ~(pos <= to /\ from <= end /\ to >= pos) THEN parts
  ELSE IF pos >= from /\ end <= to /\ open = {} THEN Append(parts, kid)
  ELSE Decompose(kid, from - pos, to - pos, parts, open)
DecomposeKids(kids, pos, from, to, parts, open) ==
  IF kids = <<>> THEN parts
  ELSE DecomposeKids(Tail(kids), pos + Head(kids).length + 1, from, to,
         DecomposeKid(Head(kids), pos, pos + Head(kids).length, from, to, parts,
                      ChildOpen(pos, pos + Head(kids).length, from, to, open)), open)
SliceTree(t, from, to) == NodeFrom(Decompose(t, from, to, <<>>, {}), to - from)

(* replace: a leaf by its lines, a node in one child when the child keeps a   *)
(* fair size, or else by taking the tree apart.                               *)
RECURSIVE ReplaceIn(_, _, _, _)
AddText(new, head) == IF new.length > 0 THEN Decompose(new, 0, new.length, head, {"From", "To"}) ELSE head
TakeApart(t, from, to, new) ==
  NodeFrom(Decompose(t, to, t.length, AddText(new, Decompose(t, 0, from, <<>>, {"To"})), {"From"}),
           t.length - (to - from) + new.length)
Fair(updated, total) ==
  updated.lines < total \div 2 ^ (TextShift - 1) /\ updated.lines > total \div 2 ^ (TextShift + 1)
Covering(t, from, to) ==
  {i \in DOMAIN t.kids : from >= KidStart(t.kids, i) /\ to <= KidStart(t.kids, i) + t.kids[i].length}
LeafOrNode(lines, length) == IF Len(lines) <= Branch THEN Leaf(lines) ELSE NodeFrom(SplitLeaves(lines), length)
ReplaceLines(t, from, to, new) ==
  LeafOrNode(AppendTo(AppendTo(SliceText(t.text, 0, from), new.text, 0, new.length), t.text, to, t.length),
             t.length + new.length - (to - from))
WithChild(t, i, updated, length) ==
  IF Fair(updated, t.lines - t.kids[i].lines + updated.lines)
  THEN Node([t.kids EXCEPT ![i] = updated], length)
  ELSE TakeApart(t, KidStart(t.kids, i), KidStart(t.kids, i) + t.kids[i].length, updated)
ReplaceChild(t, i, pos, from, to, new) ==
  WithChild(t, i, ReplaceIn(t.kids[i], from - pos, to - pos, new), t.length - (to - from) + new.length)
ReplaceCovered(t, i, from, to, new) == ReplaceChild(t, i, KidStart(t.kids, i), from, to, new)
ReplaceIn(t, from, to, new) ==
  IF IsLeaf(t) /\ IsLeaf(new) THEN ReplaceLines(t, from, to, new)
  ELSE IF IsLeaf(t) \/ new.lines >= t.lines \/ Covering(t, from, to) = {} THEN TakeApart(t, from, to, new)
  ELSE ReplaceCovered(t, CHOOSE k \in Covering(t, from, to) : \A l \in Covering(t, from, to) : k <= l,
                      from, to, new)
TextOfLines(lines) == LeafOrNode(lines, TextLength(lines))

(* lineInner: the line that holds a position, found down the tree.            *)
LinesBefore(kids, i) == LinesOf(SubSeq(kids, 1, i - 1))
RECURSIVE LineIn(_, _, _, _)
LineOfLeaf(t, line, offset, i) ==
  [from |-> offset + LineStart(t.text, i), number |-> line + i - 1, text |-> t.text[i]]
LineInKid(kids, target, line, offset, i) ==
  LineIn(kids[i], target, line + LinesBefore(kids, i), offset + KidStart(kids, i))
LineIn(t, target, line, offset) ==
  IF IsLeaf(t)
  THEN LineOfLeaf(t, line, offset,
         CHOOSE k \in DOMAIN t.text : /\ offset + LineStart(t.text, k) + Len(t.text[k]) >= target
                                      /\ k > 1 => offset + LineStart(t.text, k) <= target)
  ELSE LineInKid(t.kids, target, line, offset,
         CHOOSE k \in DOMAIN t.kids : /\ offset + KidStart(t.kids, k + 1) > target
                                      /\ k > 1 => offset + KidStart(t.kids, k) <= target)
LineAt(t, pos) == LineIn(t, pos, 1, 0)
----------------------------------------------------------------------------
Chars(lines) == FoldLeft(LAMBDA s, line : s \o <<Break>> \o line, Head(lines), Tail(lines))
TextInit == tree = EmptyText /\ flat = <<>>
ReplaceText ==
  \E from, to \in 0 .. Len(flat), lines \in Inserts :
    /\ from <= to /\ Len(flat) - (to - from) + TextLength(lines) <= TextBound
    /\ tree' = ReplaceIn(tree, from, to, TextOfLines(lines))
    /\ flat' = SubSeq(flat, 1, from) \o Chars(lines) \o SubSeq(flat, to + 1, Len(flat))
TextNext == ReplaceText
----------------------------------------------------------------------------
RECURSIVE Parts(_)
Parts(t) == {t} \cup UNION {Parts(t.kids[i]) : i \in DOMAIN t.kids}
CountsRight(t) == t.length = Len(Chars(FlattenText(t))) /\ t.lines = Len(FlattenText(t))

(* However often parts of the document were replaced, the tree holds the      *)
(* characters that an array of them would, and every node's cached length and *)
(* number of lines are those of its leaves.                                   *)
TreeHoldsText == Chars(FlattenText(tree)) = flat /\ \A t \in Parts(tree) : CountsRight(t)

(* No leaf grows past Branch lines, so that a change stays cheap.             *)
LeavesSmall == \A t \in Parts(tree) : IsLeaf(t) => t.lines <= Branch

(* The line found down the tree for a position holds it, with the text, the   *)
(* start and the number that counting line breaks gives.                      *)
LinesFound ==
  \A pos \in 0 .. Len(flat) :
    \E line \in {LineAt(tree, pos)} :
       /\ line.from <= pos /\ pos <= line.from + Len(line.text)
       /\ line.text = SubSeq(flat, line.from + 1, line.from + Len(line.text))
       /\ line.number = 1 + Cardinality({k \in 1 .. line.from : flat[k] = Break})

(* A slice, which shares nodes with the tree, holds that part of the text.    *)
SlicesMatch ==
  \A from, to \in 0 .. Len(flat) :
    from <= to => Chars(FlattenText(SliceTree(tree, from, to))) = SubSeq(flat, from + 1, to)
=============================================================================
