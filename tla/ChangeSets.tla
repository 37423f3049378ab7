----------------------------- MODULE ChangeSets -----------------------------
(* The change sets of the sequence editor (ChangeDesc, ChangeSet and their    *)
(* helpers).  A section replaces "len" characters by "text" when "edit", and  *)
(* keeps them otherwise; a description of changes (no text stored) is a set   *)
(* whose texts are blank.  Thrown errors are the value Mismatched.            *)
EXTENDS Integers, Sequences, SequencesExt

Blank == 0
Keep(len) == [len |-> len, edit |-> FALSE, text |-> <<>>]
Put(len, text) == [len |-> len, edit |-> TRUE, text |-> text]
Mismatched == <<Keep(0)>>

Span(s) == IF s.edit THEN Len(s.text) ELSE s.len
RECURSIVE Length(_), NewLength(_)
Length(c) == IF c = <<>> THEN 0 ELSE Head(c).len + Length(Tail(c))
NewLength(c) == IF c = <<>> THEN 0 ELSE Span(Head(c)) + NewLength(Tail(c))
IsEmpty(c) == c = <<>> \/ (Len(c) = 1 /\ ~c[1].edit)
Blanked(text) == [i \in DOMAIN text |-> Blank]
Desc(c) == [i \in DOMAIN c |-> [c[i] EXCEPT !.text = Blanked(@)]]
EmptySet(length) == IF length = 0 THEN <<>> ELSE <<Keep(length)>>

(* addSection and addInsert: "join" is forceJoin.                             *)
Joins(c, s) == s.text = <<>> /\ Last(c).text = <<>> /\ Last(c).edit = s.edit
AddSection(c, s, join) ==
  IF s.len = 0 /\ s.text = <<>> THEN c
  ELSE IF c # <<>> /\ (Joins(c, s) \/ (s.len = 0 /\ Last(c).len = 0) \/ join)
  THEN [c EXCEPT ![Len(c)] = [@ EXCEPT !.len = @ + s.len, !.text = @ \o s.text]]
  ELSE Append(c, s)

(* iterChanges: adjacent edits make one range unless each is asked for.       *)
StartA(c, i) == Length(SubSeq(c, 1, i - 1))
StartB(c, i) == NewLength(SubSeq(c, 1, i - 1))
Opens(c, i, individual) == c[i].edit /\ (individual \/ i = 1 \/ ~c[i - 1].edit)
LastOf(c, i, individual) ==
  IF individual THEN i
  ELSE CHOOSE j \in i .. Len(c) : /\ \A k \in i .. j : c[k].edit
                                  /\ j = Len(c) \/ ~c[j + 1].edit
RangeOf(c, i, j) ==
  [fromA |-> StartA(c, i), toA |-> StartA(c, j + 1),
   fromB |-> StartB(c, i), toB |-> StartB(c, j + 1),
   text |-> FlattenSeq([k \in 1 .. j - i + 1 |-> c[i + k - 1].text])]
Firsts(c, individual) == SelectSeq([i \in DOMAIN c |-> i], LAMBDA i : Opens(c, i, individual))
RangesAt(c, first, individual) ==
  [n \in DOMAIN first |-> RangeOf(c, first[n], LastOf(c, first[n], individual))]
Changed(c, individual) == RangesAt(c, Firsts(c, individual), individual)
Replaced(doc, from, to, text) == SubSeq(doc, 1, from) \o text \o SubSeq(doc, to + 1, Len(doc))
RECURSIVE ApplyEach(_, _)
ApplyEach(ranges, doc) ==
  IF ranges = <<>> THEN doc
  ELSE ApplyEach(Tail(ranges),
                 Replaced(doc, Head(ranges).fromB, Head(ranges).fromB + Head(ranges).toA - Head(ranges).fromA,
                          Head(ranges).text))
Apply(c, doc) == ApplyEach(Changed(c, FALSE), doc)
BugInvertNew(c, doc) ==
  [i \in DOMAIN c |-> IF c[i].edit
                      THEN Put(Len(c[i].text), SubSeq(doc, StartB(c, i) + 1, StartB(c, i) + c[i].len))
                      ELSE c[i]]
Invert(c, doc) ==
  [i \in DOMAIN c |-> IF c[i].edit
                      THEN Put(Len(c[i].text), SubSeq(doc, StartA(c, i) + 1, StartA(c, i + 1)))
                      ELSE c[i]]
----------------------------------------------------------------------------
(* mapPos.  Mode Simple always gives a position; the others give Deleted      *)
(* (null) for a position whose surroundings the changes removed.              *)
Deleted == -1
Tracked(mode, before, after) ==
  CASE mode = "Simple" -> FALSE
    [] mode = "TrackDel" -> before /\ after
    [] mode = "TrackBefore" -> before
    [] mode = "TrackAfter" -> after
StaysBefore(c, i, pos, assoc) == pos = StartA(c, i) \/ assoc < 0
Holds(c, i, pos, assoc) ==
  LET end == StartA(c, i + 1)
  IN end > pos \/ (c[i].edit /\ end = pos /\ assoc < 0 /\ c[i].len = 0)
Lost(c, i, pos, mode) ==
  /\ c[i].edit /\ StartA(c, i + 1) >= pos /\ StartA(c, i) <= pos
  /\ Tracked(mode, StartA(c, i) < pos, StartA(c, i + 1) > pos)
MapIn(c, i, pos, assoc, mode) ==      \* i: the first section that holds the position, or 0
  IF \E l \in DOMAIN c : (i = 0 \/ l <= i) /\ Lost(c, l, pos, mode) THEN Deleted
  ELSE IF i = 0 THEN NewLength(c)
  ELSE IF ~c[i].edit THEN StartB(c, i) + pos - StartA(c, i)
  ELSE StartB(c, IF StaysBefore(c, i, pos, assoc) THEN i ELSE i + 1)
FirstOf(held) == IF held = {} THEN 0 ELSE CHOOSE k \in held : \A l \in held : k <= l
MapPosBy(c, pos, assoc, mode) ==
  MapIn(c, FirstOf({i \in DOMAIN c : Holds(c, i, pos, assoc)}), pos, assoc, mode)
MapPos(c, pos, assoc) == MapPosBy(c, pos, assoc, "Simple")

(* touchesRange: the first edit that meets the range tells how.               *)
Meeting(c, from, to) ==
  {i \in DOMAIN c : c[i].edit /\ StartA(c, i) <= to /\ StartA(c, i + 1) >= from}
TouchedAt(c, i, from, to) ==
  IF i = 0 THEN "no" ELSE IF StartA(c, i) < from /\ StartA(c, i + 1) > to THEN "cover" ELSE "yes"
TouchesRange(c, from, to) == TouchedAt(c, FirstOf(Meeting(c, from, to)), from, to)
----------------------------------------------------------------------------
(* SectionIter: the sections left and how much of the first one is used.      *)
Iter(c) == [rest |-> c, off |-> 0]
Done(a) == a.rest = <<>>
Edits(a) == ~Done(a) /\ Head(a.rest).edit
Keeps(a) == ~Done(a) /\ ~Head(a.rest).edit
LenOf(a) == IF Done(a) THEN 0 ELSE Head(a.rest).len - a.off
After(a) == Iter(Tail(a.rest))
Forward(a, len) == IF len = LenOf(a) THEN After(a) ELSE [a EXCEPT !.off = @ + len]
(* As the first set of a composition an edit is used up by its text.          *)
LenTwo(a) == Span(Head(a.rest)) - a.off
ForwardTwo(a, len) == IF len = LenTwo(a) THEN After(a) ELSE [a EXCEPT !.off = @ + len]
TextOf(a) == Head(a.rest).text
TextBit(a, len) == SubSeq(TextOf(a), a.off + 1, a.off + len)
Least(m, n) == IF m <= n THEN m ELSE n

(* mapSet: the edits of b that lie inside the deletion of a shorten it.       *)
RECURSIVE Swallow(_, _, _, _, _), Cover(_, _, _, _, _), MapOn(_, _, _, _, _, _)
Section(c, s) == AddSection(c, s, FALSE)
Swallow(a, posA, b, posB, len) ==
  IF posA > posB /\ ~Done(a) /\ posA + LenOf(a) < posB + len
  THEN Swallow(After(a), posA + LenOf(a), b, posB, len) ELSE [a |-> a, posA |-> posA]
Cover(b, posA, posB, end, len) ==
  IF Edits(b) /\ posB > posA /\ posB + LenOf(b) < end
  THEN Cover(After(b), posA, posB + LenOf(b), end, len + Len(TextOf(b)))
  ELSE IF Keeps(b) /\ posB < end
  THEN LET skip == Least(LenOf(b), end - posB)
       IN Cover(Forward(b, skip), posA, posB + skip, end, len + skip)
  ELSE [b |-> b, posB |-> posB, len |-> len]
OtherFirst(a, b, before) == LenOf(b) < LenOf(a) \/ (LenOf(b) = LenOf(a) /\ ~before)
MapPast(past, b, posB, before, out) ==
  MapOn(past.a, past.posA, After(b), posB + LenOf(b), before, Section(out, Keep(Len(TextOf(b)))))
MapCovered(a, end, cov, before, out) ==
  MapOn(After(a), end, cov.b, cov.posB, before, Section(out, Put(cov.len, TextOf(a))))
MapSkipped(a, posA, b, posB, before, out, skip) ==
  MapOn(a, posA, Forward(b, skip), posB + skip, before, Section(out, Keep(skip)))
MapOn(a, posA, b, posB, before, out) ==
  IF Keeps(a) THEN MapOn(After(a), posA + LenOf(a), b, posB, before, out)
  ELSE IF Keeps(b) /\ posB < posA
  THEN MapSkipped(a, posA, b, posB, before, out, Least(LenOf(b), posA - posB))
  ELSE IF Edits(b) /\ (Done(a) \/ posB < posA \/ (posB = posA /\ OtherFirst(a, b, before)))
  THEN MapPast(Swallow(a, posA, b, posB, LenOf(b)), b, posB, before, out)
  ELSE IF Edits(a)
  THEN MapCovered(a, posA + LenOf(a), Cover(b, posA, posB, posA + LenOf(a), 0), before, out)
  ELSE IF Done(a) /\ Done(b) THEN out ELSE Mismatched
MapSet(c, other, before) ==
  IF IsEmpty(other) THEN c ELSE MapOn(Iter(c), 0, Iter(other), 0, before, <<>>)

(* composeSets: "open" while the section begun is not complete.               *)
RECURSIVE ComposeOn(_, _, _, _)
StaysOpen(a, b, len, open, grown) ==
  /\ (Edits(a) /\ LenTwo(a) > len) \/ (Edits(b) /\ LenOf(b) > len)
  /\ open \/ grown
Both(a, b, len) ==
  IF Keeps(a) /\ Keeps(b) THEN Keep(len)
  ELSE Put(IF Keeps(a) THEN len ELSE IF a.off = 0 THEN LenOf(a) ELSE 0,
           IF Keeps(b) THEN TextBit(a, len) ELSE IF b.off = 0 THEN TextOf(b) ELSE <<>>)
ComposeNext(a, b, open, out, len, next) ==
  ComposeOn(ForwardTwo(a, len), Forward(b, len), StaysOpen(a, b, len, open, Len(next) > Len(out)), next)
ComposeBy(a, b, open, out, len) == ComposeNext(a, b, open, out, len, AddSection(out, Both(a, b, len), open))
ComposeOn(a, b, open, out) ==
  IF Done(a) /\ Done(b) THEN out
  ELSE IF Edits(a) /\ LenTwo(a) = 0
  THEN ComposeOn(After(a), b, open, AddSection(out, Put(LenOf(a), <<>>), open))
  ELSE IF ~Done(b) /\ LenOf(b) = 0
  THEN ComposeOn(a, After(b), open, AddSection(out, Put(0, TextOf(b)), open))
  ELSE IF Done(a) \/ Done(b) THEN Mismatched
  ELSE ComposeBy(a, b, open, out, Least(LenTwo(a), LenOf(b)))
Compose(c, other) ==
  IF IsEmpty(c) THEN other ELSE IF IsEmpty(other) THEN c
  ELSE ComposeOn(Iter(c), Iter(other), FALSE, <<>>)

(* filter: what the ranges (pairs from, to) keep out of the changes.          *)
PieceOf(a, len) == IF Keeps(a) THEN Keep(len) ELSE Put(len, IF a.off = 0 THEN TextOf(a) ELSE <<>>)

RECURSIVE FilterOn(_, _, _, _, _)
FallsIn(a, pos, r) == pos >= r.from /\ ~(pos = r.from /\ LenOf(a) = 0)
FilterPiece(a, pos, ranges, out, kept, inside, len) ==
  FilterOn(Forward(a, len), pos + len, ranges,
           Section(out, IF inside THEN Keep(len) ELSE PieceOf(a, len)),
           Section(kept, IF inside THEN PieceOf(a, len) ELSE Keep(len)))
FilterTo(a, pos, ranges, out, kept, inside, end) ==
  IF inside /\ pos >= end THEN FilterOn(a, pos, Tail(ranges), out, kept)
  ELSE FilterPiece(a, pos, ranges, out, kept, inside, Least(LenOf(a), end - pos))
FilterOn(a, pos, ranges, out, kept) ==
  IF Done(a) THEN [changes |-> out, filtered |-> kept]
  ELSE IF ranges = <<>> THEN FilterTo(a, pos, ranges, out, kept, FALSE, pos + LenOf(a))
  ELSE IF FallsIn(a, pos, Head(ranges)) THEN FilterTo(a, pos, ranges, out, kept, TRUE, Head(ranges).to)
  ELSE FilterTo(a, pos, ranges, out, kept, FALSE, Head(ranges).from)
Filter(c, ranges) == FilterOn(Iter(c), 0, ranges, <<>>, <<>>)

(* of: a list of changes of one document, each range as the document was; a   *)
(* range before the one read last, or a whole set, starts a new set, which is *)
(* mapped over what came before it.                                           *)
Added(st, set) ==
  [set |-> <<>>, pos |-> 0, some |-> TRUE,
   total |-> IF st.some THEN Compose(st.total, MapSet(set, st.total, FALSE)) ELSE set]
Flushed(st, length) ==
  IF st.set = <<>> THEN st ELSE Added(st, Section(st.set, Keep(length - st.pos)))
Placed(st, spec) ==
  [st EXCEPT !.set = Section(Section(@, Keep(spec.from - st.pos)), Put(spec.to - spec.from, spec.insert)),
             !.pos = spec.to]
StartsAnew(st, spec) == "set" \in DOMAIN spec \/ spec.from < st.pos
ProcessedOn(st, spec) == IF "set" \in DOMAIN spec THEN Added(st, spec.set) ELSE Placed(st, spec)
Processed(st, spec, length) ==
  IF "set" \notin DOMAIN spec /\ spec.from = spec.to /\ spec.insert = <<>> THEN st
  ELSE ProcessedOn(IF StartsAnew(st, spec) THEN Flushed(st, length) ELSE st, spec)
RECURSIVE OfOn(_, _, _)
OfOn(st, specs, length) ==
  IF specs # <<>> THEN OfOn(Processed(st, Head(specs), length), Tail(specs), length)
  ELSE Flushed(st, length)
Total(st, length) == IF st.some THEN st.total ELSE EmptySet(length)
Of(specs, length) == Total(OfOn([set |-> <<>>, pos |-> 0, some |-> FALSE, total |-> <<>>], specs, length), length)
=============================================================================
