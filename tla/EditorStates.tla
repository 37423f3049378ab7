---------------------------- MODULE EditorStates ----------------------------
(* EditorState: a document and its selection, changed by transactions that    *)
(* are put together from several specs or from a change of each range.  Every *)
(* character typed is new, so that a position can be followed.  Below it, two  *)
(* change sets of one document, mapped over each other.                       *)
EXTENDS EditorTransactions, FiniteSets

CONSTANTS StateLength,     \* characters of the first document
          MaxUpdates, MaxRanges
VARIABLES doc, sel,
          specsDue,           \* of the last update with two specs: see UpdateWithTwo
          updates, chosen  \* updates made, and whether a selection was since
stateVars == <<doc, sel, specsDue, updates, chosen>>

FirstDoc == [i \in 1 .. StateLength |-> i]
NewChar(n) == 100 + 10 * updates + n
Edit(from, to, insert) == [from |-> from, to |-> to, insert |-> insert]
EditedDoc(d, e) == Replaced(d, e.from, e.to, e.insert)
RemovedChars(d, e) == Range(SubSeq(d, e.from + 1, e.to))
Swallowed(e, other) == IF other.from < e.from /\ e.to < other.to THEN Range(e.insert) ELSE {}
UpdateTo(tr) == doc' = Apply(tr.changes, doc) /\ sel' = NewSelection(tr, sel)
NothingDue == [own |-> <<>>, at |-> 0, mark |-> <<>>, want |-> {}]

StatesInit ==
  /\ doc = FirstDoc /\ sel = Single(0, 0) /\ specsDue = NothingDue /\ updates = 0 /\ chosen = FALSE

(* A selection of up to MaxRanges ranges, in any order, one of them the main, *)
(* for an update to come.                                                     *)
RangesOf(length) == {Ranged(a, h) : a \in 0 .. length, h \in 0 .. length}
ChooseRanges ==
  /\ ~chosen /\ updates < MaxUpdates /\ chosen' = TRUE
  /\ \E n \in 1 .. MaxRanges : \E main \in 1 .. n, ranges \in [1 .. n -> RangesOf(Len(doc))] :
       sel' = Create(ranges, main)
  /\ UNCHANGED <<doc, specsDue, updates>>

(* Every range is replaced, by a text of its own or by nothing.               *)
CountUpdate == updates < MaxUpdates /\ updates' = updates + 1 /\ chosen' = FALSE
TextsFor(some) == [i \in DOMAIN sel.ranges |-> IF some THEN <<NewChar(2 * i), NewChar(2 * i + 1)>> ELSE <<>>]
ReplaceRanges ==
  /\ CountUpdate
  /\ \E some \in BOOLEAN : UpdateTo(ReplaceSelection(sel, TextsFor(some), Len(doc)))
  /\ specsDue' = NothingDue

(* Two specs, both written for this document; the second places the cursor    *)
(* and an effect in the result it expects.                                    *)
TwoSpecs(a, b, at) ==
  Resolved(<<[NoSpec EXCEPT !.changes = <<a>>],
             [NoSpec EXCEPT !.changes = <<b>>, !.effects = <<at>>, !.selection = <<Single(at, at)>>]>>, Len(doc))
EditsIn(n) ==
  {e \in {Edit(f, t, s) : f \in 0 .. Len(doc), t \in 0 .. Len(doc), s \in {<<>>, <<NewChar(n)>>}} : e.from <= e.to}
UpdateWithTwo ==
  /\ CountUpdate /\ ~chosen
  /\ \E a \in EditsIn(1), b \in EditsIn(2) : \E at \in 0 .. Len(EditedDoc(doc, b)) :
       \E tr \in {TwoSpecs(a, b, at)} :
          /\ UpdateTo(tr)
          /\ specsDue' = [own |-> EditedDoc(doc, b), at |-> at, mark |-> tr.effects,
                       want |-> (Range(EditedDoc(doc, a)) \cup Range(EditedDoc(doc, b)))
                                \ (RemovedChars(doc, a) \cup RemovedChars(doc, b) \cup Swallowed(a, b) \cup Swallowed(b, a))]
StatesNext == ChooseRanges \/ ReplaceRanges \/ UpdateWithTwo
----------------------------------------------------------------------------
(* What checkSelection and the views rely on: the ranges lie in the document, *)
(* in order, apart from each other, and the main one is one of them.          *)
SelectionFits ==
  /\ Inside(sel, Len(doc)) /\ sel.main \in DOMAIN sel.ranges
  /\ \A i \in DOMAIN sel.ranges \ {1} : ~Meets(sel.ranges[i - 1], sel.ranges[i])

(* Typing over several ranges at once is what typing over each of them is:    *)
(* each text is where its range was, with the cursor of that range behind it. *)
Outside(ranges) == SelectSeq([i \in DOMAIN doc |-> i],
                             LAMBDA i : \A r \in DOMAIN ranges : i <= ranges[r].from \/ i > ranges[r].to)
TypedAtEach ==
  [][<<doc, sel>>' # <<doc, sel>> /\ ReplaceRanges =>
       LET kept == Outside(sel.ranges)
       IN /\ SelectSeq(doc', LAMBDA ch : \E i \in DOMAIN kept : doc[kept[i]] = ch) = [i \in DOMAIN kept |-> doc[kept[i]]]
          /\ \A r \in DOMAIN sel.ranges :
               LET before == Cardinality({i \in DOMAIN kept : kept[i] <= sel.ranges[r].from})
               IN Len(doc') > Len(kept) =>
                    /\ doc'[before + 2 * r] = NewChar(2 * r + 1)
                    /\ r \in DOMAIN sel'.ranges /\ sel'.ranges[r] = Cursor(before + 2 * r)]_stateVars

(* Specs dispatched together all take effect: what either removes is gone,    *)
(* what either adds is there once, unless the other one removes the text      *)
(* around it.                                                                 *)
BothTakeEffect ==
  specsDue # NothingDue => Range(doc) = specsDue.want /\ Len(doc) = Cardinality(specsDue.want)

(* An effect stays with the character it was placed behind, in the document   *)
(* that its own spec expected, as long as that character is there.            *)
EffectStays ==
  specsDue.mark # <<>> /\ specsDue.at > 0 /\ specsDue.own[specsDue.at] \in Range(doc) =>
    doc[specsDue.mark[1]] = specsDue.own[specsDue.at]
-----------------------------------------------------------------------------
(* Two change sets of one document, as a transaction with several changes,    *)
(* the history and the marks of the editor hold them: each grows by changes   *)
(* of the document it makes, and each can be mapped over the other.           *)
CONSTANTS PairLength,     \* characters of the document
          OneEdits, TwoEdits   \* changes each set takes at most
VARIABLES one, two,       \* the sets
          oneLeft, twoLeft
pairVars == <<one, two, oneLeft, twoLeft>>

PairDoc == [i \in 1 .. PairLength |-> i]
EditsOf(length, tag) ==
  {s \in [from : 0 .. length, to : 0 .. length, insert : {<<>>, <<tag>>}] : s.from <= s.to /\ s.to <= s.from + 2}

PairInit ==
  /\ one = EmptySet(PairLength) /\ two = EmptySet(PairLength)
  /\ oneLeft = OneEdits /\ twoLeft = TwoEdits
ChangeOne ==
  /\ oneLeft > 0 /\ oneLeft' = oneLeft - 1
  /\ \E s \in EditsOf(NewLength(one), 10 + oneLeft) : one' = Compose(one, Of(<<s>>, NewLength(one)))
  /\ UNCHANGED <<two, twoLeft>>
ChangeTwo ==
  /\ oneLeft = 0 /\ twoLeft > 0 /\ twoLeft' = twoLeft - 1
  /\ \E s \in EditsOf(NewLength(two), 20 + twoLeft) : two' = Compose(two, Of(<<s>>, NewLength(two)))
  /\ UNCHANGED <<one, oneLeft>>
PairNext == ChangeOne \/ ChangeTwo
----------------------------------------------------------------------------
Whole(c, length) == c # Mismatched /\ Length(c) = length

(* Each set mapped over the other, one of them giving way where both insert,  *)
(* leads to the same document: whichever of the two an actor applied first,   *)
(* and composed into one set or applied one after the other.                  *)
Converge ==
  LET oneAfter == MapSet(one, two, TRUE)   twoAfter == MapSet(two, one, FALSE)
  IN /\ Whole(oneAfter, NewLength(two)) /\ Whole(twoAfter, NewLength(one))
     /\ Apply(Compose(one, twoAfter), PairDoc) = Apply(Compose(two, oneAfter), PairDoc)
     /\ Apply(twoAfter, Apply(one, PairDoc)) = Apply(oneAfter, Apply(two, PairDoc))
     /\ Compose(one, twoAfter) # Mismatched /\ Compose(two, oneAfter) # Mismatched

(* A composed set does what its steps did, in their order.                    *)
ComposesAsSteps ==
  [][oneLeft' < oneLeft => \A s \in EditsOf(NewLength(one), 10 + oneLeft) :
       one' = Compose(one, Of(<<s>>, NewLength(one))) =>
         Apply(one', PairDoc) = Apply(Of(<<s>>, NewLength(one)), Apply(one, PairDoc))]_pairVars

(* The inverse the history stores gives the document back.                    *)
Undoes == Apply(Invert(one, PairDoc), Apply(one, PairDoc)) = PairDoc

(* Positions keep their order when they are mapped, and a position that leans *)
(* back never ends behind the same one leaning forward.                       *)
MapsInOrder ==
  ~IsEmpty(one) => \A p \in 0 .. PairLength, q \in 0 .. PairLength, b \in {-1, 1} :
    p <= q => MapPos(one, p, b) <= MapPos(one, q, b) /\ MapPos(one, p, -1) <= MapPos(one, p, 1)

(* A set split by a protected range loses nothing: the part that is kept does *)
(* not reach into the range, the part filtered out stays within it, and what  *)
(* the one does not add the other does.                                       *)
FilterSplits ==
  ~IsEmpty(one) => \A f \in 0 .. PairLength, t \in 0 .. PairLength :
    f < t =>
      LET split == Filter(one, <<[from |-> f, to |-> t]>>)
      IN /\ Whole(split.changes, PairLength) /\ Whole(split.filtered, PairLength)
         /\ \A r \in Range(Changed(split.changes, TRUE)) : r.toA <= f \/ r.fromA >= t
         /\ \A r \in Range(Changed(split.filtered, TRUE)) : f <= r.fromA /\ r.toA <= t
         /\ NewLength(split.changes) + NewLength(split.filtered) = NewLength(one) + PairLength
=============================================================================
