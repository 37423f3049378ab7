------------------------------ MODULE Matching ------------------------------
(* What the tables of the web page make of typed text (vue-support/utils.js): *)
(* the words of a filter, which items they let through, and the words of an   *)
(* attribute with quoted parts.  An item is the set of words its string       *)
(* contains.                                                                  *)
EXTENDS Naturals, Sequences, SequencesExt, FiniteSets

CONSTANTS Words, MaxWords, MaxChars

Or == "-or-"
Items == SUBSET Words

VARIABLES words,   \* what is typed in a filter box, split at its spaces
          attr     \* an attribute, character by character
matchVars == <<words, attr>>
----------------------------------------------------------------------------
(* preprocess_matchings: an ANDed list of ORed lists.  The list starts with   *)
(* an empty one, which takes the word after a leading -or-; empty lists go.   *)
PushOr(acc, w) ==
  CASE w = Or -> [acc EXCEPT !.oring = TRUE]
    [] w # Or /\ acc.oring ->
         [oring |-> FALSE,
          lists |-> [acc.lists EXCEPT ![Len(acc.lists)] = Append(@, w)]]
    [] OTHER -> [acc EXCEPT !.lists = Append(@, <<w>>)]
ORedLists(ws) ==
  SelectSeq(FoldLeft(PushOr, [oring |-> FALSE, lists |-> <<<<>>>>], ws).lists,
            LAMBDA l : l # <<>>)

(* filter: an item stays when every list has a word it contains.              *)
Filter(items, ws) ==
  {item \in items : \A k \in DOMAIN ORedLists(ws) :
                       ToSet(ORedLists(ws)[k]) \cap item # {}}

(* attributeStringToList: the quoted parts are taken out of the text first    *)
(* and their quotes dropped; what is left is split at its spaces, and the     *)
(* quoted parts follow.                                                       *)
Places(s, P(_)) == SelectSeq([i \in DOMAIN s |-> i], P)
Quotes(s) == Places(s, LAMBDA i : s[i] = "'")
QuotedPart(s) == {q \in 1 .. Len(Quotes(s)) - 1 : q % 2 = 1}
Unquoted(s) ==
  {i \in DOMAIN s : \A q \in QuotedPart(s) : i < Quotes(s)[q] \/ i > Quotes(s)[q + 1]}
Split(s) ==
  LET gaps == <<0>> \o Places(s, LAMBDA i : s[i] = "_") \o <<Len(s) + 1>>
  IN [k \in 1 .. Len(gaps) - 1 |-> SubSeq(s, gaps[k] + 1, gaps[k + 1] - 1)]
AttributeList(s) ==
  LET places == Places(s, LAMBDA i : i \in Unquoted(s))
      kept == [k \in DOMAIN places |-> s[places[k]]]
      inner == [k \in 1 .. Cardinality(QuotedPart(s)) |->
                  SubSeq(s, Quotes(s)[2 * k - 1] + 1, Quotes(s)[2 * k] - 1)]
  IN SelectSeq(Split(kept) \o inner, LAMBDA w : w # <<>>)
----------------------------------------------------------------------------
(* A user types.                                                              *)
MatchInit == words = <<>> /\ attr = <<>>
TypeWord(w) == Len(words) < MaxWords /\ words' = Append(words, w) /\ UNCHANGED attr
TypeChar(c) == Len(attr) < MaxChars /\ attr' = Append(attr, c) /\ UNCHANGED words
MatchNext == \/ words = <<>> /\ \E c \in {"a", "b", "'", "_"} : TypeChar(c)
             \/ attr = <<>> /\ \E w \in Words \cup {Or} : TypeWord(w)
----------------------------------------------------------------------------
(* Two words belong together when an -or- stands between them and everything  *)
(* between the first and the second is linked that way.                       *)
Typed == {i \in DOMAIN words : words[i] # Or}
Linked(i, j) ==
  /\ i <= j
  /\ \A k \in Typed : i < k /\ k <= j => words[k - 1] = Or
Chained(i, j) == Linked(i, j) \/ Linked(j, i)

(* A filter shows exactly the items in which every group of words joined by   *)
(* -or- has a word, wherever the -or- stand: leading, trailing or repeated    *)
(* ones do not hide an item or let one through (utils.js:29).                 *)
FilterMeans ==
  Filter(Items, words) =
    {item \in Items : \A i \in Typed : \E j \in Typed : Chained(i, j) /\ words[j] \in item}

(* A further word never shows an item that was hidden, and a further          *)
(* alternative never hides one that was shown.                                *)
FilterMonotone ==
  [][\A w \in Words :
       /\ words' = Append(words, w) /\ (words = <<>> \/ Last(words) # Or)
            => Filter(Items, words') \subseteq Filter(Items, words)
       /\ words' = Append(words, w) /\ words # <<>> /\ Last(words) = Or /\ Typed # {}
            => Filter(Items, words) \subseteq Filter(Items, words')]_matchVars

(* An attribute whose quotes stand at the borders of its words loses no word: *)
(* it lists each unquoted word and each quoted part, and nothing else.        *)
AttrSeparated ==
  /\ Len(Quotes(attr)) % 2 = 0
  /\ \A q \in DOMAIN Quotes(attr) :
       LET i == Quotes(attr)[q] IN
       IF q % 2 = 1 THEN i = 1 \/ attr[i - 1] = "_"
       ELSE i = Len(attr) \/ attr[i + 1] = "_"
AttrWord(i, j) ==
  /\ i <= j
  /\ IF attr[i] = "'"
     THEN \E q \in QuotedPart(attr) : Quotes(attr)[q] = i /\ Quotes(attr)[q + 1] = j /\ j > i + 1
     ELSE /\ i .. j \subseteq Unquoted(attr)
          /\ \A k \in i .. j : attr[k] # "_"
          /\ i = 1 \/ attr[i - 1] = "_"
          /\ j = Len(attr) \/ attr[j + 1] = "_"
AttrLists ==
  AttrSeparated =>
    ToSet(AttributeList(attr)) =
      {IF attr[w[1]] = "'" THEN SubSeq(attr, w[1] + 1, w[2] - 1) ELSE SubSeq(attr, w[1], w[2]) :
         w \in {p \in (1 .. Len(attr)) \X (1 .. Len(attr)) : AttrWord(p[1], p[2])}}
=============================================================================
