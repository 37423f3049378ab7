--------------------------- MODULE MCSequenceEditor --------------------------
(* The parts of the sequence editor (the bundled CodeMirror), one instance    *)
(* each.  The part of a behaviour is chosen at its start, and the others stay *)
(* at rest: each is exercised alone, to its own bounds.                       *)
EXTENDS EditorStates, EditorHistory, EditorText, EditorCycle, EditorCompletion,
        LrParser, EditorConfig, RangeSets, EditorHeights, EditorCommands

VARIABLE part    \* the part of this behaviour
documents == <<pairVars, stateVars, historyVars, textVars>>
viewPart == <<cycleVars, heightVars, rangeVars>>
language == <<parserVars, completionVars>>
partVars == <<documents, viewPart, language, configVars, commandVars, part>>

PartsInit ==
  /\ part \in {"pairs", "states", "history", "text", "cycle", "completion", "parser", "config",
               "ranges", "heights", "commands"}
  /\ PairInit /\ StatesInit /\ HistoryInit /\ TextInit /\ CycleInit /\ CompletionInit /\ ParserInit /\ ConfigInit
  /\ heightText \in {d \in DOMAIN TextChanges : part # "heights" => d = <<>>} /\ HeightInit
  /\ RangeInit /\ (part # "ranges" => layers = <<>>)
  /\ IF part = "commands" THEN CommandsInit
     ELSE command = "none" /\ commandDoc = (CHOOSE d \in CommandDocs : TRUE) /\ commandSel = Single(0, 0)

PartsNext ==
  /\ UNCHANGED part
  /\ \/ part = "pairs" /\ PairNext
        /\ UNCHANGED <<stateVars, historyVars, textVars, viewPart, language, configVars, commandVars>>
     \/ part = "states" /\ StatesNext
        /\ UNCHANGED <<pairVars, historyVars, textVars, viewPart, language, configVars, commandVars>>
     \/ part = "history" /\ HistoryNext
        /\ UNCHANGED <<pairVars, stateVars, textVars, viewPart, language, configVars, commandVars>>
     \/ part = "text" /\ TextNext
        /\ UNCHANGED <<pairVars, stateVars, historyVars, viewPart, language, configVars, commandVars>>
     \/ part = "cycle" /\ CycleNext
        /\ UNCHANGED <<heightVars, rangeVars, documents, language, configVars, commandVars>>
     \/ part = "heights" /\ HeightNext
        /\ UNCHANGED <<cycleVars, rangeVars, documents, language, configVars, commandVars>>
     \/ part = "ranges" /\ RangeNext
        /\ UNCHANGED <<cycleVars, heightVars, documents, language, configVars, commandVars>>
     \/ part = "parser" /\ ParserNext
        /\ UNCHANGED <<completionVars, documents, viewPart, configVars, commandVars>>
     \/ part = "completion" /\ CompletionNext
        /\ UNCHANGED <<parserVars, documents, viewPart, configVars, commandVars>>
     \/ part = "config" /\ ConfigNext /\ UNCHANGED <<documents, viewPart, language, commandVars>>
     \/ part = "commands" /\ CommandsNext /\ UNCHANGED <<documents, viewPart, language, configVars>>

PartsSpec == PartsInit /\ [][PartsNext]_partVars
----------------------------------------------------------------------------
MCInserts == {<<<<>>>>, <<<<1>>>>, <<<<>>,<<>>>>, <<<<1>>,<<>>,<<>>,<<>>>>}

(* Documents of up to three lines: with letters, blank, indented, commented,  *)
(* with brackets.                                                             *)
MCDocs == {<<1, 2, -1, 3>>, <<1, -1, 2, -1, 3>>, <<-2, -2, 1, -1, -2>>, <<-3, -2, 1, -1, 2>>, <<-2, -4, -5, 1>>, <<1, -1, -1>>}

(* Lines with a high and a replaced character, in units of half a line.       *)
MCTextChanges == [d \in {<<2, 0, 0, 3, 0, 0, 1>>, <<3, 0, 2>>, <<>>} |->
                    IF Len(d) > 4 THEN 1 ELSE IF d = <<>> THEN 0 ELSE 2]
MCTyped == {<<>>, <<1, 0, 2>>}

(* Marks, widgets and replaced characters, with the sides the editor uses.    *)
MCKinds ==
  [mark |-> [startSide |-> 1, endSide |-> -1, point |-> FALSE, empty |-> FALSE],
   widget |-> [startSide |-> 0, endSide |-> 0, point |-> TRUE, empty |-> TRUE],
   replace |-> [startSide |-> 1, endSide |-> -1, point |-> TRUE, empty |-> FALSE]]

(* A configuration of two compartments, a field that provides a facet and     *)
(* facets that depend on the selection, on a field and on each other.         *)
MCNodes ==
  "base" :> [is |-> "list", items |-> <<"first", "late", "static", "b_doc">>]
  @@ "first" :> [is |-> "compartment", compartment |-> "one", inner |-> "field"]
  @@ "late" :> [is |-> "prec", prec |-> Fallback, inner |-> "second"]
  @@ "second" :> [is |-> "compartment", compartment |-> "two", inner |-> "none"]
  @@ "none" :> [is |-> "list", items |-> <<>>]
  @@ "field" :> [is |-> "field"]
  @@ "counted" :> [is |-> "field"]
  @@ "looks" :> [is |-> "list", items |-> <<"b_of_a", "counted">>]
  @@ "again" :> [is |-> "list", items |-> <<"a_sel", "second", "static">>]
  @@ "static" :> [is |-> "provider"] @@ "from" :> [is |-> "provider"] @@ "a_sel" :> [is |-> "provider"]
  @@ "b_doc" :> [is |-> "provider"] @@ "b_of_a" :> [is |-> "provider"] @@ "cycle" :> [is |-> "provider"]
  @@ "start" :> [is |-> "provider"]
MCFacetOf ==
  "static" :> "A" @@ "from" :> "A" @@ "a_sel" :> "A" @@ "cycle" :> "A" @@ "b_doc" :> "B" @@ "b_of_a" :> "B"
  @@ "start" :> "init"
MCKindOf ==
  "static" :> "Static" @@ "from" :> "Single" @@ "a_sel" :> "Single" @@ "b_doc" :> "Single" @@ "b_of_a" :> "Multi"
  @@ "cycle" :> "Single" @@ "start" :> "Static"
MCDependsOn ==
  "static" :> {} @@ "from" :> {"field"} @@ "a_sel" :> {"selection"} @@ "b_doc" :> {"doc"} @@ "b_of_a" :> {"A"}
  @@ "cycle" :> {"B"} @@ "start" :> {}
MCStaticOf == "static" :> 7 @@ "start" :> [field |-> "counted", value |-> 2]
MCReads(f) == IF f = "counted" THEN {"A"} ELSE {}
MCFirst == "field" :> 0 @@ "counted" :> 0
MCUpdateF(f, old, changed, view) ==
  IF f = "counted" THEN (old + Len(view.at["A"])) % 3 ELSE IF changed THEN 1 - old ELSE old
MCGetter(p, view) ==
  CASE p = "from" -> view.at["field"]
    [] p = "a_sel" -> view.sel
    [] p = "b_doc" -> view.doc % 2
    [] p = "b_of_a" -> SelectSeq(view.at["A"], LAMBDA v : v > 0)
    [] p = "cycle" -> Len(view.at["B"])
MCProvides == "field" :> <<"from">> @@ "counted" :> <<>>
MCEnables == "A" :> <<"b_doc">> @@ "B" :> <<>> @@ "init" :> <<>>
MCSecond == {[is |-> "compartment", compartment |-> "one", content |-> "looks"]}

(* The tables of the sequence language, decoded from the arrays in which the  *)
(* bundle holds them (code-mirror.es.js:20646-20657).  The tokens are those   *)
(* that R, C, 0, quotes, semicolon, blank and line end can form.              *)
NL == "nl"
Quote == "'"
Nothing == [kind |-> "none", to |-> 0, goto |-> FALSE, term |-> 0, depth |-> 0, repeat |-> FALSE, stay |-> FALSE]
Sh(to) == [Nothing EXCEPT !.kind = "shift", !.to = to]
Into(to) == [Sh(to) EXCEPT !.goto = TRUE]
Red(term, depth, stay, repeat) ==
  [Nothing EXCEPT !.kind = "reduce", !.term = term, !.depth = depth, !.stay = stay, !.repeat = repeat]
State(skipped, accepting, mask, default, force, actions, skips) ==
  [skipped |-> skipped, accepting |-> accepting, mask |-> mask, default |-> default, force |-> force,
   actions |-> actions, skips |-> skips]
Comment == <<<<1, Into(1)>>>>
Args(end) == <<<<7, Sh(9)>>, <<8, Sh(9)>>, <<9, Sh(9)>>, <<10, Sh(9)>>, <<16, Sh(end)>>>>
Line == <<<<4, Sh(2)>>, <<16, Sh(3)>>>>
Always(term, depth, repeat) ==
  State(FALSE, FALSE, {}, Red(term, depth, FALSE, repeat), Red(term, depth, FALSE, repeat), <<>>, Comment)
MCTable ==
  0 :> State(FALSE, TRUE, {0}, Nothing, Nothing, Line, Comment) @@
  1 :> State(TRUE, FALSE, {0}, Nothing, Nothing, <<<<1, Sh(5)>>>>, <<>>) @@
  2 :> State(FALSE, FALSE, {0}, Nothing, Red(3, 1, FALSE, FALSE), <<<<5, Sh(6)>>>>, Comment) @@
  3 :> Always(11, 1, FALSE) @@
  4 :> State(FALSE, TRUE, {0}, Nothing, Nothing, Line, Comment) @@
  5 :> State(TRUE, FALSE, {0}, Nothing, Red(14, 1, TRUE, FALSE), <<<<15, Sh(8)>>>>, <<>>) @@
  6 :> State(FALSE, FALSE, {1}, Nothing, Red(3, 2, FALSE, FALSE), Args(12), Comment) @@
  7 :> Always(11, 2, TRUE) @@
  8 :> State(TRUE, FALSE, {}, Red(14, 2, TRUE, FALSE), Red(14, 2, TRUE, FALSE), <<>>, <<>>) @@
  9 :> Always(6, 1, FALSE) @@
  10 :> Always(12, 1, FALSE) @@
  11 :> State(FALSE, FALSE, {1}, Nothing, Red(3, 3, FALSE, FALSE), Args(14), Comment) @@
  12 :> Always(3, 3, FALSE) @@
  13 :> Always(12, 2, TRUE) @@
  14 :> Always(3, 4, FALSE)
MCGoto ==
  3 :> [some |-> <<>>, rest |-> 3] @@ 6 :> [some |-> <<>>, rest |-> 10] @@
  11 :> [some |-> <<<<0, 4>>>>, rest |-> 7] @@ 12 :> [some |-> <<<<6, 11>>>>, rest |-> 13]

Reads(groups, accepts, edges) == [groups |-> groups, accepts |-> accepts, edges |-> edges]
AllGroups == {0, 1}
Word(more) == Reads(AllGroups, <<<<8, {1}>>>>, more \o <<<<{"."}, 12>>, <<{"R", "C", "0"}, 8>>>>)
Only(char, next) == Reads({0}, <<>>, <<<<{char}, next>>>>)
MCTokens ==
  0 :> Reads(AllGroups, <<>>, <<<<{NL}, 1>>, <<{Quote}, 2>>, <<{"0"}, 5>>, <<{";"}, 6>>, <<{"C"}, 8>>, <<{"R"}, 9>>>>) @@
  1 :> Reads(AllGroups, <<<<16, AllGroups>>>>, <<>>) @@
  2 :> Reads(AllGroups, <<>>, <<<<{"R", "C", "0", ".", ":", ";", " ", NL}, 2>>, <<{Quote}, 10>>>>) @@
  5 :> Reads(AllGroups, <<<<9, AllGroups>>>>, <<<<{"0"}, 5>>>>) @@
  6 :> Reads(AllGroups, <<<<1, AllGroups>>>>, <<<<{"R", "C", "0", ".", ":", ";", " ", Quote}, 6>>>>) @@
  8 :> Word(<<>>) @@ 9 :> Word(<<<<{"0"}, 14>>>>) @@ 14 :> Word(<<<<{"0"}, 17>>>>) @@
  17 :> Word(<<<<{":"}, 19>>>>) @@
  10 :> Reads(AllGroups, <<<<7, AllGroups>>>>, <<>>) @@
  12 :> Reads({0}, <<>>, <<<<{"R", "C"}, 15>>>>) @@
  15 :> Reads({0}, <<<<5, {0}>>>>, <<<<{"R", "C", "0"}, 15>>>>) @@
  19 :> Only("0", 21) @@ 21 :> Only("0", 22) @@ 22 :> Only(":", 23) @@ 23 :> Only("0", 24) @@
  24 :> Only("0", 25) @@ 25 :> Reads({0}, <<<<4, {0}>>>>, <<>>)

Time == <<"R", "0", "0", ":", "0", "0", ":", "0", "0">>
MCLexemes == <<Time, <<" ", "C", ".", "C">>, <<" ", "0">>, <<";">>, <<NL>>>>
Statement == 3
TimeTag == 4
Command == 5
Arg == 6
----------------------------------------------------------------------------
(* The grammar skips no blanks: every blank of a line is an error that the    *)
(* recovery has to delete.  A well-formed line is still one statement with    *)
(* its time tag, its command and its arguments, where they were typed.        *)
PlaceOfLexeme(i) == Len(FlattenSeq([j \in 1..i - 1 |-> Lexemes[lexemes[j]]]))
EndOfLexeme(i) == PlaceOfLexeme(i) + Len(Lexemes[lexemes[i]])
WellFormed(i, j) == lexemes[i] = 1 /\ lexemes[i + 1] = 2 /\ lexemes[j] = 5
                    /\ \A k \in i + 2..j - 1 : lexemes[k] = 3
LineStarts(i) == i = 1 \/ lexemes[i - 1] = 5
Has(id, start, end) == \E n \in DOMAIN nodes : nodes[n].id = id /\ nodes[n].start = start /\ nodes[n].end = end
StatementsFound ==
  nodes # NoNodes =>
    \A i \in DOMAIN lexemes : \A j \in i + 2..Len(lexemes) :
      LineStarts(i) /\ WellFormed(i, j) =>
        /\ Has(Statement, PlaceOfLexeme(i), EndOfLexeme(j))
        /\ Has(TimeTag, PlaceOfLexeme(i), EndOfLexeme(i))
        /\ Has(Command, PlaceOfLexeme(i + 1) + 1, EndOfLexeme(i + 1))
        /\ \A k \in i + 2..j - 1 : Has(Arg, PlaceOfLexeme(k) + 1, EndOfLexeme(k))

(* The properties of a part are asked of its own behaviours: elsewhere it is  *)
(* at rest, in a state its own behaviours start in.                           *)

(* Changes of one document converge in either order and come apart and        *)
(* together again, the tree of the text holds what they make, and the         *)
(* commands that make them keep the text they are not about (ChangeSet, Text, *)
(* moveLine, indentMore and their like).                                      *)
DocumentsAgree ==
  /\ [](/\ part = "pairs" => Converge /\ Undoes /\ MapsInOrder /\ FilterSplits
        /\ part = "text" => TreeHoldsText /\ LeavesSmall /\ LinesFound /\ SlicesMatch)
  /\ CommandsKeepText

(* What the user and others change and select together all takes effect,      *)
(* undoing takes back what the user did and no more, and a state's values are *)
(* those its configuration, its document and the values before it make        *)
(* (Transaction, HistoryState, EditorState.changeByRange, create and          *)
(* applyTransaction).                                                         *)
StatesCurrent ==
  /\ [](/\ part = "states" => SelectionFits /\ EffectStays /\ BothTakeEffect
        /\ part = "history" => BranchesFit /\ OwnOnly
        /\ part = "config" => NeverStale /\ OnceEach)
  /\ ComposesAsSteps /\ TypedAtEach /\ Stable /\ FieldsCarriedOver /\ CompartmentsKept

(* Decorations, heights and viewport stay those of the text under changes,    *)
(* measurements and scrolls (RangeSet, HeightMap, ViewState).                 *)
LayoutHolds ==
  /\ [](part = "ranges" => LayersOrdered /\ HoldsRanges /\ SpansCover /\ ChangesSeen)
  /\ [](part = "heights" => MapFitsText /\ HeightsAsDrawn /\ ViewportWhole)
  /\ Shows

(* What the editor reads in a text and offers for it are of that text: the    *)
(* tree of a parse nests and has every well-formed statement, and completions *)
(* fit where they are taken (Parse, completionState).                         *)
LanguageFits ==
  [](part = "parser" => NamedNest /\ StatementsFound) /\ CompletionsFit
=============================================================================
