-------------------------- MODULE SequenceCompletion --------------------------
(* What the sequence editor offers to complete (sequencer/autocomplete.js) at *)
(* a token of a statement, with the tree of a statement that parses: a        *)
(* Statement over a TimeTag, a Command and its Args, one leaf under an Arg.   *)
EXTENDS Integers, Sequences, SequencesExt, FiniteSets

CONSTANTS Commands,         \* name -> types of the arguments, "Enum" or another
          CommandWords,     \* words a Command may be, known or not
          MaxTokens
Leaves == {"Number", "Name"}        \* the node under an Arg

VARIABLES statement,    \* its tokens: the kind, and the word of a Command or the leaf of an Arg
          cursor        \* the token it is in, or 0 on a blank between two
completionVars == <<statement, cursor>>

Node(kind, index) == [name |-> kind, index |-> index]
Kind(i) == statement[i].kind
----------------------------------------------------------------------------
(* resolve: the innermost node; matching_node_parent; sibling_list.           *)
Base == CASE cursor = 0 -> Node("Statement", 0)
          [] cursor # 0 /\ Kind(cursor) = "Arg" -> Node(statement[cursor].word, cursor)
          [] OTHER -> Node(Kind(cursor), cursor)
SiblingList(i) == Reverse([k \in 1 .. (IF i = 0 THEN 0 ELSE i - 1) |-> Node(Kind(k), k)])
NamedIn(siblings, names) == siblings # <<>> /\ siblings[1].name \in names

(* results: the labels of an enumeration, and a template of what is left.     *)
ArgsTemplate(args, index) == SubSeq(args, index + 1, Len(args))
Results(command, index) ==
  LET args == IF command \in DOMAIN Commands THEN Commands[command] ELSE <<>>
  IN [options |-> IF index < Len(args) /\ args[index + 1] = "Enum" THEN "labels" ELSE "none",
      template |-> ArgsTemplate(args, index)]
CommandPlace(siblings) ==
  CHOOSE k \in DOMAIN siblings : siblings[k].name = "Command"
                              /\ \A j \in 1 .. (k - 1) : siblings[j].name # "Command"
ArgIndex(siblings) == CommandPlace(siblings) - 1
NoOffer == [options |-> "null", template |-> <<>>]
AutoArg(siblings) ==
  IF \A k \in DOMAIN siblings : siblings[k].name # "Command" THEN NoOffer
  ELSE Results(statement[siblings[CommandPlace(siblings)].index].word, ArgIndex(siblings))

Autocomplete(base, siblings) ==
  CASE base.name = "Command" \/ NamedIn(siblings, {"TimeTag"}) ->
         [options |-> "commands", template |-> <<>>]
    [] base.name # "Command" /\ NamedIn(siblings, {"Command", "Arg"}) -> AutoArg(siblings)
    [] base.name # "Command" /\ siblings = <<>> -> [options |-> "time tags", template |-> <<>>]
SemanticComplete == Autocomplete(Base, SiblingList(cursor))
----------------------------------------------------------------------------
(* The text is typed, and the cursor goes anywhere.                           *)
CompletionInit == statement = <<[kind |-> "TimeTag", word |-> "tag"]>> /\ cursor = 1
TypeToken(t) ==
  /\ Len(statement) < MaxTokens
  /\ IF Len(statement) = 1 THEN t.kind = "Command" ELSE t.kind = "Arg"
  /\ statement' = Append(statement, t) /\ cursor' = Len(statement)
MoveCursor(i) == cursor' = i /\ i # cursor /\ UNCHANGED statement
CompletionNext ==
  \/ \E w \in CommandWords : TypeToken([kind |-> "Command", word |-> w])
  \/ \E l \in Leaves : TypeToken([kind |-> "Arg", word |-> l])
  \/ \E i \in 0 .. Len(statement) : MoveCursor(i)
----------------------------------------------------------------------------
(* In the n-th argument of a command the labels of the n-th argument's        *)
(* enumeration are offered and a template of the arguments from the n-th on,  *)
(* and nothing for an argument the command does not have; before it, command  *)
(* names and time tags (semanticComplete).                                    *)
OffersExpected ==
  cursor # 0 =>
    LET offer == SemanticComplete
    IN CASE cursor = 1 -> offer.options = "time tags"
         [] cursor = 2 -> offer.options = "commands"
         [] OTHER ->
              LET known == statement[2].word \in DOMAIN Commands
                  types == IF known THEN Commands[statement[2].word] ELSE <<>>
                  n == cursor - 2
              IN /\ (offer.options = "labels") <=> (n <= Len(types) /\ types[n] = "Enum")
                 /\ Len(offer.template) = IF n <= Len(types) THEN Len(types) - n + 1 ELSE 0
                 /\ \A k \in DOMAIN offer.template : offer.template[k] = types[n + k - 1]
=============================================================================
