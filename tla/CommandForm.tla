----------------------------- MODULE CommandForm -----------------------------
(* The commanding panel of the web page: the argument trees of the command   *)
(* store (datastore.js), their checks (validate.js), the form and its        *)
(* requests (addons/commanding/command-input.js, arguments.js) and the text  *)
(* box that mirrors the form (command-string.js).  A text is a string out of *)
(* Texts; NumberOf says which number the browser reads in it.                *)
EXTENDS Integers, Sequences, SequencesExt, FiniteSets, TLC

CONSTANTS Dictionaries,   \* the dictionaries to try: functions from names to argument types
          MaxRequests,    \* how many PUTs a run may issue
          MaxEdits        \* how many changes a run may make to the form

Fill == "<FILL-VALUE>"
Null == "null"
NaN == -1000

(* Argument types: a kind, and the members of an array or a serializable.    *)
Scalar(kind) == [kind |-> kind, names |-> <<>>, members |-> <<>>]
ArrayOf(n, type) == [kind |-> "array", names |-> [i \in 1 .. n |-> ToString(i - 1)],
                     members |-> [i \in 1 .. n |-> type]]
Struct(names, types) == [kind |-> "struct", names |-> names, members |-> types]
IsComplex(type) == type.kind \in {"array", "struct"}
Integer == {"U8", "U64", "I8"}
Limits(kind) == CASE kind = "U8" -> 0 .. 255
                  [] kind = "U64" -> Nat        \* no text here is beyond it
                  [] kind = "I8" -> -128 .. 127
EnumNames == <<"RED", "GREEN">>
MaxLength == 2

(* BigInt(text) and parseInt(text, 10) of the browser.  An octal text is read *)
(* as the binary ones are.                                                   *)
Hex == {"0xF", "0XF"}
Binary == {"0b10", "0B10"}
Decimal == ("" :> NaN @@ "0" :> 0 @@ "2" :> 2 @@ "5" :> 5 @@ "10" :> 10 @@ "15" :> 15
            @@ "300" :> 300 @@ "-1" :> -1)
NumberOf(text) ==
  CASE text \in Hex -> 15
    [] text \in Binary -> 2
    [] text = "" -> 0
    [] text \in DOMAIN Decimal -> Decimal[text]
    [] OTHER -> NaN
ParseInt(text) ==
  CASE text \in Hex \cup Binary -> 0
    [] text \in DOMAIN Decimal -> Decimal[text]
    [] OTHER -> NaN
Typable(kind) ==
  CASE kind = "U8" -> {"", "300", "0xF", "0XF", "0b10", "-1", "RED"}
    [] kind = "U64" -> {"", "15", "0XF", "0b10", "0B10", "-1", "RED"}
    [] kind = "I8" -> {"", "300", "0xF", "-1"}
    [] kind = "String" -> {"", "RED", "300", Fill}
    [] kind = "Enum" -> ToSet(EnumNames)
    [] kind = "Bool" -> {"True", "False"}
TextLength(text) == IF text = "" THEN 0 ELSE IF text = "RED" THEN 1 ELSE 3

VARIABLES dictionary,     \* the types of the arguments of each command
          store,          \* the argument trees of each command
          selected,       \* the name in the form; it need not be a command
          active,         \* the lock-out of the send button
          pending,        \* the PUTs not answered yet
          issued, edits
formVars == <<dictionary, store, selected, active, pending, issued, edits>>
----------------------------------------------------------------------------
Argument(type, value, kids, bad) == [type |-> type, value |-> value, kids |-> kids, bad |-> bad]

(* setupCommandArgument without a supplied value.                            *)
RECURSIVE Setup(_)
Setup(type) ==
  CASE type.kind = "Enum" -> Argument(type, EnumNames[1], <<>>, FALSE)
    [] type.kind = "Bool" -> Argument(type, "True", <<>>, FALSE)
    [] IsComplex(type) ->
         Argument(type, Null, [i \in DOMAIN type.members |-> Setup(type.members[i])], FALSE)
    [] OTHER -> Argument(type, Null, <<>>, FALSE)

(* clear_argument: as set up, but strings are empty and Booleans unset.      *)
RECURSIVE Cleared(_)
Cleared(arg) ==
  CASE arg.type.kind = "String" -> [arg EXCEPT !.value = "", !.bad = FALSE]
    [] arg.type.kind = "Enum" -> [arg EXCEPT !.value = EnumNames[1], !.bad = FALSE]
    [] IsComplex(arg.type) ->
         [arg EXCEPT !.kids = [i \in DOMAIN arg.kids |-> Cleared(arg.kids[i])], !.bad = FALSE]
    [] OTHER -> [arg EXCEPT !.value = Null, !.bad = FALSE]

(* find_case_insensitive on the names of the enumeration.                    *)
EnumMatch(text) == IF text \in {"red", "RED"} THEN "RED"
                   ELSE IF text = "GREEN" THEN "GREEN" ELSE Null

(* validate_scalar_input: the text as corrected, and whether it is good.     *)
ScalarValid(kind, text) ==
  CASE kind \in Integer -> text # Null /\ NumberOf(text) \in Limits(kind)
    [] kind = "String" -> text \notin {Null, ""} /\ TextLength(text) <= MaxLength
    [] kind = "Enum" -> EnumMatch(text) # Null
    [] kind = "Bool" -> text \in {"True", "False", "true", "false"}
ScalarValidated(arg) ==
  LET valid == ScalarValid(arg.type.kind, arg.value)
  IN CASE arg.type.kind = "Bool" -> arg
       [] arg.type.kind = "Enum" /\ valid -> [arg EXCEPT !.value = EnumMatch(@), !.bad = FALSE]
       [] OTHER -> [arg EXCEPT !.bad = ~valid]

(* validate_input: every member is checked, whatever the others give.        *)
RECURSIVE IsValid(_), Validated(_)
IsValid(arg) ==
  IF IsComplex(arg.type) THEN \A i \in DOMAIN arg.kids : IsValid(arg.kids[i])
  ELSE ScalarValid(arg.type.kind, arg.value)
Validated(arg) ==
  IF IsComplex(arg.type)
  THEN [arg EXCEPT !.kids = [i \in DOMAIN arg.kids |-> Validated(arg.kids[i])],
                   !.bad = ~IsValid(arg)]
  ELSE ScalarValidated(arg)
Validate(args) == [i \in DOMAIN args |-> Validated(args[i])]

(* The checks of the browser itself: the pattern of the input, and required. *)
RECURSIVE FormValid(_)
FormValid(arg) ==
  CASE IsComplex(arg.type) -> \A i \in DOMAIN arg.kids : FormValid(arg.kids[i])
    [] arg.type.kind \in {"U8", "U64"} -> arg.value \in (DOMAIN Decimal \ {"", "-1"}) \cup Hex \cup Binary
    [] arg.type.kind = "I8" -> arg.value \in DOMAIN Decimal \ {""}
    [] arg.type.kind = "String" -> arg.value \notin {Null, ""}
    [] OTHER -> TRUE
----------------------------------------------------------------------------
(* JSON values: what is sent, and what the text box reads.                   *)
Num(n) == [json |-> "number", n |-> n, s |-> "", items |-> <<>>]
Str(s) == [json |-> "string", n |-> 0, s |-> s, items |-> <<>>]
Bool(s) == [json |-> "bool", n |-> 0, s |-> s, items |-> <<>>]
List(items) == [json |-> "list", n |-> 0, s |-> "", items |-> items]
Nothing == [json |-> "null", n |-> 0, s |-> "", items |-> <<>>]

(* squashify_argument: only lower-case prefixes select a base, and BigInt,   *)
(* which knows the prefixes, takes no base: without its prefix a text is     *)
(* decimal.                                                                  *)
BugDecimal(kind, text) == ParseInt(text)
SquashInt(kind, text) ==
  CASE kind = "U64" /\ text = "0b10" -> Decimal["10"]
    [] kind = "U64" /\ text # "0b10" -> NumberOf(text)
    [] kind = "U8" /\ text \in {"0xF", "0b10"} -> NumberOf(text)
    [] OTHER -> ParseInt(text)
Misread(kind, text) ==
  (kind = "U8" /\ text \in {"0XF", "0B10"}) \/ (kind = "U64" /\ text = "0b10")
RECURSIVE Squash(_)
Squash(arg) ==
  CASE IsComplex(arg.type) -> List([i \in DOMAIN arg.kids |-> Squash(arg.kids[i])])
    [] arg.type.kind \in Integer -> Num(SquashInt(arg.type.kind, arg.value))
    [] arg.type.kind = "Bool" -> Bool(IF arg.value \in {"True", "true"} THEN "true" ELSE "false")
    [] OTHER -> Str(arg.value)

(* argument_display_string, as tokens: quoted strings keep their quotes, the *)
(* names of the members and everything else is bare.                         *)
Quoted(s) == [quoted |-> TRUE, text |-> s]
Bare(s) == [quoted |-> FALSE, text |-> s]
RECURSIVE Display(_)
Display(arg) ==
  CASE IsComplex(arg.type) ->
         FlattenSeq([i \in DOMAIN arg.kids |->
           (IF arg.type.kind = "struct" THEN <<Bare(arg.type.names[i])>> ELSE <<>>)
             \o Display(arg.kids[i])])
    [] arg.type.kind = "String" -> <<Quoted(IF arg.value = Null THEN "" ELSE arg.value)>>
    [] arg.value \in {Null, ""} -> <<Bare(Fill)>>
    [] arg.type.kind \in Integer /\ Squash(arg).n = NaN ->     \* BigInt throws
         <<Bare(IF arg.type.kind = "U64" THEN Fill ELSE "NaN")>>
    [] arg.type.kind \in Integer /\ Squash(arg).n # NaN -> <<Bare(ToString(Squash(arg).n))>>
    [] OTHER -> <<Bare(Squash(arg).s)>>
DisplayAll(args) == FlattenSeq([i \in DOMAIN args |-> Display(args[i])])

(* The setter of the text box quotes every bare word, but its expression for *)
(* a quoted string runs from the first quote to the last: a word in between  *)
(* stays bare, and unless JSON knows it (a number, true, false, NaN) the     *)
(* text is refused.                                                          *)
Literals == {"true", "false", "NaN"} \cup {ToString(n) : n \in {-1, 0, 2, 5, 10, 15, 300}}
Between(tokens, i) == \E j, k \in DOMAIN tokens : j < i /\ i < k /\ tokens[j].quoted /\ tokens[k].quoted
Readable(tokens) ==
  \A i \in DOMAIN tokens :
    tokens[i].quoted \/ tokens[i].text \in Literals \/ ~Between(tokens, i)

(* What the setter reads back for an argument that was displayed.            *)
RECURSIVE ReadBack(_)
ReadBack(arg) ==
  IF IsComplex(arg.type) THEN List([i \in DOMAIN arg.kids |-> ReadBack(arg.kids[i])])
  ELSE Str(Display(arg)[1].text)

(* command_argument_assignment_helper: null and undefined have no toString,  *)
(* and a scalar has no members: both throw (Assignable is false).            *)
Unfilled(type, json) == type.kind # "String" /\ json = Str(Fill)

RECURSIVE Assignable(_, _), Assigned(_, _)
Assignable(arg, json) ==
  IF IsComplex(arg.type)
  THEN /\ json.json = "list"
       /\ \A i \in DOMAIN arg.kids :
            i \in DOMAIN json.items => Assignable(arg.kids[i], json.items[i])
  ELSE json # Nothing
Assigned(arg, json) ==
  IF IsComplex(arg.type)
  THEN [arg EXCEPT !.kids = [i \in DOMAIN arg.kids |->
                               IF i \in DOMAIN json.items
                               THEN Assigned(arg.kids[i], json.items[i]) ELSE arg.kids[i]],
                   !.bad = Len(json.items) < Len(arg.kids)]
  ELSE [arg EXCEPT !.value = CASE Unfilled(arg.type, json) -> Null
                                [] json.json = "number" -> ToString(json.n)
                                [] OTHER -> json.s]

(* command_assignment_helper: the arguments in order, up to the first one    *)
(* that throws.  Arguments that are not supplied are null.                   *)
Supplied(values, i) == IF i \in DOMAIN values THEN values[i] ELSE Nothing
Throwing(args, values) == {i \in DOMAIN args : ~Assignable(args[i], Supplied(values, i))}
AssignAll(args, values) ==
  [i \in DOMAIN args |->
     IF \E t \in Throwing(args, values) : t <= i THEN args[i]
     ELSE Assigned(args[i], Supplied(values, i))]
----------------------------------------------------------------------------
Known(name) == name \in DOMAIN dictionary
ArgsOf(name) == IF Known(name) THEN store[name] ELSE <<>>
WithArgs(name, args) == IF Known(name) THEN [store EXCEPT ![name] = args] ELSE store

FormInit ==
  /\ dictionary \in Dictionaries
  /\ store = [name \in DOMAIN dictionary |->
                [i \in DOMAIN dictionary[name] |-> Setup(dictionary[name][i])]]
  /\ selected \in DOMAIN dictionary
  /\ active = FALSE /\ pending = {} /\ issued = 0 /\ edits = 0

Change == edits < MaxEdits /\ edits' = edits + 1

(* Typing in one input, or a choice in a drop-down: the input is checked and *)
(* then every tree it is part of (validateArgument, upwards).                *)
RECURSIVE SetLeaves(_)
SetLeaves(arg) ==
  IF IsComplex(arg.type)
  THEN UNION {{[arg EXCEPT !.kids[i] = kid] : kid \in SetLeaves(arg.kids[i])} : i \in DOMAIN arg.kids}
  ELSE {[arg EXCEPT !.value = text] : text \in Typable(arg.type.kind)}
EditArgument ==
  /\ Change
  /\ \E i \in DOMAIN ArgsOf(selected) : \E arg \in SetLeaves(store[selected][i]) :
       store' = [store EXCEPT ![selected][i] = Validated(arg)]
  /\ UNCHANGED <<dictionary, selected, active, pending, issued>>

ClearArguments ==
  /\ Change
  /\ store' = WithArgs(selected, [i \in DOMAIN ArgsOf(selected) |-> Cleared(ArgsOf(selected)[i])])
  /\ UNCHANGED <<dictionary, selected, active, pending, issued>>

(* A choice of the mnemonic; validate() follows at the next tick.            *)
SelectMnemonic(name) ==
  /\ Change
  /\ selected' = name
  /\ store' = WithArgs(name, Validate(store[name]))
  /\ UNCHANGED <<dictionary, active, pending, issued>>

(* selectCmd, from the text box or from a row of the command history.  A     *)
(* value that throws leaves the arguments before it assigned and the         *)
(* selection as it was; an unknown name is selected all the same.            *)
SelectCmd(name, values) ==
  LET args == AssignAll(ArgsOf(name), values)
  IN /\ IF Throwing(ArgsOf(name), values) = {}
        THEN selected' = name /\ store' = WithArgs(name, Validate(args))
        ELSE store' = WithArgs(name, args) /\ UNCHANGED selected
     /\ UNCHANGED <<dictionary, active, pending, issued>>
EnterText(name, values) == Change /\ SelectCmd(name, values)
ReenterText ==
  /\ Change
  /\ Readable(DisplayAll(ArgsOf(selected)))
  /\ SelectCmd(selected, [i \in DOMAIN ArgsOf(selected) |-> ReadBack(ArgsOf(selected)[i])])

(* sendCommand: the form is checked again, then the PUT goes out and the     *)
(* button is locked.  An unknown command has no arguments to fail.           *)
ButtonFree == ~active
SendCommand ==
  LET args == Validate(ArgsOf(selected))
      good == \A i \in DOMAIN args : IsValid(args[i]) /\ FormValid(args[i])
  IN /\ ButtonFree
     /\ issued < MaxRequests
     /\ store' = WithArgs(selected, args)
     /\ IF good
        THEN /\ active' = TRUE
             /\ issued' = issued + 1
             /\ pending' = pending \cup
                  {[command |-> selected, args |-> args,
                    sent |-> [i \in DOMAIN args |-> Squash(args[i])]]}
        ELSE UNCHANGED <<active, issued, pending>>
     /\ UNCHANGED <<dictionary, selected, edits>>

(* The answers: success clears the errors of the command that was sent, a    *)
(* refusal in JSON sets those of the arguments it lists, the first ones.  Any *)
(* other refusal throws in the handler before the button is unlocked: there  *)
(* is no server or no JSON, or it lists more than there are arguments.       *)
Flagged(command, listed, errors) ==
  WithArgs(command, [i \in DOMAIN ArgsOf(command) |->
    IF i <= listed THEN [ArgsOf(command)[i] EXCEPT !.bad = i \in errors] ELSE ArgsOf(command)[i]])
Answer(request, listed, errors) ==
  /\ request \in pending
  /\ pending' = pending \ {request}
  /\ active' = FALSE
  /\ store' = Flagged(request.command, listed, errors)
  /\ UNCHANGED <<dictionary, selected, issued, edits>>
Unreadable(request) ==
  /\ request \in pending
  /\ pending' = pending \ {request}
  /\ LET all == DOMAIN ArgsOf(request.command)
     IN store' \in {store, Flagged(request.command, Cardinality(all), all)}
  /\ UNCHANGED <<dictionary, selected, active, issued, edits>>

ValuesOf(name) ==
  LET n == IF Known(name) THEN Len(dictionary[name]) ELSE 0
      item == {Num(5), Str("red"), Str(Fill)}
  IN UNION {[1 .. k -> item \cup {List(<<Num(5)>>)}] : k \in {0, n}}
Reply == \E request \in pending :
           \/ \E listed \in 0 .. Len(ArgsOf(request.command)) :
                \E errors \in SUBSET (1 .. listed) : Answer(request, listed, errors)
           \/ Unreadable(request)
FormNext ==
  \/ EditArgument \/ ClearArguments \/ ReenterText \/ SendCommand \/ Reply
  \/ \E name \in DOMAIN dictionary : SelectMnemonic(name)
  \/ \E name \in DOMAIN dictionary \cup {"NONE"} : \E values \in ValuesOf(name) : EnterText(name, values)
----------------------------------------------------------------------------
RECURSIVE Shaped(_, _)
Shaped(arg, type) ==
  /\ arg.type = type
  /\ DOMAIN arg.kids = DOMAIN type.members
  /\ \A i \in DOMAIN type.members : Shaped(arg.kids[i], type.members[i])

(* Whatever texts are read into it, an argument keeps the shape of its type, *)
(* and an enumeration always holds one of its names or something refused.    *)
FormTypeOK ==
  /\ \A name \in DOMAIN dictionary :
       /\ Len(store[name]) = Len(dictionary[name])
       /\ \A i \in DOMAIN dictionary[name] : Shaped(store[name][i], dictionary[name][i])
  /\ selected \in DOMAIN dictionary \cup {"NONE"}
  /\ active \in BOOLEAN /\ issued \in 0 .. MaxRequests /\ edits \in 0 .. MaxEdits

(* What goes out fits the types: no number outside its range and no NaN, no  *)
(* name the enumeration does not have, no unset value anywhere in a tree.    *)
RECURSIVE Fits(_, _)
Fits(json, type) ==
  CASE IsComplex(type) -> /\ json.json = "list" /\ DOMAIN json.items = DOMAIN type.members
                          /\ \A i \in DOMAIN type.members : Fits(json.items[i], type.members[i])
    [] type.kind \in Integer -> json.json = "number" /\ json.n \in Limits(type.kind)
    [] type.kind = "Enum" -> json.s \in ToSet(EnumNames)
    [] type.kind = "Bool" -> json.json = "bool"
    [] type.kind = "String" -> json.s # "" /\ TextLength(json.s) <= MaxLength
SentFits ==
  \A request \in pending : Known(request.command) =>
    \A i \in DOMAIN request.sent : Fits(request.sent[i], dictionary[request.command][i])

(* What goes out is what the boxes show: the number the check of a box read  *)
(* in it, of whichever base its pattern admits ("Supports binary, hex, octal, *)
(* and digital"), the name, the text.  Excepted are the prefixes that        *)
(* squashify_argument misreads, 0X and 0B of a U8, 0b of a U64.              *)
RECURSIVE Says(_, _)
Says(json, arg) ==
  CASE IsComplex(arg.type) -> \A i \in DOMAIN arg.kids : Says(json.items[i], arg.kids[i])
    [] arg.type.kind \in Integer -> \/ json.n = NumberOf(arg.value)
                                    \/ Misread(arg.type.kind, arg.value)
    [] arg.type.kind = "Bool" -> json.s = "true" <=> arg.value \in {"True", "true"}
    [] OTHER -> json.s = arg.value
SentAsShown ==
  \A request \in pending : \A i \in DOMAIN request.sent : Says(request.sent[i], request.args[i])

(* The button is locked until the answer: two commands are never under way   *)
(* at once, whatever is selected or typed in the meantime.                   *)
OneAtATime == Cardinality(pending) <= 1 /\ (pending # {} => active)

(* The text box shows what the form holds: reading its own text back changes *)
(* nothing it shows, for every form whose text it can read at all.           *)
TextBoxAgrees ==
  \A name \in DOMAIN dictionary :
    LET args == store[name]
        back == AssignAll(args, [i \in DOMAIN args |-> ReadBack(args[i])])
    IN Readable(DisplayAll(args)) => DisplayAll(back) = DisplayAll(args)
=============================================================================
