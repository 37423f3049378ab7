---------------------------- MODULE SaferParser ----------------------------
(* The JSON parser and writer of the web page (js/json.js).  A text is a     *)
(* sequence of characters of Alphabet: one character stands for a class the  *)
(* parser tells apart ("." for . e E +, "Inf" and "NaN" for the bare words,  *)
(* "," for everything that separates values).  Safe numbers have at most     *)
(* RunLength digits and are at most MaxSafe (2^53 - 1 in the code); above it *)
(* only even integers have a Number of their own.                            *)
EXTENDS Integers, Sequences, SequencesExt, FiniteSets

CONSTANTS RunLength, MaxSafe, MaxText

Digits == {"0", "9"}
NumberChars == Digits \cup {".", "-"}
Alphabet == NumberChars \cup {"'", "\\", "Inf", "NaN", ","}

VARIABLE text
----------------------------------------------------------------------------
(* Integers written in decimal, and the Number nearest to them.              *)
IntOf(s) ==
  LET neg == Len(s) > 0 /\ s[1] = "-"
      n == FoldLeft(LAMBDA acc, c : IF c = "-" THEN acc ELSE 10 * acc + (IF c = "9" THEN 9 ELSE 0), 0, s)
  IN IF neg THEN -n ELSE n
Nearest(n) == IF n \in -MaxSafe .. MaxSafe THEN n ELSE 2 * (n \div 2)
IsSafe(n) == Nearest(n) \in -MaxSafe .. MaxSafe

(* The number grammar of JSON.                                               *)
IsJsonNumber(s) ==
  LET body == IF s # <<>> /\ s[1] = "-" THEN Tail(s) ELSE s
      dots == {i \in DOMAIN body : body[i] = "."}
  IN /\ body # <<>>
     /\ Cardinality(dots) <= 1
     /\ \A i \in DOMAIN body \ dots : body[i] \in Digits
     /\ dots \cap {1, Len(body)} = {}
     /\ body[1] = "0" => Len(body) = 1 \/ 2 \in dots

Number(n) == [type |-> "number", n |-> n]
BigInt(n) == [type |-> "bigint", n |-> n]
Word(w) == [type |-> w, n |-> 0]
Float(s) == [type |-> "float", n |-> IntOf(SelectSeq(s, LAMBDA c : c # "."))]

(* stringToNumber and stringToInfinity: the value of a flag object.          *)
StringToNumber(s) ==
  CASE Contains(s, ".") -> Float(s)
    [] Nearest(IntOf(s)) # IntOf(s) -> BigInt(IntOf(s))
    [] OTHER -> Number(IntOf(s))
StringToInfinity(s) == IF s[1] = "-" THEN Word("-Infinity") ELSE Word("Infinity")
----------------------------------------------------------------------------
(* hasLongDigitRun: every RunLength-th character is sampled.                 *)
RECURSIVE LongRunFrom(_, _)
LongRunFrom(s, i) ==
  IF i > Len(s) THEN FALSE
  ELSE IF s[i] \notin Digits THEN LongRunFrom(s, i + RunLength)
  ELSE LET low == CHOOSE l \in 1 .. i : /\ \A k \in l .. i : s[k] \in Digits
                                        /\ l = 1 \/ s[l - 1] \notin Digits
           high == CHOOSE h \in i .. Len(s) : /\ \A k \in i .. h : s[k] \in Digits
                                              /\ h = Len(s) \/ s[h + 1] \notin Digits
       IN high - low + 1 >= RunLength \/ LongRunFrom(s, high + RunLength)
HasLongDigitRun(s) == LongRunFrom(s, RunLength)

(* hasReplaceableToken: may the text need the scan at all?                   *)
HasReplaceableToken(s) == Contains(s, "Inf") \/ Contains(s, "NaN") \/ HasLongDigitRun(s)

(* The end of the literal that opens at i (one past its closing quote).      *)
RECURSIVE StringEnd(_, _)
StringEnd(s, i) ==
  IF i > Len(s) \/ s[i] = "'" THEN i + 1
  ELSE StringEnd(s, i + (IF s[i] = "\\" THEN 2 ELSE 1))

(* scanNumberToken: one past the last number character from i on.            *)
RECURSIVE NumberEnd(_, _)
NumberEnd(s, i) == IF i <= Len(s) /\ s[i] \in NumberChars THEN NumberEnd(s, i + 1) ELSE i

(* The integers the scan wraps: those JSON.parse would round.                *)
BugLeadingZero(token) ==
  LET digits == IF token[1] = "-" THEN Tail(token) ELSE token
  IN digits # <<>> /\ (\A i \in DOMAIN digits : digits[i] \in Digits) /\ ~IsSafe(IntOf(token))
NeedsBigInt(token) ==
  LET digits == IF token[1] = "-" THEN Tail(token) ELSE token
  IN /\ \A i \in DOMAIN digits : digits[i] \in Digits
     /\ digits # <<>>
     /\ ~(Len(digits) > 1 /\ digits[1] = "0")
     /\ ~IsSafe(IntOf(token))

(* scanAndReplace: the characters from i on, each <<c>>, and for a replaced  *)
(* token one flag object <<conversion type>> \o token.                       *)
Raw(s) == [i \in DOMAIN s |-> <<s[i]>>]
RECURSIVE ScanFrom(_, _)
ScanFrom(s, i) ==
  IF i > Len(s) THEN <<>>
  ELSE LET body == IF s[i] = "-" THEN i + 1 ELSE i
           Took(end, flag) ==
             LET token == SubSeq(s, i, IF end - 1 > Len(s) THEN Len(s) ELSE end - 1)
             IN (IF flag = "" THEN Raw(token) ELSE <<<<flag>> \o token>>) \o ScanFrom(s, end)
       IN CASE s[i] = "'" -> Took(StringEnd(s, i + 1), "")
            [] body <= Len(s) /\ s[body] = "Inf" -> Took(body + 1, "INFINITY")
            [] s[i] = "NaN" -> Took(i + 1, "NAN")
            [] s[i] \in Digits \cup {"-"} ->
                 LET end == NumberEnd(s, body)
                 IN Took(end, IF NeedsBigInt(SubSeq(s, i, end - 1)) THEN "NUMBER" ELSE "")
            [] OTHER -> Took(i + 1, "")
ScanAndReplace(s) == ScanFrom(s, 1)

(* parse: the scan runs only when the quick check asks for it.               *)
Preprocessed(s) == IF HasReplaceableToken(s) THEN ScanAndReplace(s) ELSE Raw(s)
----------------------------------------------------------------------------
(* JSON.parse of the browser, on the values of one array: a string, a number *)
(* or an object each, separated by ",".  Flag objects are revived by reviver.*)
Flatten(t) == [i \in DOMAIN t |-> IF Len(t[i]) = 1 THEN t[i][1] ELSE "{}"]
RECURSIVE CommasFrom(_, _)
CommasFrom(s, i) ==
  CASE i > Len(s) -> {}
    [] i <= Len(s) /\ s[i] = "'" -> CommasFrom(s, StringEnd(s, i + 1))
    [] i <= Len(s) /\ s[i] = "," -> {i} \cup CommasFrom(s, i + 1)
    [] OTHER -> CommasFrom(s, i + 1)
Fields(s, t) ==
  LET commas == CommasFrom(s, 1)
      cuts == <<0>> \o SelectSeq([i \in DOMAIN s |-> i], LAMBDA i : i \in commas) \o <<Len(s) + 1>>
  IN [k \in 1 .. Len(cuts) - 1 |-> SubSeq(t, cuts[k] + 1, cuts[k + 1] - 1)]
IsLiteral(f) == Len(f) >= 2 /\ f[1] = "'" /\ StringEnd(f, 2) = Len(f) + 1 /\ f[Len(f)] = "'"
NativeNumber(s) == IF Contains(s, ".") THEN Float(s) ELSE Number(Nearest(IntOf(s)))

Reviver(flag) ==
  CASE flag[1] = "NAN" -> Word("NaN")
    [] flag[1] = "INFINITY" -> StringToInfinity(Tail(flag))
    [] flag[1] = "NUMBER" -> StringToNumber(Tail(flag))

NativeField(t) ==
  LET f == Flatten(t)
  IN CASE IsLiteral(f) -> <<Word("string")>>
       [] IsJsonNumber(f) -> <<NativeNumber(f)>>
       [] Len(f) = 1 /\ f[1] = "{}" -> <<Reviver(t[1])>>
       [] OTHER -> <<>>
NativeParse(t) ==
  LET values == [k \in DOMAIN Fields(Flatten(t), t) |-> NativeField(Fields(Flatten(t), t)[k])]
  IN IF \A k \in DOMAIN values : values[k] # <<>> THEN <<FlattenSeq(values)>> ELSE <<>>

(* <<>> when the text is refused (SyntaxError), else its values.             *)
Parse(s) == NativeParse(Preprocessed(s))

(* stringify: numbers, big integers and null become flag objects that the    *)
(* last replacement turns into bare text.                                    *)
RECURSIVE DecimalOf(_)
DecimalOf(n) ==
  CASE n < 0 -> <<"-">> \o DecimalOf(-n)
    [] n \in 0 .. 9 -> <<IF n = 0 THEN "0" ELSE "9">>
    [] OTHER -> DecimalOf(n \div 10) \o DecimalOf(n % 10)
ReplaceFromObject(v) ==
  CASE v.type \in {"number", "bigint"} -> DecimalOf(v.n)
    [] v.type = "Infinity" -> <<"Inf">>
    [] v.type = "-Infinity" -> <<"-", "Inf">>
    [] v.type = "NaN" -> <<"NaN">>
    [] v.type = "string" -> <<"'", "'">>
Stringify(values) ==
  FlattenSeq([k \in DOMAIN values |->
                (IF k = 1 THEN <<>> ELSE <<",">>) \o ReplaceFromObject(values[k])])
----------------------------------------------------------------------------
(* A text arrives character by character.                                    *)
ParserInit == text = <<>>
Read(c) == Len(text) < MaxText /\ text' = Append(text, c)
ParserNext == \E c \in Alphabet : Read(c)
ParserSpec == ParserInit /\ [][ParserNext]_text
----------------------------------------------------------------------------
(* What the wide grammar (Python's JSON) makes of a text, field by field.    *)
WideField(f) ==
  CASE IsLiteral(f) -> <<Word("string")>>
    [] f = <<"NaN">> -> <<Word("NaN")>>
    [] f = <<"Inf">> -> <<Word("Infinity")>>
    [] f = <<"-", "Inf">> -> <<Word("-Infinity")>>
    [] IsJsonNumber(f) /\ Contains(f, ".") -> <<Float(f)>>
    [] IsJsonNumber(f) /\ ~Contains(f, ".") /\ Nearest(IntOf(f)) = IntOf(f) -> <<Number(IntOf(f))>>
    [] IsJsonNumber(f) /\ ~Contains(f, ".") /\ Nearest(IntOf(f)) # IntOf(f) -> <<BigInt(IntOf(f))>>
    [] OTHER -> <<>>
WideParse(s) ==
  LET values == [k \in DOMAIN Fields(s, s) |-> WideField(Fields(s, s)[k])]
  IN IF \A k \in DOMAIN values : values[k] # <<>> THEN <<FlattenSeq(values)>> ELSE <<>>

(* The quick check never skips a scan that would have replaced something     *)
(* (json.js:196 and 470: a token it misses is silently parsed wrong).        *)
GateCovers == ScanAndReplace(text) # Raw(text) => HasReplaceableToken(text)

(* The parser accepts what the wide grammar accepts and refuses the rest,    *)
(* and what it accepts keeps its exact value: a replaced token never mends a *)
(* malformed text, and no integer is rounded.                                *)
ParsesWide == Parse(text) = WideParse(text)

(* What the page writes back for the values it read parses to the same       *)
(* values: floats aside, whose decimal form the model does not keep.         *)
RoundTrip ==
  \A values \in ToSet(Parse(text)) :
    (\A k \in DOMAIN values : values[k].type # "float")
      => Parse(Stringify(values)) = <<values>>

(* Numbers come through the parser as they were sent, also those a JavaScript *)
(* number cannot hold, and back (json.js).                                    *)
NumbersKept == GateCovers /\ ParsesWide /\ RoundTrip
=============================================================================
