------------------------------- MODULE LrParser ------------------------------
(* The parser of the sequence editor (Parser, Parse, Stack and readToken) on  *)
(* the tables of the sequence language: an LR parse that goes on with several *)
(* stacks where the grammar or a recovery is ambiguous.  A stack shares the   *)
(* nodes stored before it was split off with its parent: "st" is the heap of  *)
(* all stacks made, and a stack is its index there.                           *)
EXTENDS Integers, Sequences, SequencesExt

CONSTANTS Lexemes, MaxLexemes,   \* what is typed, and how much of it
          Table,           \* of a state: skipped, accepting, mask, default, force, actions, skips
          Goto,            \* of a term: its exceptions <<state, target>> and the target of the rest
          TokenTable,      \* of a tokenizer state: groups, accepted <<term, groups>>, edges
          MinRepeatTerm, EofTerm,
          MaxNext, MinPrune, RecoverDistance, MaxRemaining, ForceLimit   \* Recover and Rec
VARIABLES seqText, lexemes,    \* the text, and the lexemes it was typed as
          parse,               \* the parse under way, or NoParse
          nodes                \* of the finished parse, or NoNodes
parserVars == <<seqText, lexemes, parse, nodes>>

Err == 0
NoState == -1
NoParent == 0
MaxNode == EofTerm - 1
ErrorCost == 200
ReduceCost == 100
----------------------------------------------------------------------------
(* getGoto (loosely), the lists of actions, and what follows from them.       *)
FirstOr(known, rest) == IF known = <<>> THEN rest ELSE known[1][2]
GotoOf(state, term) == FirstOr(SelectSeq(Goto[term].some, LAMBDA e : e[1] = state), Goto[term].rest)
Seconds(list) == [i \in DOMAIN list |-> list[i][2]]
ActionsFor(state, term) ==
  Seconds(SelectSeq(Table[state].actions \o Table[state].skips, LAMBDA e : e[1] = term))
HasAction(state, term) == ActionsFor(state, term) # <<>>
IsReduce(action) == action.kind = "reduce"
ValidAction(state, action) ==
  action = Table[state].default \/ \E i \in DOMAIN Table[state].actions : Table[state].actions[i][2] = action
RECURSIVE Targets(_, _)
Targets(actions, found) ==
  IF actions = <<>> THEN found
  ELSE Targets(Tail(actions), IF IsReduce(actions[1][2]) \/ \E i \in DOMAIN found : found[i] = actions[1][2].to
                              THEN found ELSE Append(found, actions[1][2].to))
NextStates(state) == Targets(Table[state].actions, <<>>)

(* readToken: the longest token of the group (the language has no precedence  *)
(* among tokens); updateCachedToken: nothing read is the end, or an error.    *)
RECURSIVE ReadFrom(_, _, _, _, _), ReadOn(_, _, _, _, _)
FirstTerm(terms, pos, token) == IF terms = <<>> THEN token ELSE [value |-> terms[1][1], end |-> pos]
Accepted(at, group, pos, token) ==
  FirstTerm(SelectSeq(TokenTable[at].accepts, LAMBDA e : group \in e[2]), pos, token)
Edges(text, pos, at) ==
  IF pos = Len(text) THEN <<>> ELSE SelectSeq(TokenTable[at].edges, LAMBDA e : text[pos + 1] \in e[1])
ReadOn(text, pos, edges, group, token) ==
  IF edges = <<>> THEN token ELSE ReadFrom(text, pos + 1, edges[1][2], group, token)
ReadFrom(text, pos, at, group, token) ==
  IF group \notin TokenTable[at].groups THEN token
  ELSE ReadOn(text, pos, Edges(text, pos, at), group, Accepted(at, group, pos, token))
NoToken(text, pos) ==
  IF pos = Len(text) THEN [value |-> EofTerm, end |-> pos] ELSE [value |-> Err, end |-> pos + 1]
(* getActions: every state uses one tokenizer at most.                        *)
TokenOr(token, none) == IF token.value = NoState THEN none ELSE token
Unread(pos) == [value |-> NoState, end |-> pos]
MainToken(text, s) ==
  TokenOr(IF Table[s.state].mask = {} THEN Unread(s.pos)
          ELSE ReadFrom(text, s.pos, 0, CHOOSE g \in Table[s.state].mask : TRUE, Unread(s.pos)),
          NoToken(text, s.pos))
----------------------------------------------------------------------------
(* Stack.  A frame holds the state below, where it starts and how many nodes  *)
(* had been stored; a node its term, its place and the nodes it covers.       *)
Start == [frames |-> <<>>, state |-> 0, reducePos |-> 0, pos |-> 0, score |-> 0,
          buffer |-> <<>>, base |-> 0, parent |-> NoParent]
Rec(id, start, end, size) == [id |-> id, start |-> start, end |-> end, size |-> size]
Stored(s) == s.base + Len(s.buffer)
PushState(s, state, start) ==
  [s EXCEPT !.frames = Append(@, [state |-> s.state, start |-> start, base |-> Stored(s)]), !.state = state]

(* storeNode: adjacent errors become one, in the parent's nodes if need be;   *)
(* skipped nodes move behind the node that ends before them.                  *)
MergeHolder(P, k) ==
  LET s == P.st[k]
  IN IF s.buffer = <<>> /\ s.parent # NoParent
     THEN [k |-> s.parent, top |-> s.base - P.st[s.parent].base] ELSE [k |-> k, top |-> Len(s.buffer)]
AfterError(P, at) == at.top > 0 /\ P.st[at.k].buffer[at.top].id = Err
RECURSIVE PlaceOf(_, _, _)
PlaceOf(buffer, i, end) == IF i > 0 /\ buffer[i].end > end THEN PlaceOf(buffer, i - 1, end) ELSE i
SizeAfter(size, moved) == IF size > moved THEN size - moved ELSE 1
BugNoMove(s, end, reduce) == Len(s.buffer)
PlaceFor(s, end, reduce) ==
  IF reduce /\ s.pos # end /\ s.buffer # <<>> /\ Last(s.buffer).id # Err
  THEN PlaceOf(s.buffer, Len(s.buffer), end) ELSE Len(s.buffer)
StoreAfter(s, node, i) ==
  [s EXCEPT !.buffer = SubSeq(@, 1, i) \o <<[node EXCEPT !.size = SizeAfter(@, Len(s.buffer) - i)]>>
                       \o SubSeq(@, i + 1, Len(@))]
StoreAt(P, k, at, node, reduce) ==
  IF node.id = Err /\ AfterError(P, at) /\ (node.start = node.end \/ P.st[at.k].buffer[at.top].end >= node.start)
  THEN IF node.start = node.end THEN P ELSE [P EXCEPT !.st[at.k].buffer[at.top].end = node.end]
  ELSE [P EXCEPT !.st[k] = StoreAfter(@, node, PlaceFor(@, node.end, reduce))]
StoreNode(P, k, node, reduce) == StoreAt(P, k, MergeHolder(P, k), node, reduce)

(* reduce and shift.                                                          *)
Kept(action) == action.term < MinRepeatTerm \/ action.repeat
ReducedNode(s, action, base) ==
  IF action.depth = 0 THEN Rec(action.term, s.reducePos, s.reducePos, 1)
  ELSE Rec(action.term, s.frames[base].start, IF Table[s.state].skipped THEN s.pos ELSE s.reducePos,
           Stored(s) - s.frames[base].base + 1)
AfterReduce(s, action, base) ==
  IF action.depth = 0 THEN PushState(s, GotoOf(s.state, action.term), s.reducePos)
  ELSE [s EXCEPT !.frames = SubSeq(@, 1, base),
                 !.state = IF action.stay THEN s.frames[base + 1].state ELSE GotoOf(s.frames[base].state, action.term)]
ReduceTo(P, k, action, base) ==
  IF (action.depth = 0 /\ action.term < MinRepeatTerm) \/ (action.depth > 0 /\ Kept(action))
  THEN StoreNode(P, k, ReducedNode(P.st[k], action, base), TRUE) ELSE P
Reduce(P, k, action) ==
  LET base == Len(P.st[k].frames) - (action.depth - 1) - (IF action.stay THEN 2 ELSE 0)
  IN [ReduceTo(P, k, action, base) EXCEPT !.st[k] = AfterReduce(@, action, base)]
ReducePosAfter(s, action, token) == IF Table[action.to].skipped THEN s.reducePos ELSE token.end
Shift(s, action, token) ==
  LET node == IF token.value <= MaxNode THEN <<Rec(token.value, s.pos, token.end, 1)>> ELSE <<>>
      moves == token.end > s.pos \/ node # <<>>
      past == IF moves THEN [s EXCEPT !.pos = token.end, !.reducePos = ReducePosAfter(s, action, token)] ELSE s
  IN IF action.goto THEN PushState(s, action.to, s.pos)
     ELSE IF ~action.stay THEN [PushState(past, action.to, s.pos) EXCEPT !.buffer = @ \o node]
     ELSE [s EXCEPT !.buffer = @ \o node, !.pos = token.end]
ApplyAction(P, k, action, token) ==
  IF IsReduce(action) THEN Reduce(P, k, action) ELSE [P EXCEPT !.st[k] = Shift(@, action, token)]

(* split: the nodes after reducePos, which may still move, are copied.  The   *)
(* new stack is the last of the heap.                                         *)
RECURSIVE Shared(_, _), RealParent(_, _, _)
Shared(s, n) == IF n > 0 /\ s.buffer[n].end > s.reducePos THEN Shared(s, n - 1) ELSE n
RealParent(st, k, base) ==
  IF k # NoParent /\ base = st[k].base THEN RealParent(st, st[k].parent, base) ELSE k
Copied(st, k, off) ==
  [st[k] EXCEPT !.buffer = SubSeq(@, off + 1, Len(@)), !.base = @ + off, !.parent = RealParent(st, k, st[k].base + off)]
Split(P, k) == [P EXCEPT !.st = Append(@, Copied(@, k, Shared(@[k], Len(@[k].buffer))))]
Newest(P) == Len(P.st)

(* recoverByDelete, recoverByInsert and forceReduce.                          *)
RecoverByDelete(P, k, token) ==
  LET s == P.st[k]   node == token.value <= MaxNode
      stored == IF node THEN StoreNode(P, k, Rec(token.value, s.pos, token.end, 1), FALSE) ELSE P
  IN [StoreNode(stored, k, Rec(Err, s.pos, token.end, IF node THEN 2 ELSE 1), FALSE)
        EXCEPT !.st[k].pos = token.end, !.st[k].reducePos = token.end, !.st[k].score = @ - ErrorCost]
UpTo(list, n) == SubSeq(list, 1, IF Len(list) < n THEN Len(list) ELSE n)
FitFirst(next, fit) ==
  IF Len(next) <= MaxNext THEN next
  ELSE fit \o SubSeq(SelectSeq(next, LAMBDA t : ~\E i \in DOMAIN fit : fit[i] = t), 1,
                     IF Len(fit) < MaxNext THEN MaxNext - Len(fit) ELSE 0)
SomeNext(next, state, term) == FitFirst(next, SelectSeq(next, LAMBDA t : t # state /\ HasAction(t, term)))
Insertable(state, term) ==
  UpTo(SelectSeq(SomeNext(NextStates(state), state, term), LAMBDA t : t # state), MaxNext)
InsertOn(Q, n, state, pos) ==
  [StoreNode(Q, n, Rec(Err, pos, pos, 1), TRUE)
     EXCEPT !.st[n] = [PushState(@, state, pos) EXCEPT !.score = @ - ErrorCost]]
InsertState(P, k, state) == InsertOn(Split(P, k), Newest(P) + 1, state, P.st[k].pos)
CanForce(P, k) == IsReduce(Table[P.st[k].state].force)
ForceReduce(P, k) ==
  LET s == P.st[k]   force == Table[s.state].force
  IN Reduce(IF ValidAction(s.state, force) THEN P
            ELSE [StoreNode(P, k, Rec(Err, s.reducePos, s.reducePos, 1), TRUE) EXCEPT !.st[k].score = @ - ReduceCost],
            k, force)
RECURSIVE ForceAll(_, _)
ForceAll(P, k) ==
  IF ~Table[P.st[k].state].accepting /\ CanForce(P, k) THEN ForceAll(ForceReduce(P, k), k) ELSE P
SameState(s, t) ==
  /\ s.state = t.state /\ Len(s.frames) = Len(t.frames)
  /\ \A i \in DOMAIN s.frames : s.frames[i].state = t.frames[i].state
DeadEnd(s) == Len(s.frames) = 1 /\ Table[s.state].actions = <<>> /\ ~IsReduce(Table[s.state].default)
----------------------------------------------------------------------------
(* advanceStack: a default reduction, or the actions of the token; all but    *)
(* the last get a stack of their own.  "split" takes stacks that did not move *)
(* ("loose" when there are none to take), "news" those that did.              *)
RECURSIVE ApplyAll(_, _, _, _)
SplitOff(out, n, from) ==
  IF out.P.st[n].pos > from THEN [out EXCEPT !.news = Append(@, n)] ELSE [out EXCEPT !.split = Append(@, n)]
ApplyFirst(out, k, n, action, token) == [out EXCEPT !.P = ApplyAction(IF n = k THEN @ ELSE Split(@, k), n, action, token)]
ApplyAll(out, k, actions, token) ==
  LET n == IF Len(actions) = 1 THEN k ELSE Newest(out.P) + 1
      next == ApplyFirst(out, k, n, actions[1], token)
  IN IF n = k THEN [next EXCEPT !.moved = TRUE]
     ELSE ApplyAll(SplitOff(next, n, out.P.st[k].pos), k, Tail(actions), token)
Still(P) == [P |-> P, moved |-> FALSE, news |-> <<>>, split |-> <<>>]
AdvanceOn(P, k, actions, token, loose) ==
  IF token.value = Err \/ actions = <<>> THEN Still(P)
  ELSE ApplyAll(Still(P), k, IF loose THEN SubSeq(actions, 1, 1) ELSE actions, token)
AdvanceWith(P, k, token, loose) == AdvanceOn(P, k, ActionsFor(P.st[k].state, token.value), token, loose)
AdvanceStack(P, k, loose) ==
  IF IsReduce(Table[P.st[k].state].default)
  THEN [Still(P) EXCEPT !.P = Reduce(P, k, Table[P.st[k].state].default), !.moved = TRUE]
  ELSE AdvanceWith(P, k, MainToken(P.text, P.st[k]), loose)

(* pushStackDedup, and advanceFully: on until the stack moves or is stuck.    *)
PushUnless(P, news, k, same) ==
  IF same = <<>> THEN Append(news, k)
  ELSE IF P.st[news[same[1]]].score < P.st[k].score THEN [news EXCEPT ![same[1]] = k] ELSE news
PushDedup(P, news, k) ==
  PushUnless(P, news, k,
    SelectSeq([i \in DOMAIN news |-> i],
              LAMBDA i : P.st[news[i]].pos = P.st[k].pos /\ SameState(P.st[news[i]], P.st[k])))
RECURSIVE AdvanceFully(_, _, _, _), FullyAfter(_, _, _, _)
FullyAfter(step, k, news, pos) ==
  IF ~step.moved THEN [P |-> step.P, news |-> news, moved |-> FALSE]
  ELSE IF step.P.st[k].pos > pos THEN [P |-> step.P, news |-> PushDedup(step.P, news, k), moved |-> TRUE]
  ELSE AdvanceFully(step.P, k, news, pos)
AdvanceFully(P, k, news, pos) == FullyAfter(AdvanceStack(P, k, TRUE), k, news, pos)
Fully(x, k) == AdvanceFully(x.P, k, x.news, x.P.st[k].pos)

(* runRecovery: a stack that is stuck is forced to reduce, gets what the      *)
(* grammar lacks inserted, and deletes the token; at the end of the text the  *)
(* best one is the result.                                                    *)
RECURSIVE ForceOn(_, _, _), ForceNext(_, _, _, _), ForcedTo(_, _, _), Insertions(_, _, _), Recover(_, _)
With(x, done) == [x EXCEPT !.P = done.P, !.news = done.news]
ForceNext(x, done, k, left) == IF done.moved THEN With(x, done) ELSE ForceOn(With(x, done), k, left - 1)
ForcedTo(x, k, left) == IF left = 0 THEN x ELSE ForceNext(x, Fully(x, k), k, left)
ForceOn(x, k, left) == IF CanForce(x.P, k) THEN ForcedTo([x EXCEPT !.P = ForceReduce(@, k)], k, left) ELSE x
Inserted(x, n) == With(x, Fully(x, n))
Insertions(x, k, states) ==
  IF states = <<>> THEN x
  ELSE Insertions(Inserted([x EXCEPT !.P = InsertState(@, k, Head(states))], Newest(x.P) + 1), k, Tail(states))
Deletion(P, k, token) == IF token.end = P.st[k].pos THEN [value |-> Err, end |-> token.end + 1] ELSE token
DeletionTo(x, P, k) == [x EXCEPT !.P = P, !.news = PushDedup(P, @, k)]
WithDeletion(x, k, token) == DeletionTo(x, RecoverByDelete(x.P, k, Deletion(x.P, k, token)), k)
BestFinished(x, k) ==
  IF x.finished = NoParent \/ x.P.st[x.finished].score < x.P.st[k].score THEN [x EXCEPT !.finished = k] ELSE x
Restarted(P, k) == [P EXCEPT !.st[k].state = P.st[k].frames[1].state, !.st[k].frames = <<>>]
RecoverLast(x, k, token) ==
  IF Len(x.P.text) > x.P.st[k].pos THEN WithDeletion(x, k, token) ELSE BestFinished(x, k)
RecoverOne(x, k, token) ==
  LET forced == ForceOn([x EXCEPT !.P = Split(@, k)], Newest(x.P) + 1, ForceLimit)
  IN RecoverLast(Insertions(forced, k, Insertable(x.P.st[k].state, token.value)), k, token)
RecoverAgain(x, done, k, token) ==
  IF done.moved THEN With(x, done) ELSE RecoverOne([x EXCEPT !.P = done.P], k, token)
Restart(x, k, token) == RecoverAgain(x, Fully(x, k), k, token)
RecoverStack(x, k, token) ==
  IF ~DeadEnd(x.P.st[k]) THEN RecoverOne(x, k, token)
  ELSE IF x.restarted THEN x
  ELSE Restart([x EXCEPT !.P = Restarted(@, k), !.restarted = TRUE], k, token)
Recover(x, stopped) ==
  IF stopped = <<>> THEN x
  ELSE Recover(RecoverStack(x, Head(stopped).k, Head(stopped).token), Tail(stopped))

(* advance: every stack at the position moves on; then the parse is finished, *)
(* or recovers, or drops the stacks another one stands for.                   *)
RECURSIVE MoveStacks(_, _), MoveBy(_, _, _), Pruned(_, _, _, _)
Stopped(P, k) == [k |-> k, token |-> MainToken(P.text, P.st[k])]
MoveBy(x, step, queue) ==
  IF step.moved THEN MoveStacks([x EXCEPT !.P = step.P, !.news = @ \o step.news], queue \o step.split)
  ELSE MoveStacks([x EXCEPT !.stopped = Append(@, Stopped(x.P, Head(queue)))], Tail(queue))
MoveStacks(x, queue) ==
  IF queue = <<>> THEN x
  ELSE IF x.P.st[Head(queue)].pos > x.P.pos THEN MoveStacks([x EXCEPT !.news = Append(@, Head(queue))], Tail(queue))
  ELSE MoveBy(x, AdvanceStack(x.P, Head(queue), FALSE), queue)
FirstBest(P, done) ==
  LET best == {i \in DOMAIN done : \A j \in DOMAIN done : P.st[done[j].k].score <= P.st[done[i].k].score}
  IN IF done = <<>> THEN NoParent ELSE done[CHOOSE i \in best : \A j \in best : i <= j].k
FinishedStack(P, stopped) ==
  FirstBest(P, SelectSeq(stopped, LAMBDA e : P.st[e.k].pos = Len(P.text) /\ Table[P.st[e.k].state].accepting))
Better(s, t) == s.score > t.score \/ (s.score = t.score /\ Len(s.buffer) > Len(t.buffer))
Alike(s, t) == SameState(s, t) \/ (Len(s.buffer) > MinPrune /\ Len(t.buffer) > MinPrune)
Pruned(P, news, i, j) ==
  IF i >= Len(news) THEN news
  ELSE IF j > Len(news) THEN Pruned(P, news, i + 1, i + 2)
  ELSE LET s == P.st[news[i]]   t == P.st[news[j]]
       IN IF ~Alike(s, t) THEN Pruned(P, news, i, j + 1)
          ELSE IF Better(s, t) THEN Pruned(P, RemoveAt(news, j), i, j)
          ELSE Pruned(P, RemoveAt(news, i), i, i + 1)
ByScore(P, news) ==
  LET order == SortSeq([i \in DOMAIN news |-> i],
                 LAMBDA i, j : P.st[news[i]].score > P.st[news[j]].score
                               \/ (P.st[news[i]].score = P.st[news[j]].score /\ i < j))
  IN [i \in DOMAIN news |-> news[order[i]]]
Remaining(P, news) ==
  LET most == IF P.recovering = 1 THEN 1 ELSE P.recovering * MaxRemaining
  IN IF Len(news) > most THEN SubSeq(ByScore(P, news), 1, most) ELSE news
WithStacks(P, left) ==
  LET places == {P.st[left[i]].pos : i \in DOMAIN left}
      past == \E i \in DOMAIN left : P.st[left[i]].reducePos > P.pos
  IN [P EXCEPT !.stacks = left, !.pos = CHOOSE p \in places : \A q \in places : p <= q,
               !.recovering = IF @ > 0 /\ past THEN @ - 1 ELSE @]
GoOn(P, news) == WithStacks(P, IF P.recovering > 0 THEN Remaining(P, news) ELSE Pruned(P, news, 1, 2))
AfterRecovery(x) ==
  IF x.finished # NoParent THEN [P |-> ForceAll(x.P, x.finished), result |-> x.finished]
  ELSE [P |-> GoOn(x.P, x.news), result |-> NoParent]
Recovered(x) == AfterRecovery(IF x.P.recovering > 0 /\ x.stopped # <<>> THEN Recover(x, x.stopped) ELSE x)
NoneMoved(x, finished) ==
  IF finished # NoParent THEN [P |-> x.P, result |-> finished]
  ELSE Recovered([x EXCEPT !.P.recovering = IF x.news = <<>> /\ @ = 0 THEN RecoverDistance ELSE @])
AfterMoves(x) == NoneMoved(x, IF x.news = <<>> THEN FinishedStack(x.P, x.stopped) ELSE NoParent)
Advance(P) ==
  AfterMoves(MoveStacks([P |-> P, news |-> <<>>, stopped |-> <<>>, finished |-> NoParent, restarted |-> FALSE], P.stacks))

(* The nodes of a stack, those it shares first; forceFinish.                  *)
RECURSIVE NodesOf(_, _)
NodesOf(st, k) ==
  (IF st[k].parent = NoParent THEN <<>> ELSE SubSeq(NodesOf(st, st[k].parent), 1, st[k].base)) \o st[k].buffer
ForceFinish(P) == NodesOf(ForceAll(Split(P, P.stacks[1]), Newest(P) + 1).st, Newest(P) + 1)
----------------------------------------------------------------------------
NoParse == [text |-> <<>>, st |-> <<>>, stacks |-> <<>>, pos |-> 0, recovering |-> 0]
NoNodes == <<>>
StartParse(text) == [NoParse EXCEPT !.text = text, !.st = <<Start>>, !.stacks = <<1>>]
ParserInit == seqText = <<>> /\ lexemes = <<>> /\ parse = NoParse /\ nodes = NoNodes
TypeLexeme ==
  /\ parse = NoParse /\ Len(lexemes) < MaxLexemes
  /\ \E l \in DOMAIN Lexemes : seqText' = seqText \o Lexemes[l] /\ lexemes' = Append(lexemes, l)
  /\ nodes' = NoNodes /\ UNCHANGED parse
BeginParse ==
  /\ parse = NoParse /\ nodes = NoNodes /\ parse' = StartParse(seqText)
  /\ UNCHANGED <<seqText, lexemes, nodes>>
AdvanceParse ==
  /\ parse # NoParse
  /\ \E step \in {Advance(parse)} :
        IF step.result = NoParent THEN parse' = step.P /\ UNCHANGED nodes
        ELSE parse' = NoParse /\ nodes' = NodesOf(step.P.st, step.result)
  /\ UNCHANGED <<seqText, lexemes>>
ParserNext == TypeLexeme \/ BeginParse \/ AdvanceParse
ParserSpec == ParserInit /\ [][ParserNext]_parserVars
----------------------------------------------------------------------------
(* The nodes another one covers come before it and lie within it, and of two  *)
(* of which neither covers the other the first ends before the second starts. *)
Covers(ns, i, j) == j < i /\ j > i - ns[i].size
NestedAmong(ns, some) ==
  \A i \in some : \A j \in some \cap (1..i - 1) :
    IF Covers(ns, i, j) THEN ns[i].start <= ns[j].start /\ ns[j].end <= ns[i].end ELSE ns[j].end <= ns[i].start
Named(ns) == {i \in DOMAIN ns : ns[i].id # Err}
AllNodes == IF parse # NoParse THEN ForceFinish(parse) ELSE nodes

(* What the highlighter and the completions of the editor walk is a tree: the *)
(* named nodes of a parse nest, whatever was deleted or inserted to get them, *)
(* whichever of the stacks won and wherever the editor stopped the parse to   *)
(* draw with what there is.                                                   *)
NamedIn(ns) == NestedAmong(ns, Named(ns))
NamedNest == NamedIn(AllNodes)
=============================================================================
