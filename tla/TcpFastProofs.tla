----------------------------- MODULE TcpFastProofs -----------------------------
(***************************************************************************)
(* Proofs about TcpFast, for any set of descriptors and any number of      *)
(* faults: types, close() is final, no socket is leaked, and a connection  *)
(* that works is kept.                                                     *)
(***************************************************************************)
EXTENDS TcpFast, TLAPS

(* A thread at one of these points is the owner of the socket in its hands:  *)
(* it is about to store it or to close it.  At the other points it has only  *)
(* a snapshot, and what it returns from is left to the owner.                *)
OwningPcs == {"shut", "establish", "store", "storeListener", "storePending",
              "shutConnection", "shutRest"}
Owns(a, s) == pc[a] \in OwningPcs /\ at[a] = s
Owned == \A s \in Sockets : sock[s] # "closed" =>
            s \in {connection, listener, pending} \/ Owns("r", s) \/ Owns("w", s) \/ Owns("c", s)

(* What close() has taken stays taken.                                       *)
Final == /\ pc["c"] # "idle" => ~running /\ connection = None
         /\ pc["c"] \in {"shutRest", "done"} => listener = None /\ pending = None

(* While the reading thread connects there is nothing it could overwrite,    *)
(* and a server has nothing pending, a client no listener.                   *)
Connecting == {"connect", "listen", "storeListener", "accept", "begin", "storePending",
               "poll", "take", "fail", "establish", "store"}
Vacant(p) == /\ p \in Connecting => connection = None
             /\ p \in {"listen", "storeListener"} => listener = None /\ role = "server"
             /\ p \in {"begin", "storePending"} => pending = None /\ role # "server"
Alone == /\ Vacant(pc["r"])
         /\ IF role = "server" THEN pending = None ELSE listener = None

Inv == TypeOK /\ Final /\ Owned /\ Alone

(* A thread moves: what happens to its place, its hand and those of others.  *)
Moves(a, p, s) ==
    /\ pc' \in [Threads -> Pcs] /\ at' \in [Threads -> Maybe]
    /\ pc'[a] = p /\ at'[a] = s
    /\ \A b \in Threads : b # a => pc'[b] = pc[b] /\ at'[b] = at[b]

LEMMA GotoMoves ==
    ASSUME TypeOK, NEW a \in Threads, NEW p \in Pcs, NEW s \in Maybe, Goto(a, p, s)
    PROVE  Moves(a, p, s)
BY DEF TypeOK, Goto, Moves

LEMMA ReturnMoves ==
    ASSUME TypeOK, NEW a \in Threads, Return(a)
    PROVE  Moves(a, "idle", None)
BY GotoMoves DEF Return, Pcs, Maybe

(* A socket is closed, or changes its status.                                *)
Sets(s, st) ==
    /\ sock' \in [Sockets -> Statuses] /\ backlog' \in 0 .. 1
    /\ \A t \in Sockets : sock'[t] = IF t = s THEN st ELSE sock[t]

LEMMA CloseSets ==
    ASSUME TypeOK, NEW s \in Sockets, CloseSocket(s)
    PROVE  Sets(s, "closed")
BY DEF CloseSocket, TypeOK, Statuses, Sets

LEMMA BecomesSets ==
    ASSUME TypeOK, NEW s \in Sockets, NEW st \in Statuses, Becomes(s, st)
    PROVE  Sets(s, st)
BY DEF Becomes, TypeOK, Statuses, Sets

LEMMA InitInv == Init => Inv
<1> SUFFICES ASSUME Init PROVE Inv
  OBVIOUS
<1>1. /\ pc = [a \in Threads |-> "idle"] /\ at = [a \in Threads |-> None]
      /\ sock \in [Sockets -> {"closed", "listening"}] /\ listener \in Maybe
      /\ \A s \in Sockets : sock[s] # "closed" => s = listener
  BY DEF Init, Maybe
<1>2. pc \in [Threads -> Pcs] /\ at \in [Threads -> Maybe] /\ sock \in [Sockets -> Statuses]
  BY <1>1 DEF Pcs, Maybe, Statuses
<1>3. backlog \in 0 .. 1 /\ faults \in 0 .. MaxFaults
  BY AdapterAssumption DEF Init
<1>4. TypeOK
  BY <1>1, <1>2, <1>3 DEF Init, TypeOK, Maybe
<1>5. Final /\ Owned /\ Alone
  BY <1>1 DEF Init, Final, Owned, Owns, Threads, Alone, Vacant, Connecting
<1> QED
  BY <1>4, <1>5 DEF Inv

-----------------------------------------------------------------------------
(* The shapes of a step.  The first: a thread moves on and no socket changes *)
(* hands, because it owns none or takes along the one it owns.               *)

LEMMA Look ==
    ASSUME Inv, NEW a \in Threads, NEW p \in Pcs, NEW s \in Maybe, Moves(a, p, s),
           pc[a] \in OwningPcs => at[a] \notin Sockets \/ (p \in OwningPcs /\ s = at[a]),
           a = "c" => pc["c"] # "idle" /\ (p \in {"shutRest", "done"} => pc["c"] \in {"shutRest", "done"}),
           a = "r" => Vacant(p),
           UNCHANGED <<role, running, connection, listener, pending, sock>>,
           due' \in BOOLEAN, backlog' \in 0 .. 1, faults' \in 0 .. MaxFaults
    PROVE  Inv'
<1>1. TypeOK'
  BY DEF Inv, TypeOK, Moves
<1>2. Final'
  <2>1. CASE a = "c"
    BY <2>1 DEF Inv, Final, Moves
  <2>2. CASE a # "c"
    BY <2>2 DEF Inv, Final, Moves, Threads
  <2> QED
    BY <2>1, <2>2
<1>3. Owned'
  <2>1. \A b \in Threads, t \in Sockets : Owns(b, t) => Owns(b, t)'
    BY DEF Owns, Moves
  <2> QED
    BY <2>1 DEF Inv, Owned, Threads
<1>4. Alone'
  BY DEF Inv, Alone, Vacant, Moves, Threads
<1> QED
  BY <1>1, <1>2, <1>3, <1>4 DEF Inv

(* A thread closes the socket it holds and goes on.                          *)
LEMMA Closing ==
    ASSUME Inv, NEW a \in Threads, NEW p \in Pcs \ Connecting, Moves(a, p, None),
           at[a] \in Sockets, Sets(at[a], "closed"),
           a = "c" => pc["c"] # "idle" /\ (p \in {"shutRest", "done"} => pc["c"] \in {"shutRest", "done"}),
           UNCHANGED <<role, running, connection, listener, pending>>,
           due' \in BOOLEAN, faults' \in 0 .. MaxFaults
    PROVE  Inv'
<1>1. TypeOK'
  BY DEF Inv, TypeOK, Moves, Sets
<1>2. Final'
  <2>1. CASE a = "c"
    BY <2>1 DEF Inv, Final, Moves
  <2>2. CASE a # "c"
    BY <2>2 DEF Inv, Final, Moves, Threads
  <2> QED
    BY <2>1, <2>2
<1>3. Owned'
  <2>1. \A b \in Threads, t \in Sockets : Owns(b, t) /\ t # at[a] => Owns(b, t)'
    BY DEF Owns, Moves
  <2>2. \A t \in Sockets : sock'[t] # "closed" => sock[t] # "closed" /\ t # at[a]
    BY DEF Sets
  <2> QED
    BY <2>1, <2>2 DEF Inv, Owned, Threads
<1>4. Alone'
  BY DEF Inv, Alone, Vacant, Moves, Threads, Connecting
<1> QED
  BY <1>1, <1>2, <1>3, <1>4 DEF Inv

LEMMA CloseHeld ==
    ASSUME Inv, NEW a \in Threads, NEW p \in Pcs \ Connecting, Moves(a, p, None), CloseSocket(at[a]),
           a = "c" => pc["c"] # "idle" /\ (p \in {"shutRest", "done"} => pc["c"] \in {"shutRest", "done"}),
           UNCHANGED <<role, running, connection, listener, pending, due, faults>>
    PROVE  Inv'
<1>1. due' \in BOOLEAN /\ faults' \in 0 .. MaxFaults /\ at[a] \in Maybe
  BY DEF Inv, TypeOK
<1>2. CASE at[a] \in Sockets
  BY <1>1, <1>2, CloseSets, Closing DEF Inv
<1>3. CASE at[a] \notin Sockets
  <2>1. sock' = sock /\ backlog' \in 0 .. 1
    BY <1>3 DEF CloseSocket, Inv, TypeOK
  <2>2. Vacant(p)
    BY DEF Vacant, Connecting
  <2> QED
    BY <1>1, <1>3, <2>1, <2>2, Look DEF Maybe
<1> QED
  BY <1>2, <1>3

(* The reading thread opens a socket and owns it.                            *)
LEMMA Opening ==
    ASSUME Inv, NEW p \in OwningPcs, NEW s \in Sockets, NEW st \in Statuses,
           Moves("r", p, s), Sets(s, st), pc["r"] \notin OwningPcs, Vacant(p),
           UNCHANGED <<role, running, connection, listener, pending>>,
           due' \in BOOLEAN, faults' \in 0 .. MaxFaults
    PROVE  Inv'
<1>1. TypeOK'
  BY DEF Inv, TypeOK, Moves, Sets
<1>2. Final'
  BY DEF Inv, Final, Moves, Threads
<1>3. Owned'
  <2>1. \A b \in Threads, t \in Sockets : Owns(b, t) => Owns(b, t)'
    BY DEF Owns, Moves
  <2>2. Owns("r", s)'
    BY DEF Owns, Moves, Threads
  <2>3. \A t \in Sockets : t # s /\ sock'[t] # "closed" => sock[t] # "closed"
    BY DEF Sets
  <2> QED
    BY <2>1, <2>2, <2>3 DEF Inv, Owned, Threads
<1>4. Alone'
  BY DEF Inv, Alone, Vacant, Moves, Threads
<1> QED
  BY <1>1, <1>2, <1>3, <1>4 DEF Inv

(* The reading thread hands the socket it owns to the adapter, which owned   *)
(* none in that place, or takes it from there; the adapter is not closed     *)
(* when it is given one.                                                     *)
LEMMA Handing ==
    ASSUME Inv, NEW p \in Pcs, NEW s \in Maybe, Moves("r", p, s),
           connection' \in Maybe, listener' \in Maybe, pending' \in Maybe,
           \A t \in Sockets : t \in {connection, listener, pending} \/ Owns("r", t)
                => t \in {connection', listener', pending'} \/ Owns("r", t)',
           p \in Connecting => connection' = None, p \notin {"listen", "storeListener", "begin", "storePending"},
           IF role = "server" THEN pending' = None ELSE listener' = None,
           ~running => /\ connection' \in {connection, None} /\ listener' \in {listener, None}
                       /\ pending' \in {pending, None},
           UNCHANGED <<role, running, sock>>,
           due' \in BOOLEAN, backlog' \in 0 .. 1, faults' \in 0 .. MaxFaults
    PROVE  Inv'
<1>1. TypeOK'
  BY DEF Inv, TypeOK, Moves
<1>2. Final'
  BY DEF Inv, Final, Moves, Threads
<1>3. Owned'
  <2>1. \A b \in {"w", "c"}, t \in Sockets : Owns(b, t) => Owns(b, t)'
    BY DEF Owns, Moves, Threads
  <2> QED
    BY <2>1 DEF Inv, Owned
<1>4. Alone'
  BY DEF Inv, Alone, Vacant, Moves, Threads
<1> QED
  BY <1>1, <1>2, <1>3, <1>4 DEF Inv

-----------------------------------------------------------------------------
(* The steps of read().                                                      *)

LEMMA Rest == Inv => due \in BOOLEAN /\ backlog \in 0 .. 1 /\ faults \in 0 .. MaxFaults
BY DEF Inv, TypeOK

LEMMA FaultType == Inv /\ Fault => faults' \in 0 .. MaxFaults
BY AdapterAssumption DEF Inv, TypeOK, Fault

LEMMA RReadStep ==
    ASSUME Inv, RRead
    PROVE  Inv'
<1>1. CASE connection # None /\ Goto("r", "recv", connection)
  <2>1. Moves("r", "recv", connection)
    BY <1>1, GotoMoves DEF Inv, TypeOK, Pcs, Threads
  <2> QED
    BY <2>1, Rest, Look DEF RRead, shared, Inv, TypeOK, Pcs, Threads, OwningPcs, Vacant, Connecting
<1>2. CASE connection = None /\ Goto("r", "connect", None)
  <2>1. Moves("r", "connect", None)
    BY <1>2, GotoMoves DEF Inv, Pcs, Threads, Maybe
  <2> QED
    BY <1>2, <2>1, Rest, Look DEF RRead, shared, Pcs, Threads, Maybe, OwningPcs, Vacant
<1> QED
  BY <1>1, <1>2 DEF RRead

LEMMA RRecvStep ==
    ASSUME Inv, RRecv
    PROVE  Inv'
<1>1. CASE Return("r")
  <2>1. Moves("r", "idle", None)
    BY <1>1, ReturnMoves DEF Inv, Threads
  <2> QED
    BY <2>1, Rest, Look DEF RRecv, shared, Pcs, Threads, Maybe, OwningPcs, Vacant, Connecting
<1>2. CASE Goto("r", "drop", at.r)
  <2>1. at["r"] \in Maybe
    BY DEF Inv, TypeOK, Threads
  <2>2. Moves("r", "drop", at["r"])
    BY <1>2, <2>1, GotoMoves DEF Inv, Pcs, Threads
  <2> QED
    BY <2>1, <2>2, Rest, Look DEF RRecv, shared, Pcs, Threads, OwningPcs, Vacant, Connecting
<1> QED
  BY <1>1, <1>2 DEF RRecv

LEMMA ShutStep ==
    ASSUME Inv, NEW a \in {"r", "w"}, Shut(a)
    PROVE  Inv'
<1>1. Moves(a, "idle", None)
  BY ReturnMoves DEF Shut, Inv, Threads
<1> QED
  BY <1>1, CloseHeld DEF Shut, shared, Pcs, Threads, Connecting

LEMMA ForgetStep ==
    ASSUME Inv, NEW a \in {"r", "w"}, Forget(a)
    PROVE  Inv'
<1>1. at[a] \in Maybe /\ connection' \in Maybe
  BY DEF Forget, Inv, TypeOK, Threads, Maybe
<1>2. Moves(a, "shut", at[a])
  BY <1>1, GotoMoves DEF Forget, Inv, Pcs, Threads
<1>3. TypeOK'
  BY <1>1, <1>2 DEF Forget, Inv, TypeOK, Moves
<1>4. Final'
  BY <1>2 DEF Forget, Inv, Final, Moves, Threads
<1>5. Owned'
  <2>1. Owns(a, at[a])'
    BY <1>2 DEF Owns, Moves, OwningPcs
  <2>2. \A b \in Threads, t \in Sockets : Owns(b, t) => Owns(b, t)'
    BY <1>2 DEF Owns, Moves, OwningPcs
  <2>3. \A t \in Sockets : t \in {connection, listener, pending}
             => t \in {connection', listener', pending'} \/ Owns(a, t)'
    BY <1>2 DEF Forget, Owns, Moves, OwningPcs
  <2>4. a \in {"r", "w"} /\ sock' = sock
    BY DEF Forget
  <2> QED
    BY <2>2, <2>3, <2>4 DEF Inv, Owned, Threads
<1>6. Alone'
  BY <1>2 DEF Forget, Inv, Alone, Vacant, Moves, Threads, Connecting
<1> QED
  BY <1>3, <1>4, <1>5, <1>6 DEF Inv

LEMMA REstablishStep ==
    ASSUME Inv, REstablish
    PROVE  Inv'
<1>1. at["r"] \in Maybe /\ connection = None
  BY DEF REstablish, Inv, TypeOK, Threads, Alone, Vacant, Connecting
<1>2. CASE Goto("r", "store", at.r) /\ UNCHANGED <<sock, backlog>>
  <2>1. Moves("r", "store", at["r"])
    BY <1>1, <1>2, GotoMoves DEF Inv, Pcs, Threads
  <2> QED
    BY <1>1, <1>2, <2>1, Rest, Look DEF REstablish, shared, Pcs, Threads, OwningPcs, Vacant
<1>3. CASE CloseSocket(at.r) /\ Return("r")
  <2>1. Moves("r", "idle", None)
    BY <1>3, ReturnMoves DEF Inv, Threads
  <2> QED
    BY <1>3, <2>1, CloseHeld DEF REstablish, shared, Pcs, Threads, Connecting
<1> QED
  BY <1>2, <1>3 DEF REstablish

LEMMA RStoreStep ==
    ASSUME Inv, RStore
    PROVE  Inv'
<1>1. at["r"] \in Maybe /\ connection = None
  BY DEF RStore, Inv, TypeOK, Threads, Alone, Vacant, Connecting
<1>2. Moves("r", "idle", None)
  BY ReturnMoves DEF RStore, Inv, Threads
<1>3. CASE running /\ connection' = at.r /\ UNCHANGED <<sock, backlog>>
  <2>1. \A t \in Sockets : t \in {connection, listener, pending} \/ Owns("r", t)
             => t \in {connection', listener', pending'} \/ Owns("r", t)'
    BY <1>1, <1>3, AdapterAssumption DEF RStore, Owns
  <2>2. listener \in Maybe /\ pending \in Maybe
    BY DEF Inv, TypeOK
  <2>3. IF role = "server" THEN pending' = None ELSE listener' = None
    BY <1>3 DEF RStore, Inv, Alone, Vacant
  <2> QED
    BY <1>1, <1>2, <1>3, <2>1, <2>2, <2>3, Rest, Handing DEF RStore, Pcs, Maybe, Connecting
<1>4. CASE ~running /\ CloseSocket(at.r) /\ UNCHANGED connection
  BY <1>2, <1>4, CloseHeld DEF RStore, Pcs, Threads, Connecting
<1> QED
  BY <1>3, <1>4 DEF RStore

-----------------------------------------------------------------------------
(* The server.                                                               *)

LEMMA SConnectStep ==
    ASSUME Inv, SConnect
    PROVE  Inv'
<1>1. connection = None /\ listener \in Maybe
  BY DEF SConnect, Inv, TypeOK, Alone, Vacant, Connecting
<1>2. CASE Return("r")
  <2>1. Moves("r", "idle", None)
    BY <1>2, ReturnMoves DEF Inv, Threads
  <2> QED
    BY <2>1, Rest, Look DEF SConnect, shared, Pcs, Threads, Maybe, OwningPcs, Vacant, Connecting
<1>3. CASE listener = None /\ Goto("r", "listen", None)
  <2>1. Moves("r", "listen", None)
    BY <1>3, GotoMoves DEF Inv, Pcs, Threads, Maybe
  <2> QED
    BY <1>1, <1>3, <2>1, Rest, Look DEF SConnect, shared, Pcs, Threads, Maybe, OwningPcs, Vacant
<1>4. CASE Goto("r", "accept", listener)
  <2>1. Moves("r", "accept", listener)
    BY <1>1, <1>4, GotoMoves DEF Inv, Pcs, Threads
  <2> QED
    BY <1>1, <2>1, Rest, Look DEF SConnect, shared, Pcs, Threads, OwningPcs, Vacant
<1> QED
  BY <1>2, <1>3, <1>4 DEF SConnect

LEMMA SListenStep ==
    ASSUME Inv, SListen
    PROVE  Inv'
<1>1. connection = None /\ listener = None /\ role = "server" /\ pc["r"] \notin OwningPcs
  BY DEF SListen, Inv, Alone, Vacant, Connecting, OwningPcs
<1>2. ASSUME NEW s \in Sockets, Becomes(s, "listening"), Goto("r", "storeListener", s),
             UNCHANGED <<due, faults>>
      PROVE  Inv'
  <2>1. Moves("r", "storeListener", s)
    BY <1>2, GotoMoves DEF Inv, Pcs, Threads, Maybe
  <2>2. Sets(s, "listening") /\ Vacant("storeListener")
    BY <1>1, <1>2, BecomesSets DEF Inv, Statuses, Vacant
  <2> QED
    BY <1>1, <1>2, <2>1, <2>2, Rest, Opening DEF SListen, OwningPcs, Statuses
<1>3. CASE /\ IF Bound THEN UNCHANGED faults ELSE Fault
           /\ due' = FALSE /\ Return("r") /\ UNCHANGED <<sock, backlog>>
  <2>1. Moves("r", "idle", None)
    BY <1>3, ReturnMoves DEF Inv, Threads
  <2>2. faults' \in 0 .. MaxFaults
    BY <1>3, Rest, FaultType
  <2> QED
    BY <1>3, <2>1, <2>2, Rest, Look DEF SListen, Pcs, Threads, Maybe, OwningPcs, Vacant, Connecting
<1> QED
  BY <1>2, <1>3 DEF SListen

LEMMA SStoreStep ==
    ASSUME Inv, SStore
    PROVE  Inv'
<1>1. at["r"] \in Maybe /\ connection = None /\ listener = None /\ pending \in Maybe
  BY DEF SStore, Inv, TypeOK, Threads, Alone, Vacant, Connecting
<1>2. CASE running /\ listener' = at.r /\ Goto("r", "accept", at.r) /\ UNCHANGED <<sock, backlog>>
  <2>1. Moves("r", "accept", at["r"])
    BY <1>1, <1>2, GotoMoves DEF Inv, Pcs, Threads
  <2>2. \A t \in Sockets : t \in {connection, listener, pending} \/ Owns("r", t)
             => t \in {connection', listener', pending'} \/ Owns("r", t)'
    BY <1>1, <1>2, AdapterAssumption DEF SStore, Owns
  <2>3. IF role = "server" THEN pending' = None ELSE listener' = None
    BY <1>2 DEF SStore, Inv, Alone, Vacant
  <2> QED
    BY <1>1, <1>2, <2>1, <2>2, <2>3, Rest, Handing DEF SStore, Pcs, Maybe
<1>3. CASE ~running /\ CloseSocket(at.r) /\ Return("r") /\ UNCHANGED listener
  <2>1. Moves("r", "idle", None)
    BY <1>3, ReturnMoves DEF Inv, Threads
  <2> QED
    BY <1>3, <2>1, CloseHeld DEF SStore, Pcs, Threads, Connecting
<1> QED
  BY <1>2, <1>3 DEF SStore

LEMMA SAcceptStep ==
    ASSUME Inv, SAccept
    PROVE  Inv'
<1>1. connection = None /\ pc["r"] \notin OwningPcs
  BY DEF SAccept, Inv, Alone, Vacant, Connecting, OwningPcs
<1>2. ASSUME NEW s \in Sockets, backlog > 0, backlog' = backlog - 1,
             sock' = [sock EXCEPT ![s] = "up"], Goto("r", "establish", s), UNCHANGED <<due, faults>>
      PROVE  Inv'
  <2>1. Moves("r", "establish", s)
    BY <1>2, GotoMoves DEF Inv, Pcs, Threads, Maybe
  <2>2. Sets(s, "up") /\ Vacant("establish")
    BY <1>1, <1>2 DEF Inv, TypeOK, Sets, Statuses, Vacant
  <2> QED
    BY <1>1, <1>2, <2>1, <2>2, Rest, Opening DEF SAccept, OwningPcs, Statuses
<1>3. ASSUME Return("r"), UNCHANGED sock, due' \in BOOLEAN, backlog' \in 0 .. 1,
             faults' \in 0 .. MaxFaults
      PROVE  Inv'
  <2>1. Moves("r", "idle", None)
    BY <1>3, ReturnMoves DEF Inv, Threads
  <2> QED
    BY <1>1, <1>3, <2>1, Look DEF SAccept, Pcs, Threads, Maybe, Vacant, Connecting
<1>4. CASE backlog = 0 /\ Return("r") /\ UNCHANGED <<due, sock, backlog, faults>>
  BY <1>3, <1>4, Rest
<1>5. CASE backlog > 0 /\ backlog' = backlog - 1 /\ Fault /\ Return("r") /\ UNCHANGED <<due, sock>>
  <2>1. backlog' \in 0 .. 1 /\ faults' \in 0 .. MaxFaults
    BY <1>5, Rest, FaultType
  <2> QED
    BY <1>3, <1>5, <2>1, Rest
<1>6. CASE backlog > 0 /\ due' = FALSE /\ Fault /\ Return("r") /\ UNCHANGED <<sock, backlog>>
  BY <1>3, <1>6, Rest, FaultType
<1> QED
  BY <1>2, <1>4, <1>5, <1>6 DEF SAccept

LEMMA SRelistenStep ==
    ASSUME Inv, SRelisten
    PROVE  Inv'
<1>1. Moves("r", "idle", None) /\ at["r"] \in Maybe /\ pc["r"] \notin OwningPcs
  BY ReturnMoves DEF SRelisten, Inv, TypeOK, Threads, OwningPcs
<1>2. CASE listener # at.r /\ UNCHANGED <<listener, due, sock, backlog>>
  BY <1>1, <1>2, Rest, Look DEF SRelisten, Pcs, Threads, Maybe, Vacant, Connecting
<1>3. CASE listener = at.r /\ listener' = None /\ CloseSocket(at.r) /\ due' = FALSE
  <2>1. /\ sock' \in [Sockets -> Statuses] /\ backlog' \in 0 .. 1
        /\ \A t \in Sockets : sock'[t] # "closed" => sock[t] # "closed" /\ t # at["r"]
    <3>1. CASE at["r"] \in Sockets
      BY <1>3, <3>1, CloseSets DEF Inv, Sets
    <3>2. CASE at["r"] \notin Sockets
      <4>1. sock' = sock /\ backlog' \in 0 .. 1
        BY <1>3, <3>2 DEF CloseSocket, Inv, TypeOK
      <4> QED
        BY <3>2, <4>1 DEF Inv, TypeOK
    <3> QED
      BY <3>1, <3>2
  <2>2. TypeOK'
    BY <1>1, <1>3, <2>1 DEF SRelisten, Inv, TypeOK, Moves, Maybe
  <2>3. Final'
    BY <1>1, <1>3 DEF SRelisten, Inv, Final, Moves, Threads
  <2>4. Owned'
    <3>1. \A b \in Threads, t \in Sockets : Owns(b, t) => Owns(b, t)'
      BY <1>1 DEF Owns, Moves
    <3> QED
      BY <1>3, <2>1, <3>1 DEF SRelisten, Inv, Owned, Threads
  <2>5. Alone'
    BY <1>1, <1>3 DEF SRelisten, Inv, Alone, Vacant, Moves, Threads, Connecting
  <2> QED
    BY <2>2, <2>3, <2>4, <2>5 DEF Inv
<1> QED
  BY <1>2, <1>3 DEF SRelisten

-----------------------------------------------------------------------------
(* The client.                                                               *)

LEMMA CConnectStep ==
    ASSUME Inv, CConnect
    PROVE  Inv'
<1>1. connection = None /\ pending \in Maybe
  BY DEF CConnect, Inv, TypeOK, Alone, Vacant, Connecting
<1>2. CASE Goto("r", "poll", pending)
  <2>1. Moves("r", "poll", pending)
    BY <1>1, <1>2, GotoMoves DEF Inv, Pcs, Threads
  <2> QED
    BY <1>1, <2>1, Rest, Look DEF CConnect, shared, Pcs, Threads, OwningPcs, Vacant
<1>3. CASE Return("r")
  <2>1. Moves("r", "idle", None)
    BY <1>3, ReturnMoves DEF Inv, Threads
  <2> QED
    BY <2>1, Rest, Look DEF CConnect, shared, Pcs, Threads, Maybe, OwningPcs, Vacant, Connecting
<1>4. CASE pending = None /\ Goto("r", "begin", None)
  <2>1. Moves("r", "begin", None)
    BY <1>4, GotoMoves DEF Inv, Pcs, Threads, Maybe
  <2> QED
    BY <1>1, <1>4, <2>1, Rest, Look DEF CConnect, shared, Pcs, Threads, Maybe, OwningPcs, Vacant
<1> QED
  BY <1>2, <1>3, <1>4 DEF CConnect

LEMMA CBeginStep ==
    ASSUME Inv, CBegin
    PROVE  Inv'
<1>1. connection = None /\ pending = None /\ role # "server" /\ pc["r"] \notin OwningPcs
  BY DEF CBegin, Inv, Alone, Vacant, Connecting, OwningPcs
<1>2. ASSUME NEW s \in Sockets, Becomes(s, "connecting"), Goto("r", "storePending", s), UNCHANGED faults
      PROVE  Inv'
  <2>1. Moves("r", "storePending", s)
    BY <1>2, GotoMoves DEF Inv, Pcs, Threads, Maybe
  <2>2. Sets(s, "connecting") /\ Vacant("storePending")
    BY <1>1, <1>2, BecomesSets DEF Inv, Statuses, Vacant
  <2> QED
    BY <1>1, <1>2, <2>1, <2>2, Rest, Opening DEF CBegin, OwningPcs, Statuses
<1>3. CASE Fault /\ Goto("r", "fail", None) /\ UNCHANGED <<sock, backlog>>
  <2>1. Moves("r", "fail", None)
    BY <1>3, GotoMoves DEF Inv, Pcs, Threads, Maybe
  <2> QED
    BY <1>1, <1>3, <2>1, Rest, FaultType, Look DEF CBegin, Pcs, Threads, Maybe, Vacant
<1> QED
  BY <1>2, <1>3 DEF CBegin

LEMMA CStoreStep ==
    ASSUME Inv, CStore
    PROVE  Inv'
<1>1. at["r"] \in Maybe /\ connection = None /\ pending = None /\ listener \in Maybe
  BY DEF CStore, Inv, TypeOK, Threads, Alone, Vacant, Connecting
<1>2. CASE running /\ pending' = at.r /\ Goto("r", "poll", at.r) /\ UNCHANGED <<sock, backlog>>
  <2>1. Moves("r", "poll", at["r"])
    BY <1>1, <1>2, GotoMoves DEF Inv, Pcs, Threads
  <2>2. \A t \in Sockets : t \in {connection, listener, pending} \/ Owns("r", t)
             => t \in {connection', listener', pending'} \/ Owns("r", t)'
    BY <1>1, <1>2, AdapterAssumption DEF CStore, Owns
  <2>3. IF role = "server" THEN pending' = None ELSE listener' = None
    BY <1>2 DEF CStore, Inv, Alone, Vacant
  <2> QED
    BY <1>1, <1>2, <2>1, <2>2, <2>3, Rest, Handing DEF CStore, Pcs, Maybe
<1>3. CASE ~running /\ CloseSocket(at.r) /\ Return("r") /\ UNCHANGED pending
  <2>1. Moves("r", "idle", None)
    BY <1>3, ReturnMoves DEF Inv, Threads
  <2> QED
    BY <1>3, <2>1, CloseHeld DEF CStore, Pcs, Threads, Connecting
<1> QED
  BY <1>2, <1>3 DEF CStore

LEMMA CPollStep ==
    ASSUME Inv, CPoll
    PROVE  Inv'
<1>1. connection = None /\ at["r"] \in Maybe /\ pc["r"] \notin OwningPcs /\ faults' \in 0 .. MaxFaults
  BY Rest, FaultType DEF CPoll, Inv, TypeOK, Threads, Alone, Vacant, Connecting, OwningPcs
<1>2. ASSUME NEW p \in {"idle", "fail", "take"}, NEW s \in Maybe, Goto("r", p, s)
      PROVE  Inv'
  <2>1. Moves("r", p, s)
    BY <1>2, GotoMoves DEF Inv, Pcs, Threads
  <2> QED
    BY <1>1, <2>1, Rest, Look DEF CPoll, shared, Pcs, Threads, Vacant
<1>3. CASE Return("r")
  BY <1>2, <1>3 DEF Return, Maybe
<1>4. CASE Goto("r", "fail", None)
  BY <1>2, <1>4 DEF Maybe
<1>5. CASE Goto("r", "take", at.r)
  BY <1>1, <1>2, <1>5
<1> QED
  BY <1>3, <1>4, <1>5 DEF CPoll

LEMMA CTakeStep ==
    ASSUME Inv, CTake
    PROVE  Inv'
<1>1. /\ at["r"] \in Maybe /\ connection = None /\ listener \in Maybe /\ pending \in Maybe
      /\ pc["r"] \notin OwningPcs
  BY DEF CTake, Inv, TypeOK, Threads, Alone, Vacant, Connecting, OwningPcs
<1>2. CASE Return("r") /\ UNCHANGED pending
  <2>1. Moves("r", "idle", None)
    BY <1>2, ReturnMoves DEF Inv, Threads
  <2> QED
    BY <1>1, <1>2, <2>1, Rest, Look DEF CTake, Pcs, Threads, Maybe, Vacant, Connecting
<1>3. CASE pending = at.r /\ pending' = None /\ Goto("r", "establish", at.r)
  <2>1. Moves("r", "establish", at["r"])
    BY <1>1, <1>3, GotoMoves DEF Inv, Pcs, Threads
  <2>2. \A t \in Sockets : t \in {connection, listener, pending} \/ Owns("r", t)
             => t \in {connection', listener', pending'} \/ Owns("r", t)'
    BY <1>1, <1>3, <2>1 DEF CTake, Owns, OwningPcs, Moves
  <2>3. IF role = "server" THEN pending' = None ELSE listener' = None
    BY <1>3 DEF CTake, Inv, Alone, Vacant
  <2> QED
    BY <1>1, <1>3, <2>1, <2>2, <2>3, Rest, Handing DEF CTake, Pcs, Maybe
<1> QED
  BY <1>2, <1>3 DEF CTake

LEMMA CFailStep ==
    ASSUME Inv, CFail
    PROVE  Inv'
<1>1. connection = None /\ listener \in Maybe /\ pending \in Maybe /\ pc["r"] \notin OwningPcs
  BY DEF CFail, Inv, TypeOK, Alone, Vacant, Connecting, OwningPcs
<1>2. CASE pending = None /\ Return("r")
  <2>1. Moves("r", "idle", None)
    BY <1>2, ReturnMoves DEF Inv, Threads
  <2> QED
    BY <1>1, <1>2, <2>1, Rest, Look DEF CFail, Pcs, Threads, Maybe, Vacant, Connecting
<1>3. CASE Goto("r", "shut", pending)
  <2>1. Moves("r", "shut", pending)
    BY <1>1, <1>3, GotoMoves DEF Inv, Pcs, Threads
  <2>2. \A t \in Sockets : t \in {connection, listener, pending} \/ Owns("r", t)
             => t \in {connection', listener', pending'} \/ Owns("r", t)'
    BY <1>1, <1>3, <2>1 DEF CFail, Owns, OwningPcs, Moves
  <2>3. IF role = "server" THEN pending' = None ELSE listener' = None
    BY <1>3 DEF CFail, Inv, Alone, Vacant
  <2> QED
    BY <1>1, <2>1, <2>2, <2>3, Rest, Handing DEF CFail, Pcs, Maybe, Connecting
<1> QED
  BY <1>2, <1>3 DEF CFail

-----------------------------------------------------------------------------
(* write(), close() and the outside.                                         *)

LEMMA WriteStep ==
    ASSUME Inv, WWrite \/ WSent \/ WError
    PROVE  Inv'
<1>1. /\ connection \in Maybe /\ at["w"] \in Maybe /\ pc["w"] \notin OwningPcs
      /\ UNCHANGED <<role, shared, sock, backlog, faults>>
  BY DEF WWrite, WSent, WError, Inv, TypeOK, Threads, OwningPcs
<1>2. ASSUME NEW p \in {"idle", "send", "drop"}, NEW s \in Maybe, Goto("w", p, s)
      PROVE  Inv'
  <2>1. Moves("w", p, s)
    BY <1>2, GotoMoves DEF Inv, Pcs, Threads
  <2> QED
    BY <1>1, <2>1, Rest, Look DEF shared, Pcs, Threads
<1>3. CASE WWrite
  BY <1>1, <1>2, <1>3 DEF WWrite
<1>4. CASE WSent
  BY <1>2, <1>4 DEF WSent, Return, Maybe
<1>5. CASE WError
  BY <1>1, <1>2, <1>5 DEF WError
<1> QED
  BY <1>3, <1>4, <1>5

LEMMA CloseConnectionStep ==
    ASSUME Inv, CloseConnection
    PROVE  Inv'
<1>1. Moves("c", "shutConnection", connection)
  BY GotoMoves DEF CloseConnection, Inv, TypeOK, Pcs, Threads
<1>2. TypeOK'
  BY <1>1 DEF CloseConnection, Inv, TypeOK, Moves, Maybe
<1>3. Final'
  BY <1>1 DEF CloseConnection, Final, Moves, Threads
<1>4. Owned'
  <2>1. \A b \in {"r", "w"}, t \in Sockets : Owns(b, t) => Owns(b, t)'
    BY <1>1 DEF Owns, Moves, Threads
  <2>2. \A t \in Sockets : ~Owns("c", t)
    BY DEF CloseConnection, Owns, OwningPcs
  <2>3. \A t \in Sockets : t = connection => Owns("c", t)'
    BY <1>1 DEF Owns, Moves, OwningPcs, Threads
  <2> QED
    BY <2>1, <2>2, <2>3 DEF CloseConnection, Inv, Owned
<1>5. Alone'
  BY <1>1 DEF CloseConnection, Inv, Alone, Vacant, Moves, Threads
<1> QED
  BY <1>2, <1>3, <1>4, <1>5 DEF Inv

LEMMA ClosesStep ==
    ASSUME Inv, NEW from \in {"shutConnection", "shutRest"}, NEW to \in {"release", "done"},
           to = "done" => from = "shutRest", Closes(from, to)
    PROVE  Inv'
<1>1. Moves("c", to, None) /\ at["c"] \in Maybe /\ pc["c"] = from
  BY GotoMoves DEF Closes, Inv, TypeOK, Pcs, Threads, Maybe
<1>2. CASE at["c"] = None
  BY <1>1, <1>2, AdapterAssumption, Rest, Look DEF Closes, shared, Pcs, Threads, Maybe
<1>3. CASE at["c"] # None
  BY <1>1, <1>3, CloseHeld DEF Closes, shared, Pcs, Threads, Connecting
<1> QED
  BY <1>2, <1>3

LEMMA CloseRestStep ==
    ASSUME Inv, CloseRest
    PROVE  Inv'
<1> DEFINE x == IF role = "server" THEN listener ELSE pending
<1>1. x \in Maybe
  BY DEF Inv, TypeOK
<1>2. Moves("c", "shutRest", x)
  BY <1>1, GotoMoves DEF CloseRest, Inv, Pcs, Threads
<1>3. TypeOK'
  BY <1>2 DEF CloseRest, Inv, TypeOK, Moves, Maybe
<1>4. Final'
  BY <1>2 DEF CloseRest, Inv, Final, Moves, Threads
<1>5. Alone'
  BY <1>2 DEF CloseRest, Inv, Alone, Vacant, Moves, Threads
<1>6. Owned'
  <2>1. \A b \in {"r", "w"}, t \in Sockets : Owns(b, t) => Owns(b, t)'
    BY <1>2 DEF Owns, Moves, Threads
  <2>2. \A t \in Sockets : ~Owns("c", t)
    BY DEF CloseRest, Owns, OwningPcs
  <2>3. \A t \in Sockets : t = x => Owns("c", t)'
    BY <1>2 DEF Owns, Moves, OwningPcs, Threads
  <2>4. \A t \in Sockets : t \in {listener, pending} => t = x
    BY AdapterAssumption DEF Inv, Alone
  <2> QED
    BY <2>1, <2>2, <2>3, <2>4 DEF CloseRest, Inv, Owned
<1> QED
  BY <1>3, <1>4, <1>5, <1>6 DEF Inv

LEMMA OutsideStep ==
    ASSUME Inv, PeerArrives \/ PeerAnswers \/ Breaks \/ Tick
    PROVE  Inv'
<1>1. /\ UNCHANGED <<role, running, connection, listener, pending, pc, at>>
      /\ due' \in BOOLEAN /\ backlog' \in 0 .. 1 /\ faults' \in 0 .. MaxFaults
  <2>1. CASE PeerArrives
    BY <2>1, Rest DEF PeerArrives, shared
  <2>2. CASE Breaks
    BY <2>2, Rest, FaultType DEF Breaks, shared, Becomes
  <2>3. CASE PeerAnswers
    BY <2>3, Rest DEF PeerAnswers, shared, Becomes
  <2>4. CASE Tick
    BY <2>4, Rest DEF Tick
  <2> QED
    BY <2>1, <2>2, <2>3, <2>4
<1>2. /\ sock' \in [Sockets -> Statuses]
      /\ \A s \in Sockets : sock'[s] # "closed" => sock[s] # "closed"
  <2>1. CASE UNCHANGED sock
    BY <2>1 DEF Inv, TypeOK
  <2>2. ASSUME NEW s \in Sockets, NEW st \in Statuses, sock[s] # "closed", Becomes(s, st)
        PROVE  <1>2!1 /\ <1>2!2
    BY <2>2, BecomesSets DEF Inv, Sets
  <2>3. CASE PeerAnswers
    BY <2>2, <2>3 DEF PeerAnswers, Statuses
  <2>4. CASE Breaks
    BY <2>2, <2>4 DEF Breaks, Statuses
  <2> QED
    BY <2>1, <2>3, <2>4 DEF PeerArrives, Tick
<1>3. TypeOK'
  BY <1>1, <1>2 DEF Inv, TypeOK
<1>4. Final' /\ Alone'
  BY <1>1 DEF Inv, Final, Alone, Vacant
<1>5. Owned'
  BY <1>1, <1>2 DEF Inv, Owned, Owns
<1> QED
  BY <1>3, <1>4, <1>5 DEF Inv

LEMMA Stutter == Inv /\ UNCHANGED vars => Inv'
BY DEF Inv, TypeOK, Final, Owned, Owns, Alone, Vacant, vars, shared

(* Every step keeps the invariant.                                           *)
LEMMA InvStep == Inv /\ [Next]_vars => Inv'
<1> SUFFICES ASSUME Inv, [Next]_vars PROVE Inv'
  OBVIOUS
<1>1. CASE Read
  BY <1>1, RReadStep, RRecvStep, ForgetStep, ShutStep, REstablishStep, RStoreStep,
     SConnectStep, SListenStep, SStoreStep, SAcceptStep, SRelistenStep,
     CConnectStep, CBeginStep, CStoreStep, CPollStep, CTakeStep, CFailStep DEF Read
<1>2. CASE Write
  BY <1>2, WriteStep, ForgetStep, ShutStep DEF Write
<1>3. CASE Close
  BY <1>3, CloseConnectionStep, ClosesStep, CloseRestStep DEF Close, FinishClose
<1>4. CASE PeerArrives \/ PeerAnswers \/ Breaks \/ Tick
  BY <1>4, OutsideStep
<1>5. CASE UNCHANGED vars
  BY <1>5, Stutter
<1> QED
  BY <1>1, <1>2, <1>3, <1>4, <1>5 DEF Next

LEMMA Invariance == Spec => []Inv
BY InitInv, InvStep, PTL DEF Spec

-----------------------------------------------------------------------------
(* A thread drops only what has failed.  A socket that failed stays so while *)
(* a thread holds it, since its descriptor is not used again; the reading    *)
(* thread also shuts what it gave up before it was ever the connection.      *)
Failed(s) == s \in Sockets => sock[s] \in {"dead", "closed"}
DropsFailed == \A a \in {"r", "w"} :
    /\ pc[a] = "drop" => Failed(at[a])
    /\ pc[a] = "shut" => Failed(at[a]) \/ (a = "r" /\ connection # at[a])

(* A descriptor in use does not come back to life.                           *)
LEMMA FailedStays ==
    ASSUME Inv, [Next]_vars, NEW t \in Held, Failed(t)
    PROVE  Failed(t)'
<1> SUFFICES ASSUME t \in Sockets, sock[t] \in {"dead", "closed"}
             PROVE  sock'[t] \in {"dead", "closed"}
  BY DEF Failed
<1>1. ASSUME NEW s, CloseSocket(s)
      PROVE  sock'[t] \in {"dead", "closed"}
  BY <1>1 DEF CloseSocket, Inv, TypeOK
<1>2. ASSUME NEW s \in Sockets, sock[s] \notin {"dead", "closed"} \/ Fresh(s), NEW st, sock' = [sock EXCEPT ![s] = st]
      PROVE  sock'[t] \in {"dead", "closed"} \/ (s = t /\ st = "dead")
  BY <1>2 DEF Fresh, Free, Inv, TypeOK
<1>3. CASE UNCHANGED sock
  BY <1>3
<1>4. CASE Read
  <2>1. CASE Shut("r") \/ REstablish \/ RStore \/ SStore \/ SRelisten \/ CStore
    BY <1>1, <1>3, <2>1 DEF Shut, REstablish, RStore, SStore, SRelisten, CStore
  <2>2. CASE SListen
    BY <1>2, <1>3, <2>2 DEF SListen, Becomes
  <2>3. CASE SAccept
    BY <1>2, <1>3, <2>3 DEF SAccept
  <2>4. CASE CBegin
    BY <1>2, <1>3, <2>4 DEF CBegin, Becomes
  <2>5. CASE RRead \/ RRecv \/ Forget("r") \/ SConnect \/ CConnect \/ CPoll \/ CTake \/ CFail
    BY <1>3, <2>5 DEF RRead, RRecv, Forget, SConnect, CConnect, CPoll, CTake, CFail
  <2> QED
    BY <1>4, <2>1, <2>2, <2>3, <2>4, <2>5 DEF Read
<1>5. CASE Write
  BY <1>1, <1>3, <1>5 DEF Write, WWrite, WSent, WError, Forget, Shut
<1>6. CASE Close
  BY <1>1, <1>3, <1>6 DEF Close, CloseConnection, FinishClose, Closes, CloseRest
<1>7. CASE PeerArrives \/ Tick \/ UNCHANGED vars
  BY <1>3, <1>7 DEF PeerArrives, Tick, vars
<1>8. CASE PeerAnswers
  BY <1>2, <1>8 DEF PeerAnswers, Becomes
<1>9. CASE Breaks
  BY <1>2, <1>9 DEF Breaks, Becomes
<1> QED
  BY <1>4, <1>5, <1>6, <1>7, <1>8, <1>9 DEF Next

(* How a thread comes to drop or shut a socket.                              *)
Sheds(a) ==
    pc'[a] \in {"drop", "shut"} =>
        \/ pc'[a] = pc[a] /\ at'[a] = at[a]
        \/ pc[a] = "drop" /\ pc'[a] = "shut" /\ at'[a] = at[a]
        \/ pc'[a] = "drop" /\ Failed(at[a])'
        \/ a = "r" /\ pc'[a] = "shut" /\ connection' # at'[a]

LEMMA ReaderSheds ==
    ASSUME Inv, [Next]_vars
    PROVE  Sheds("r")
<1>1. CASE pc'["r"] \notin {"drop", "shut"} \/ (pc'["r"] = pc["r"] /\ at'["r"] = at["r"])
  BY <1>1 DEF Sheds
<1>2. CASE RRecv
  BY <1>2 DEF RRecv, Return, Goto, Sheds, Failed, Inv, TypeOK, Threads
<1>3. CASE Forget("r")
  BY <1>3 DEF Forget, Goto, Sheds, Inv, TypeOK, Threads
<1>4. CASE CFail
  BY <1>4 DEF CFail, Return, Goto, Sheds, Inv, TypeOK, Alone, Vacant, Connecting, Threads
<1>5. CASE RRead \/ Shut("r") \/ REstablish \/ RStore \/ SConnect \/ SListen
  BY <1>1, <1>5 DEF RRead, Shut, REstablish, RStore, SConnect, SListen,
     Return, Goto, Inv, TypeOK, Threads
<1>6. CASE SStore \/ SAccept \/ SRelisten \/ CConnect \/ CBegin \/ CStore \/ CPoll \/ CTake
  BY <1>1, <1>6 DEF SStore, SAccept, SRelisten, CConnect, CBegin, CStore, CPoll, CTake,
     Return, Goto, Inv, TypeOK, Threads
<1>7. CASE Write
  BY <1>1, <1>7 DEF Write, WWrite, WSent, WError, Forget, Shut, Return, Goto, Inv, TypeOK, Threads
<1>8. CASE Close
  BY <1>1, <1>8 DEF Close, CloseConnection, FinishClose, Closes, CloseRest, Goto, Inv, TypeOK, Threads
<1>9. CASE PeerArrives \/ PeerAnswers \/ Breaks \/ Tick \/ UNCHANGED vars
  BY <1>1, <1>9 DEF PeerArrives, PeerAnswers, Breaks, Tick, vars
<1> QED
  BY <1>2, <1>3, <1>4, <1>5, <1>6, <1>7, <1>8, <1>9 DEF Next, Read

LEMMA WriterSheds ==
    ASSUME Inv, [Next]_vars
    PROVE  Sheds("w")
<1>1. CASE pc'["w"] \notin {"drop", "shut"} \/ (pc'["w"] = pc["w"] /\ at'["w"] = at["w"])
  BY <1>1 DEF Sheds
<1>2. CASE Read
  <2>1. ASSUME NEW p, NEW s, Goto("r", p, s)
        PROVE  pc'["w"] = pc["w"] /\ at'["w"] = at["w"]
    BY <2>1 DEF Goto, Inv, TypeOK, Threads
  <2>2. CASE RRead \/ RRecv \/ Forget("r") \/ Shut("r") \/ REstablish \/ RStore \/ SConnect \/ SListen
    BY <1>1, <2>1, <2>2 DEF RRead, RRecv, Forget, Shut, REstablish, RStore, SConnect, SListen, Return
  <2>3. CASE SStore \/ SAccept \/ SRelisten \/ CConnect \/ CBegin \/ CStore \/ CPoll \/ CTake \/ CFail
    BY <1>1, <2>1, <2>3 DEF SStore, SAccept, SRelisten, CConnect, CBegin, CStore, CPoll, CTake, CFail, Return
  <2> QED
    BY <1>2, <2>2, <2>3 DEF Read
<1>3. CASE WError
  BY <1>3 DEF WError, Goto, Sheds, Failed, Inv, TypeOK, Threads
<1>4. CASE Forget("w")
  BY <1>4 DEF Forget, Goto, Sheds, Inv, TypeOK, Threads
<1>5. CASE WWrite \/ WSent \/ Shut("w")
  BY <1>1, <1>5 DEF WWrite, WSent, Shut, Return, Goto, Inv, TypeOK, Threads
<1>6. CASE Close
  BY <1>1, <1>6 DEF Close, CloseConnection, FinishClose, Closes, CloseRest, Goto, Inv, TypeOK, Threads
<1>7. CASE PeerArrives \/ PeerAnswers \/ Breaks \/ Tick \/ UNCHANGED vars
  BY <1>1, <1>7 DEF PeerArrives, PeerAnswers, Breaks, Tick, vars
<1> QED
  BY <1>2, <1>3, <1>4, <1>5, <1>6, <1>7 DEF Next, Write

(* A connection is stored by the reading thread only, and otherwise kept or  *)
(* forgotten: by close(), or by a thread that drops it.                      *)
LEMMA ConnectionKept ==
    ASSUME Inv, [Next]_vars
    PROVE  \/ connection' = connection
           \/ CloseConnection
           \/ connection = None /\ pc["r"] = "store" /\ pc'["r"] = "idle"
           \/ \E a \in {"r", "w"} : Forget(a) /\ connection = at[a]
<1>1. CASE RStore
  BY <1>1 DEF RStore, Return, Goto, Inv, TypeOK, Alone, Vacant, Connecting, Threads
<1>2. CASE Forget("r") \/ Forget("w")
  BY <1>2 DEF Forget
<1>3. CASE RRead \/ RRecv \/ Shut("r") \/ REstablish \/ SConnect \/ SListen \/ SStore \/ SAccept
  BY <1>3 DEF RRead, RRecv, Shut, REstablish, SConnect, SListen, SStore, SAccept, shared
<1>4. CASE SRelisten \/ CConnect \/ CBegin \/ CStore \/ CPoll \/ CTake \/ CFail
  BY <1>4 DEF SRelisten, CConnect, CBegin, CStore, CPoll, CTake, CFail, shared
<1>5. CASE WWrite \/ WSent \/ WError \/ Shut("w") \/ FinishClose
  BY <1>5 DEF WWrite, WSent, WError, Shut, FinishClose, Closes, CloseRest, shared
<1>6. CASE PeerArrives \/ PeerAnswers \/ Breaks \/ Tick \/ UNCHANGED vars
  BY <1>6 DEF PeerArrives, PeerAnswers, Breaks, Tick, vars, shared
<1> QED
  BY <1>1, <1>2, <1>3, <1>4, <1>5, <1>6 DEF Next, Read, Write, Close

LEMMA DropsStep == Inv /\ DropsFailed /\ [Next]_vars => DropsFailed'
<1> SUFFICES ASSUME Inv, DropsFailed, [Next]_vars, NEW a \in {"r", "w"}, pc'[a] \in {"drop", "shut"}
             PROVE  Failed(at[a])' \/ (pc'[a] = "shut" /\ a = "r" /\ connection' # at'[a])
  BY DEF DropsFailed
<1>1. Sheds(a)
  BY ReaderSheds, WriterSheds
<1>2. ASSUME Failed(at[a]), at'[a] = at[a]
      PROVE  Failed(at[a])'
  BY <1>2, FailedStays DEF Held, Threads, Failed
<1>3. CASE pc'[a] = pc[a] /\ at'[a] = at[a]
  <2>1. CASE Failed(at[a])
    BY <1>2, <1>3, <2>1
  <2>2. CASE ~Failed(at[a])
    <3>1. pc[a] = "shut" /\ a = "r" /\ connection # at[a] /\ at[a] \in Sockets
      BY <1>3, <2>2 DEF DropsFailed, Failed
    <3>2. connection' = connection \/ connection' = None
      BY <1>3, <3>1, ConnectionKept DEF CloseConnection, Forget
    <3> QED
      BY <1>3, <3>1, <3>2, AdapterAssumption
  <2> QED
    BY <2>1, <2>2
<1>4. CASE pc[a] = "drop" /\ pc'[a] = "shut" /\ at'[a] = at[a]
  BY <1>2, <1>4 DEF DropsFailed
<1>5. CASE (pc'[a] = "drop" /\ Failed(at[a])') \/ (a = "r" /\ pc'[a] = "shut" /\ connection' # at'[a])
  BY <1>5 DEF Failed
<1> QED
  BY <1>1, <1>3, <1>4, <1>5 DEF Sheds

LEMMA Drops == Spec => [](Inv /\ DropsFailed)
<1>1. Init => DropsFailed
  BY DEF Init, DropsFailed, Threads
<1> QED
  BY <1>1, Invariance, DropsStep, PTL DEF Spec

(* No step closes a connection that works.                                   *)
LEMMA WorkingStaysOpen ==
    ASSUME Inv, DropsFailed, [Next]_vars, NEW s \in Sockets, connection = s, sock[s] = "up"
    PROVE  sock'[s] # "closed"
<1>1. connection # None
  BY AdapterAssumption
<1>2. pc["r"] \notin Connecting /\ pc["c"] = "idle"
  BY <1>1 DEF Inv, Alone, Vacant, Final
<1>3. ASSUME NEW a \in {"r", "w"}, Shut(a)
      PROVE  sock'[s] # "closed"
  <2>1. at[a] # s
    BY <1>3 DEF Shut, DropsFailed, Failed
  <2> QED
    BY <1>3, <2>1 DEF Shut, CloseSocket, Inv, TypeOK
<1>4. CASE RRead \/ RRecv \/ Forget("r") \/ WWrite \/ WSent \/ WError \/ Forget("w")
  BY <1>4 DEF RRead, RRecv, WWrite, WSent, WError, Forget
<1>5. ~(REstablish \/ RStore \/ SConnect \/ SListen \/ SStore \/ SAccept \/ SRelisten)
  BY <1>2 DEF REstablish, RStore, SConnect, SListen, SStore, SAccept, SRelisten, Connecting
<1>6. ~(CConnect \/ CBegin \/ CStore \/ CPoll \/ CTake \/ CFail)
  BY <1>2 DEF CConnect, CBegin, CStore, CPoll, CTake, CFail, Connecting
<1>7. CASE Close
  BY <1>2, <1>7 DEF Close, CloseConnection, FinishClose, Closes, CloseRest
<1>8. CASE PeerArrives \/ Tick \/ UNCHANGED vars
  BY <1>8 DEF PeerArrives, Tick, vars
<1>9. CASE PeerAnswers \/ Breaks
  BY <1>9 DEF PeerAnswers, Breaks, Becomes, Inv, TypeOK
<1> QED
  BY <1>3, <1>4, <1>5, <1>6, <1>7, <1>8, <1>9 DEF Next, Read, Write

-----------------------------------------------------------------------------
(* The variables of the adapter keep their types, whatever the order of the *)
(* steps of the three threads and the number of faults (tcp_fast.py).       *)
THEOREM TypeCorrect == Spec => []TypeOK
<1>1. Inv => TypeOK
  BY DEF Inv
<1> QED
  BY <1>1, Invariance, PTL

(* No socket is leaked, whoever fails, drops or closes it and when: one that *)
(* is open is in the adapter or in the hands of a thread.  And close() is   *)
(* final: once it has returned no connection, listener or pending connect is *)
(* stored again by the read in progress (tcp_fast.py:91-97).                *)
THEOREM SocketsStayOwned == Spec => []SocketsKept
<1>1. Inv => Accounted
  BY DEF Inv, Owned, Owns, Accounted, Held, Threads
<1>2. Inv => ReleasedForGood
  BY DEF Inv, Final, ReleasedForGood
<1> QED
  BY <1>1, <1>2, Invariance, PTL DEF SocketsKept
(* A connection that works is given up by close() only, for any descriptors, *)
(* faults and interleaving: a thread that fails on an older connection, one  *)
(* whose descriptor is in use again included, does not touch it (drop,       *)
(* tcp_fast.py:211).                                                         *)
THEOREM WorkingConnectionKept == Spec => HealthyKept
<1>1. ASSUME Inv, DropsFailed, [Next]_vars, NEW s \in Sockets, connection = s, sock[s] = "up"
      PROVE  (connection' = s /\ sock'[s] # "closed") \/ CloseConnection
  <2>1. connection # None
    BY <1>1, AdapterAssumption
  <2>2. ~\E a \in {"r", "w"} : Forget(a) /\ connection = at[a]
    BY <1>1 DEF Forget, DropsFailed, Failed
  <2> QED
    BY <1>1, <2>1, <2>2, ConnectionKept, WorkingStaysOpen
<1>2. Inv /\ DropsFailed /\ [Next]_vars
         => [\A s \in Sockets : connection = s /\ sock[s] = "up" =>
                (connection' = s /\ sock'[s] # "closed") \/ CloseConnection]_vars
  BY <1>1
<1> QED
  BY <1>2, Drops, PTL DEF Spec, HealthyKept
=============================================================================
