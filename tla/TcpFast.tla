------------------------------- MODULE TcpFast -------------------------------
(***************************************************************************)
(* The tcp-fast adapters (communication/adapters/tcp_fast.py).             *)
(*                                                                         *)
(* An adapter owns one connected socket and no thread: the downlink thread *)
(* "r" calls read(), which connects as well, the uplink thread "w" calls   *)
(* write(), and close() may come from a third one, "c".  They share        *)
(* running, connection, and listener (server) or pending (client); stores  *)
(* to them hold a lock, reads of them do not.  The behaviour starts when   *)
(* open() has returned.  The operating system and the peer are external.   *)
(***************************************************************************)
EXTENDS Naturals, FiniteSets

CONSTANTS
    Roles,      \* "server", "client"
    Sockets,    \* descriptors, reused once closed and forgotten
    None,
    MaxFaults   \* bound on what goes wrong outside the adapter

ASSUME AdapterAssumption ==
    /\ Roles \subseteq {"server", "client"} /\ Sockets \subseteq Nat
    /\ None \notin Sockets /\ MaxFaults \in Nat

VARIABLES
    role,
    running, connection, listener, pending, due,    \* the adapter; due: next_attempt is past
    pc, at,                                         \* each thread, the socket in its hands
    sock, backlog, faults                           \* sockets, peers that wait for accept

shared == <<running, connection, listener, pending, due>>
vars   == <<role, shared, pc, at, sock, backlog, faults>>

Threads == {"r", "w", "c"}
Held == {connection, listener, pending} \cup {at[a] : a \in Threads}
Free == {s \in Sockets : sock[s] = "closed" /\ s \notin Held}
Fresh(s) == s \in Free /\ \A t \in Free : s <= t

Init ==     \* open() listens, or schedules another attempt
    /\ role \in Roles
    /\ running = TRUE /\ connection = None /\ pending = None
    /\ pc = [a \in Threads |-> "idle"] /\ at = [a \in Threads |-> None]
    /\ backlog = 0 /\ faults = 0
    /\ \/ /\ role = "server" /\ due = TRUE
          /\ \E s \in Sockets : /\ \A t \in Sockets : s <= t
                                /\ listener = s
                                /\ sock = [t \in Sockets |-> IF t = s THEN "listening" ELSE "closed"]
       \/ /\ due = (role = "client")
          /\ listener = None /\ sock = [s \in Sockets |-> "closed"]

Goto(a, p, s) == pc' = [pc EXCEPT ![a] = p] /\ at' = [at EXCEPT ![a] = s]
Return(a) == Goto(a, "idle", None)
Becomes(s, status) == sock' = [sock EXCEPT ![s] = status] /\ UNCHANGED backlog
Fault == faults < MaxFaults /\ faults' = faults + 1

-----------------------------------------------------------------------------
(* Definitions whose name starts with Bug are plausible slips in the        *)
(* definition that follows them: each is one a property below must notice.  *)

(* close_socket: shutdown releases a thread blocked on the socket.  A       *)
(* listening socket takes the peers that wait with it.                      *)
CloseSocket(s) ==
    /\ sock' = [sock EXCEPT ![s] = "closed"]
    /\ backlog' = IF sock[s] = "listening" THEN 0 ELSE backlog

(* drop(): forget the connection unless a newer one has replaced it, then   *)
(* close the socket.                                                        *)
BugForgetAny(a) ==
    /\ pc[a] = "drop" /\ Goto(a, "shut", at[a])
    /\ connection' = None
    /\ UNCHANGED <<role, running, listener, pending, due, sock, backlog, faults>>
Forget(a) ==
    /\ pc[a] = "drop" /\ Goto(a, "shut", at[a])
    /\ connection' = IF connection = at[a] THEN None ELSE connection
    /\ UNCHANGED <<role, running, listener, pending, due, sock, backlog, faults>>

Shut(a) ==
    /\ pc[a] = "shut" /\ CloseSocket(at[a]) /\ Return(a)
    /\ UNCHANGED <<role, shared, faults>>

-----------------------------------------------------------------------------
(* read().                                                                  *)

RRead ==    \* a snapshot of connection; after close() read only sleeps
    /\ pc.r = "idle"
    /\ \/ connection # None /\ Goto("r", "recv", connection)
       \/ connection = None /\ running /\ Goto("r", "connect", None)
    /\ UNCHANGED <<role, shared, sock, backlog, faults>>

RRecv ==    \* select and recv; dead: end of file or an error
    /\ pc.r = "recv"
    /\ \/ sock[at.r] = "up" /\ Return("r")
       \/ sock[at.r] \in {"dead", "closed"} /\ Goto("r", "drop", at.r)
    /\ UNCHANGED <<role, shared, sock, backlog, faults>>

REstablish ==   \* socket options and getpeername: a peer already gone fails them
    /\ pc.r = "establish"
    /\ \/ sock[at.r] = "up" /\ Goto("r", "store", at.r) /\ UNCHANGED <<sock, backlog>>
       \/ sock[at.r] = "dead" /\ CloseSocket(at.r) /\ Return("r")
    /\ UNCHANGED <<role, shared, faults>>

RStore ==
    /\ pc.r = "store" /\ Return("r")
    /\ \/ running /\ connection' = at.r /\ UNCHANGED <<sock, backlog>>
       \/ ~running /\ CloseSocket(at.r) /\ UNCHANGED connection
    /\ UNCHANGED <<role, running, listener, pending, due, faults>>

-----------------------------------------------------------------------------
(* TcpFastServerAdapter.connect and listen.                                 *)

SConnect ==
    /\ pc.r = "connect" /\ role = "server"
    /\ \/ ~due /\ Return("r")
       \/ due /\ listener = None /\ Goto("r", "listen", None)
       \/ due /\ listener # None /\ Goto("r", "accept", listener)
    /\ UNCHANGED <<role, shared, sock, backlog, faults>>

Bound == \E s \in Sockets : sock[s] \in {"listening", "broken"}

SListen ==  \* bind and listen, which fail while another socket has the port
    /\ pc.r = "listen"
    /\ \/ /\ ~Bound
          /\ \E s \in Sockets : Fresh(s) /\ Becomes(s, "listening") /\ Goto("r", "storeListener", s)
          /\ UNCHANGED <<due, faults>>
       \/ /\ IF Bound THEN UNCHANGED faults ELSE Fault
          /\ due' = FALSE /\ Return("r") /\ UNCHANGED <<sock, backlog>>
    /\ UNCHANGED <<role, running, connection, listener, pending>>

SStore ==   \* close() may have won the race
    /\ pc.r = "storeListener"
    /\ \/ running /\ listener' = at.r /\ Goto("r", "accept", at.r) /\ UNCHANGED <<sock, backlog>>
       \/ ~running /\ CloseSocket(at.r) /\ Return("r") /\ UNCHANGED listener
    /\ UNCHANGED <<role, running, connection, pending, due, faults>>

BugNoSelect ==
    /\ pc.r = "accept" /\ sock[at.r] = "listening" /\ backlog' = backlog - 1
    /\ \E s \in Sockets : Fresh(s) /\ sock' = [sock EXCEPT ![s] = "up"] /\ Goto("r", "establish", s)
    /\ UNCHANGED <<role, shared, faults>>
SAccept ==  \* select and accept
    /\ pc.r = "accept" /\ sock[at.r] = "listening"
    /\ \/ /\ backlog > 0 /\ backlog' = backlog - 1
          /\ \E s \in Sockets : /\ Fresh(s) /\ sock' = [sock EXCEPT ![s] = "up"]
                                /\ Goto("r", "establish", s)
          /\ UNCHANGED <<due, faults>>
       \/ backlog = 0 /\ Return("r") /\ UNCHANGED <<due, sock, backlog, faults>>
       \/ \* ACCEPT_TRANSIENT: this peer is gone
          /\ backlog > 0 /\ backlog' = backlog - 1 /\ Fault
          /\ Return("r") /\ UNCHANGED <<due, sock>>
       \/ \* ACCEPT_EXHAUSTED: no descriptor, the peer stays queued
          /\ backlog > 0 /\ due' = FALSE /\ Fault
          /\ Return("r") /\ UNCHANGED <<sock, backlog>>
    /\ UNCHANGED <<role, running, connection, listener, pending>>

BugKeepListener ==
    /\ pc.r = "accept" /\ sock[at.r] \in {"broken", "closed"} /\ Return("r")
    /\ UNCHANGED <<role, shared, sock, backlog, faults>>
SRelisten ==    \* the listener failed; a concurrent close() is no outage
    /\ pc.r = "accept" /\ sock[at.r] \in {"broken", "closed"} /\ Return("r")
    /\ \/ listener = at.r /\ listener' = None /\ CloseSocket(at.r) /\ due' = FALSE
       \/ listener # at.r /\ UNCHANGED <<listener, due, sock, backlog>>
    /\ UNCHANGED <<role, running, connection, pending, faults>>

-----------------------------------------------------------------------------
(* TcpFastClientAdapter.connect, begin and fail.                            *)

CConnect ==
    /\ pc.r = "connect" /\ role = "client"
    /\ \/ pending # None /\ Goto("r", "poll", pending)
       \/ pending = None /\ ~due /\ Return("r")
       \/ pending = None /\ due /\ Goto("r", "begin", None)
    /\ UNCHANGED <<role, shared, sock, backlog, faults>>

CBegin ==   \* attempts are spaced; an immediate error ends the attempt
    /\ pc.r = "begin" /\ due' = FALSE
    /\ \/ /\ \E s \in Sockets : Fresh(s) /\ Becomes(s, "connecting") /\ Goto("r", "storePending", s)
          /\ UNCHANGED faults
       \/ Fault /\ Goto("r", "fail", None) /\ UNCHANGED <<sock, backlog>>
    /\ UNCHANGED <<role, running, connection, listener, pending>>

BugPendingAlways ==
    /\ pc.r = "storePending"
    /\ pending' = at.r /\ Goto("r", "poll", at.r)
    /\ UNCHANGED <<role, running, connection, listener, due, sock, backlog, faults>>
CStore ==   \* close() may have won the race
    /\ pc.r = "storePending"
    /\ \/ running /\ pending' = at.r /\ Goto("r", "poll", at.r) /\ UNCHANGED <<sock, backlog>>
       \/ ~running /\ CloseSocket(at.r) /\ Return("r") /\ UNCHANGED pending
    /\ UNCHANGED <<role, running, connection, listener, due, faults>>

CPoll ==    \* select on the pending socket, SO_ERROR
    /\ pc.r = "poll"
    /\ \/ sock[at.r] = "connecting" /\ Return("r") /\ UNCHANGED faults
       \/ sock[at.r] = "connecting" /\ Fault /\ Goto("r", "fail", None)     \* pending_deadline
       \/ sock[at.r] \in {"up", "dead"} /\ Goto("r", "take", at.r) /\ UNCHANGED faults
       \/ sock[at.r] = "refused" /\ Goto("r", "fail", None) /\ UNCHANGED faults
       \/ /\ sock[at.r] = "closed" /\ UNCHANGED faults                      \* closed under select
          /\ IF pending = at.r THEN Goto("r", "fail", None) ELSE Return("r")
    /\ UNCHANGED <<role, shared, sock, backlog>>

CTake ==    \* connected, unless close() has abandoned it
    /\ pc.r = "take"
    /\ \/ pending # at.r /\ Return("r") /\ UNCHANGED pending
       \/ pending = at.r /\ pending' = None /\ Goto("r", "establish", at.r)
    /\ UNCHANGED <<role, running, connection, listener, due, sock, backlog, faults>>

CFail ==    \* abandon() under the lock, then close outside it
    /\ pc.r = "fail" /\ pending' = None /\ due' = FALSE
    /\ IF pending = None THEN Return("r") ELSE Goto("r", "shut", pending)
    /\ UNCHANGED <<role, running, connection, listener, sock, backlog, faults>>

Read == \/ RRead \/ RRecv \/ Forget("r") \/ Shut("r") \/ REstablish \/ RStore
        \/ SConnect \/ SListen \/ SStore \/ SAccept \/ SRelisten
        \/ CConnect \/ CBegin \/ CStore \/ CPoll \/ CTake \/ CFail

-----------------------------------------------------------------------------
(* write().  sendall may block as long as the peer does not drain.          *)

WWrite ==   \* without a connection write returns False at once
    /\ pc.w = "idle" /\ connection # None /\ Goto("w", "send", connection)
    /\ UNCHANGED <<role, shared, sock, backlog, faults>>

WSent ==
    /\ pc.w = "send" /\ sock[at.w] \in {"up", "dead"} /\ Return("w")
    /\ UNCHANGED <<role, shared, sock, backlog, faults>>

WError ==
    /\ pc.w = "send" /\ sock[at.w] \in {"dead", "closed"} /\ Goto("w", "drop", at.w)
    /\ UNCHANGED <<role, shared, sock, backlog, faults>>

Write == WWrite \/ WSent \/ WError \/ Forget("w") \/ Shut("w")

-----------------------------------------------------------------------------
(* close(): the connection first, then the listener or the pending socket.  *)

CloseConnection ==
    /\ pc.c = "idle"
    /\ running' = FALSE /\ connection' = None
    /\ Goto("c", "shutConnection", connection)
    /\ UNCHANGED <<role, listener, pending, due, sock, backlog, faults>>

Closes(from, to) ==
    /\ pc.c = from /\ Goto("c", to, None)
    /\ IF at.c = None THEN UNCHANGED <<sock, backlog>> ELSE CloseSocket(at.c)
    /\ UNCHANGED <<role, shared, faults>>

CloseRest ==
    /\ pc.c = "release"
    /\ listener' = None /\ pending' = None
    /\ Goto("c", "shutRest", IF role = "server" THEN listener ELSE pending)
    /\ UNCHANGED <<role, running, connection, due, sock, backlog, faults>>

FinishClose == Closes("shutConnection", "release") \/ CloseRest \/ Closes("shutRest", "done")
Close == CloseConnection \/ FinishClose

-----------------------------------------------------------------------------
(* The peer, the operating system and the clock.                            *)

PeerArrives ==
    /\ backlog = 0 /\ \E s \in Sockets : sock[s] = "listening"
    /\ backlog' = 1
    /\ UNCHANGED <<role, shared, pc, at, sock, faults>>

PeerAnswers ==
    /\ \E s \in Sockets : sock[s] = "connecting" /\ Becomes(s, "up")
    /\ UNCHANGED <<role, shared, pc, at, faults>>

Breaks ==   \* refused, disconnected (or silent past the keepalive), broken
    /\ Fault
    /\ \E s \in Sockets : \/ sock[s] = "connecting" /\ Becomes(s, "refused")
                          \/ sock[s] = "up" /\ Becomes(s, "dead")
                          \/ sock[s] = "listening" /\ Becomes(s, "broken")
    /\ UNCHANGED <<role, shared, pc, at>>

Tick ==     \* RECONNECT_INTERVAL has passed
    /\ ~due /\ due' = TRUE
    /\ UNCHANGED <<role, running, connection, listener, pending, pc, at, sock, backlog, faults>>

Next == Read \/ Write \/ Close \/ PeerArrives \/ PeerAnswers \/ Breaks \/ Tick

Spec == Init /\ [][Next]_vars

(* Threads run, but a send only ends on its own when the socket has failed: *)
(* the peer need not drain.  close() need not be called; once it is, it goes *)
(* on.  The flight software keeps trying to connect.                        *)
FairSpec == /\ Spec
            /\ WF_vars(Read) /\ WF_vars(FinishClose)
            /\ WF_vars(WError \/ Forget("w") \/ Shut("w"))
            /\ WF_vars(PeerArrives) /\ WF_vars(PeerAnswers) /\ WF_vars(Tick)

-----------------------------------------------------------------------------
(* Properties.                                                              *)

Pcs == {"idle", "recv", "drop", "shut", "connect", "listen", "storeListener", "accept",
        "begin", "storePending", "poll", "take", "fail", "establish", "store", "send",
        "shutConnection", "release", "shutRest", "done"}
Statuses == {"closed", "listening", "broken", "connecting", "refused", "up", "dead"}
Maybe == Sockets \cup {None}
TypeOK ==
    /\ role \in Roles /\ running \in BOOLEAN /\ due \in BOOLEAN
    /\ connection \in Maybe /\ listener \in Maybe /\ pending \in Maybe
    /\ pc \in [Threads -> Pcs] /\ at \in [Threads -> Maybe]
    /\ sock \in [Sockets -> Statuses] /\ backlog \in 0 .. 1
    /\ faults \in 0 .. MaxFaults

(* No socket is leaked: one that is open is reachable from the adapter or   *)
(* from a thread that is about to store or to close it.                     *)
Accounted == \A s \in Sockets : sock[s] # "closed" => s \in Held

(* Once close() has returned the adapter never owns a socket again, however *)
(* the read in progress goes on (tcp_fast.py:93).                           *)
ReleasedForGood == pc.c = "done" => {connection, listener, pending} = {None}

(* A connection that works is given up by close() only: a thread that fails *)
(* on an older one does not touch it (drop, tcp_fast.py:211).               *)
HealthyKept ==
    [][\A s \in Sockets : connection = s /\ sock[s] = "up" =>
          (connection' = s /\ sock'[s] # "closed") \/ CloseConnection]_vars

(* A disconnect, a refusal or a broken listener is made good: the adapter   *)
(* is connected again unless it is closed (tcp_fast.py:11).                 *)
Reconnects == running /\ connection = None ~> ~running \/ connection # None

(* A write blocked on a connection that the adapter has given up, in close  *)
(* or in drop, returns (tcp_fast.py:200).                                   *)
WriterReleased == pc.w = "send" /\ at.w # connection ~> pc.w # "send"

(* Every open socket has an owner, and none is left once close() returned.    *)
SocketsKept == Accounted /\ ReleasedForGood

(* Whatever breaks, the adapter and its writer get out of it by themselves.   *)
LinkReturns == Reconnects /\ WriterReleased
=============================================================================
