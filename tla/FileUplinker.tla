---------------------------- MODULE FileUplinker ----------------------------
(***************************************************************************)
(* File uplink of the GDS (common/files/uplinker.py and helpers.py): the   *)
(* class FileUplinker, the UplinkQueue it owns and the Timeout both use.   *)
(*                                                                         *)
(* Four kinds of threads share this state without a lock, other than the   *)
(* "busy" semaphore and the internal lock of queue.Queue:                  *)
(*   - the UplinkerThread (UplinkQueue.run), which starts one file a time; *)
(*   - the receiving thread, which calls data_callback with every          *)
(*     handshake that comes back;                                          *)
(*   - the thread of threading.Timer, which calls timeout;                 *)
(*   - the Clients: request threads of the web server, which call enqueue, *)
(*     cancel_remove, pause, unpause, send_cancel_packet and exit.         *)
(* The link is external: what the encoder sends either reaches the flight  *)
(* software and is echoed as a handshake, or is lost.                      *)
(***************************************************************************)
EXTENDS Naturals, Sequences, FiniteSets

CONSTANTS
    Files,      \* TransmitFile objects, one for each enqueue
    NoFile,     \* Python's None, also the element that wakes the queue at exit
    Paths,      \* paths in the directory of uploaded files
    NoPath,
    Source,     \* Source[f]: path of f
    Size,       \* Size[f]: number of chunks on disk
    Plan,       \* Plan[f]: packet numbers to read (1 .. Size[f] when no selection)
    Clients,
    Ops,        \* the operations clients call in this instance
    MaxOps,     \* bound on the calls other than enqueue
    MaxLosses,  \* bound on packets the link loses
    Lossy,      \* types of packets the link may lose
    Preempt     \* TRUE: a thread may be preempted between any two steps;
                \* FALSE: short windows (Windows) run to their end and the
                \* timer is slow compared with every other step

ASSUME ConstantsAssumption ==
    /\ NoFile \notin Files /\ NoPath \notin Paths
    /\ Source \in [Files -> Paths]
    /\ Size \in [Files -> Nat]
    /\ Plan \in [Files -> Seq(Nat)]
    /\ MaxOps \in Nat /\ MaxLosses \in Nat
    /\ Preempt \in BOOLEAN

VARIABLES
    state, active, sequence, expected,              \* FileUplinker
    armed, tpc,                                     \* Timeout and its thread
    fstate, opened, remaining, summed, onDisk,      \* TransmitFile, file system
    running, busy, queue, store, exiting,           \* UplinkQueue
    upc, ufile, ret, rpc,                           \* UplinkerThread, receiver
    cpc, call,                                      \* clients
    link, hands, fsw,                               \* external link
    ops, losses                                     \* bounds

engine == <<state, active, sequence, expected>>
timer  == <<armed, tpc>>
disk   == <<fstate, opened, remaining, summed, onDisk>>
jobs   == <<running, busy, queue, store, exiting>>
client == <<cpc, call>>
wire   == <<link, hands, fsw>>
threads == <<upc, ufile, ret, rpc>>
bounds == <<ops, losses>>
vars   == <<engine, timer, disk, jobs, threads, client, wire, bounds>>

-----------------------------------------------------------------------------
(* Packets.  "body" is what the packet says of the data: the chunk a DATA   *)
(* packet carries, the chunks an END packet's checksum covers.              *)

Types   == {"START", "DATA", "END", "CANCEL"}
Packets == [type : Types, seq : Nat, path : Paths \cup {NoPath}, body : SUBSET Nat]
NoPacket == [type |-> "NONE", seq |-> 0, path |-> NoPath, body |-> {}]

StartPacket(n, p)     == [type |-> "START",  seq |-> n, path |-> p, body |-> {}]
DataPacket(n, p, k)   == [type |-> "DATA",   seq |-> n, path |-> p, body |-> {k}]
EndPacket(n, p, sum)  == [type |-> "END",    seq |-> n, path |-> p, body |-> sum]
CancelPacket(n)       == [type |-> "CANCEL", seq |-> n, path |-> NoPath, body |-> {}]

IdleCall == [path |-> NoPath, found |-> NoFile, first |-> NoFile, next |-> "idle"]

Init ==
    /\ state = "IDLE" /\ active = NoFile /\ sequence = 0 /\ expected = NoPacket
    /\ armed = FALSE /\ tpc = "idle"
    /\ fstate = [f \in Files |-> "NEW"] /\ opened = {}
    /\ remaining = Plan /\ summed = [f \in Files |-> {}] /\ onDisk = {}
    /\ running = TRUE /\ busy = 1 /\ queue = <<>> /\ store = <<>> /\ exiting = FALSE
    /\ upc = "outer" /\ ufile = NoFile /\ ret = NoPacket /\ rpc = "idle"
    /\ cpc = [c \in Clients |-> "idle"] /\ call = [c \in Clients |-> IdleCall]
    /\ link = <<>> /\ hands = <<>> /\ fsw = <<>>
    /\ ops = 0 /\ losses = 0

(* Windows: program points a few instructions away from the thread's next   *)
(* access to the shared state.                                              *)
Windows == {"sent", "stopTimer", "append", "cancel", "setCanceled", "pause",
            "replace", "resume", "finish", "release", "mark"}
InWindow == \/ upc \in Windows \/ rpc \in Windows \/ tpc \in Windows
            \/ \E c \in Clients : cpc[c] \in Windows
MayStart == Preempt \/ ~InWindow

-----------------------------------------------------------------------------
(* Definitions whose name starts with Bug are plausible slips in the        *)
(* definition that follows them: each is one a property below must notice.  *)

(* queue.Queue.                                                             *)
BugPeek == queue
Rest == Tail(queue)
Put(x) == queue' = Append(queue, x)
BugNoWake == UNCHANGED queue
Wake == Put(NoFile)

(* send(packet, handshake=True) pushes the packet, then restarts the timer  *)
(* and only then stores what it expects back.                               *)

Push(pkt) == link' = Append(link, pkt) /\ UNCHANGED <<hands, fsw>>
Expect(pkt) == expected' = pkt /\ armed' = TRUE

(* finish(), up to os.remove.  With the source already removed os.remove    *)
(* raises, after the state has been set: the rest of finish does not run.   *)
BugKeepSequence ==
         /\ opened' = opened \ {active}
         /\ onDisk' = onDisk \ {Source[active]}
         /\ sequence' = sequence
         /\ state' = "END_WAIT"
BugFileState ==
         /\ opened' = opened \ {active}
         /\ onDisk' = onDisk \ {Source[active]}
         /\ sequence' = 0
         /\ state' = "FINISHED"
Close == /\ opened' = opened \ {active}
         /\ onDisk' = onDisk \ {Source[active]}
         /\ sequence' = 0
         /\ state' = "END_WAIT"

-----------------------------------------------------------------------------
(* UplinkerThread: UplinkQueue.run and FileUplinker.start.                  *)

UOuter ==   \* both while conditions; a paused thread polls them
    /\ upc = "outer" /\ MayStart
    /\ \/ exiting /\ upc' = "done"
       \/ ~exiting /\ running /\ upc' = "get"
    /\ UNCHANGED <<ufile, ret, rpc, engine, timer, disk, jobs, client, wire, bounds>>

UGet ==     \* queue.get() and the exit/pause check that follows it
    /\ upc = "get" /\ MayStart /\ queue # <<>>
    /\ \/ /\ Head(queue) = NoFile \/ ~running
          /\ queue' = Append(Rest, Head(queue))
          /\ upc' = "outer" /\ UNCHANGED ufile
       \/ /\ Head(queue) # NoFile /\ running
          /\ queue' = Rest
          /\ upc' = "acquire" /\ ufile' = Head(queue)
    /\ UNCHANGED <<running, busy, store, exiting, ret, rpc, engine, timer, disk, client, wire, bounds>>

UAcquire ==
    /\ upc = "acquire" /\ MayStart /\ busy > 0
    /\ busy' = busy - 1 /\ upc' = "start"
    /\ UNCHANGED <<running, queue, store, exiting, ufile, ret, rpc, engine, timer, disk, client, wire, bounds>>

UBusy ==    \* start() raises FileUplinkerBusyException, which ends the thread
    /\ upc = "start" /\ MayStart /\ state # "IDLE"
    /\ upc' = "dead"
    /\ UNCHANGED <<ufile, ret, rpc, engine, timer, disk, jobs, client, wire, bounds>>

UNoSource ==    \* open() raises: the source is gone
    /\ upc = "start" /\ MayStart /\ state = "IDLE" /\ Source[ufile] \notin onDisk
    /\ state' = "RUNNING" /\ active' = ufile
    /\ fstate' = [fstate EXCEPT ![ufile] = "TRANSMITTING"]
    /\ upc' = "dead"
    /\ UNCHANGED <<sequence, expected, opened, remaining, summed, onDisk, ufile, ret, rpc, timer, jobs, client, wire, bounds>>

UStart ==   \* start(), to the point where the encoder has the START packet
    /\ upc = "start" /\ MayStart /\ state = "IDLE" /\ Source[ufile] \in onDisk
    /\ state' = "RUNNING" /\ active' = ufile
    /\ fstate' = [fstate EXCEPT ![ufile] = "TRANSMITTING"]
    /\ opened' = opened \cup {ufile}
    /\ ret' = StartPacket(sequence, Source[ufile])
    /\ Push(ret') /\ sequence' = sequence + 1
    /\ upc' = "sent"
    /\ UNCHANGED <<expected, remaining, summed, onDisk, ufile, rpc, timer, jobs, client, bounds>>

USent ==    \* the rest of send() for the START packet
    /\ upc = "sent" /\ upc' = "wait"
    /\ Expect(ret) /\ ret' = NoPacket
    /\ UNCHANGED <<state, active, sequence, tpc, ufile, rpc, disk, jobs, client, wire, bounds>>

UWait ==    \* acquire and release busy: the file is finished
    /\ upc = "wait" /\ MayStart /\ busy > 0
    /\ upc' = IF running THEN "get" ELSE "outer"
    /\ UNCHANGED <<ufile, ret, rpc, engine, timer, disk, jobs, client, wire, bounds>>

Uplink == UOuter \/ UGet \/ UAcquire \/ UBusy \/ UNoSource \/ UStart \/ USent \/ UWait

-----------------------------------------------------------------------------
(* Receiving thread: FileUplinker.data_callback.                            *)

Take == rpc = "idle" /\ MayStart /\ hands # <<>> /\ hands' = Tail(hands)

RIgnore ==  \* a handshake that is not the expected one
    /\ Take /\ Head(hands) # expected
    /\ UNCHANGED <<link, fsw, engine, timer, disk, jobs, threads, client, bounds>>

EndMark(old) == IF old = "CANCELED" THEN "CANCELED" ELSE "FINISHED"

REnd ==     \* the handshake of END or CANCEL
    /\ Take /\ Head(hands) = expected /\ state = "END_WAIT"
    /\ fstate' = [fstate EXCEPT ![active] = EndMark(@)]
    /\ state' = "IDLE" /\ busy' = busy + 1
    /\ rpc' = "stopTimer"
    /\ UNCHANGED <<active, sequence, expected, opened, remaining, summed, onDisk, running, queue, store, exiting, upc, ufile, ret, link, fsw>>
    /\ UNCHANGED <<timer, client, bounds>>

RStopTimer ==
    /\ rpc = "stopTimer" /\ rpc' = "idle" /\ armed' = FALSE
    /\ UNCHANGED <<tpc, upc, ufile, ret, engine, disk, jobs, client, wire, bounds>>

RCancel ==  \* a canceled file: CANCEL packet and finish()
    /\ Take /\ Head(hands) = expected /\ state = "CANCELED"
    /\ link' = Append(link, CancelPacket(sequence))
    /\ Expect(CancelPacket(sequence)) /\ Close
    /\ UNCHANGED <<active, tpc, fstate, remaining, summed, fsw, jobs, threads, client, bounds>>

RNext ==    \* go on, after the cooldown
    /\ Take /\ Head(hands) = expected /\ state \in {"RUNNING", "IDLE"}
    /\ rpc' = "read"
    /\ UNCHANGED <<upc, ufile, ret, link, fsw, engine, timer, disk, jobs, client, bounds>>

(* TransmitFile.read: the plan is exhausted, or names a packet that does    *)
(* not exist, at the end of the transfer.                                   *)
BugEofEarly(f) == Len(remaining[f]) < 2
Eof(f) == ~(remaining[f] # <<>> /\ Head(remaining[f]) \in 1 .. Size[f])

RClosed ==  \* read() asserts that the file is open; the distributor catches
    /\ rpc = "read" /\ MayStart /\ active \notin opened
    /\ rpc' = "idle"
    /\ UNCHANGED <<upc, ufile, ret, engine, timer, disk, jobs, client, wire, bounds>>

RData ==
    /\ rpc = "read" /\ MayStart /\ active \in opened /\ ~Eof(active)
    /\ LET k == Head(remaining[active])
           pkt == DataPacket(sequence, Source[active], k)
       IN /\ summed' = [summed EXCEPT ![active] = @ \cup {k}]
          /\ remaining' = [remaining EXCEPT ![active] = Tail(@)]
          /\ Push(pkt) /\ Expect(pkt)
    /\ sequence' = sequence + 1
    /\ rpc' = "idle"
    /\ UNCHANGED <<state, active, tpc, fstate, opened, onDisk, upc, ufile, ret, jobs, client, bounds>>

REof ==     \* END packet and finish()
    /\ rpc = "read" /\ MayStart /\ active \in opened /\ Eof(active)
    /\ remaining' = [remaining EXCEPT ![active] = IF @ = <<>> THEN @ ELSE Tail(@)]
    /\ LET pkt == EndPacket(sequence, Source[active], summed[active])
       IN Push(pkt) /\ Expect(pkt)
    /\ Close
    /\ rpc' = "idle"
    /\ UNCHANGED <<active, tpc, fstate, summed, upc, ufile, ret, jobs, client, bounds>>

Receive == RIgnore \/ REnd \/ RStopTimer \/ RCancel \/ RNext \/ RClosed \/ RData \/ REof

-----------------------------------------------------------------------------
(* Timer thread: FileUplinker.timeout, that is finish(False).  One callback *)
(* at a time (a second one would have to expire while the first still runs).*)

Quiet == link = <<>> /\ hands = <<>> /\ rpc = "idle" /\ ~InWindow

TFire ==
    /\ armed /\ tpc = "idle" /\ (Preempt \/ Quiet)
    /\ armed' = FALSE /\ tpc' = "finish"
    /\ UNCHANGED <<engine, disk, jobs, threads, client, wire, bounds>>

TFinish ==
    /\ tpc = "finish"
    /\ Close
    /\ tpc' = IF Source[active] \in onDisk THEN "release" ELSE "idle"
    /\ UNCHANGED <<active, expected, armed, fstate, remaining, summed, jobs, threads, client, wire, bounds>>

BugNoRelease ==
    /\ tpc = "release" /\ tpc' = "mark"
    /\ state' = "IDLE" /\ expected' = NoPacket
    /\ UNCHANGED <<active, sequence, armed, jobs, disk, threads, client, wire, bounds>>
TRelease ==
    /\ tpc = "release" /\ tpc' = "mark"
    /\ state' = "IDLE" /\ expected' = NoPacket /\ busy' = busy + 1
    /\ UNCHANGED <<active, sequence, armed, running, queue, store, exiting, disk, threads, client, wire, bounds>>

TMark ==    \* stop the timer and mark whichever file is active by now
    /\ tpc = "mark" /\ tpc' = "idle" /\ armed' = FALSE
    /\ fstate' = [fstate EXCEPT ![active] = "TIMEOUT"]
    /\ UNCHANGED <<opened, remaining, summed, onDisk, engine, jobs, threads, client, wire, bounds>>

Expire == TFire \/ TFinish \/ TRelease \/ TMark

-----------------------------------------------------------------------------
(* Clients: requests of the web server.                                     *)

Calls(c, op) == cpc[c] = "idle" /\ MayStart /\ op \in Ops /\ ops < MaxOps /\ ops' = ops + 1
Goto(c, pc) == cpc' = [cpc EXCEPT ![c] = pc]
Enter(c, pc, args) == Goto(c, pc) /\ call' = [call EXCEPT ![c] = args]
Return(c) == Enter(c, "idle", IdleCall)

(* A new upload is saved under a name that is not on disk (FileUploads.save) *)
(* and enqueued: first on the queue, then in the list shown to the user.     *)
BugAnyName(f) == TRUE
FreeName(f) == Source[f] \notin onDisk

CEnqueue(c, f) ==
    /\ cpc[c] = "idle" /\ MayStart /\ "enqueue" \in Ops
    /\ fstate[f] = "NEW" /\ FreeName(f)
    /\ onDisk' = onDisk \cup {Source[f]}
    /\ fstate' = [fstate EXCEPT ![f] = "QUEUED"]
    /\ Put(f)
    /\ Enter(c, "append", [IdleCall EXCEPT !.found = f])
    /\ UNCHANGED <<opened, remaining, summed, running, busy, store, exiting, engine, timer, threads, wire, bounds>>

CAppend(c) ==
    /\ cpc[c] = "append" /\ Return(c)
    /\ store' = Append(store, call[c].found)
    /\ UNCHANGED <<running, busy, queue, exiting, engine, timer, disk, threads, wire, bounds>>

(* cancel() is inlined in pause(), exit() and cancel_remove().              *)
CCancel(c) ==
    /\ cpc[c] = "cancel"
    /\ Goto(c, IF state = "RUNNING" THEN "setCanceled" ELSE call[c].next)
    /\ UNCHANGED <<engine, timer, disk, jobs, threads, call, wire, bounds>>

CSetCanceled(c) ==
    /\ cpc[c] = "setCanceled" /\ Goto(c, call[c].next)
    /\ state' = "CANCELED"
    /\ fstate' = [fstate EXCEPT ![active] = "CANCELED"]
    /\ UNCHANGED <<active, sequence, expected, opened, remaining, summed, onDisk, call, timer, jobs, threads, wire, bounds>>

CPause(c) ==
    /\ Calls(c, "pause") /\ Enter(c, "cancel", [IdleCall EXCEPT !.next = "pause"])
    /\ UNCHANGED <<engine, timer, disk, jobs, threads, wire, losses>>

CPauseQueue(c) ==
    /\ cpc[c] = "pause"
    /\ running' = FALSE
    /\ Enter(c, IF running THEN "hold" ELSE "idle", IdleCall)
    /\ UNCHANGED <<busy, queue, store, exiting, engine, timer, disk, threads, wire, bounds>>

CHold(c) ==
    /\ cpc[c] = "hold" /\ MayStart /\ busy > 0
    /\ busy' = busy - 1 /\ Goto(c, "idle")
    /\ UNCHANGED <<running, queue, store, exiting, engine, timer, disk, threads, call, wire, bounds>>

BugAlwaysUnpause(c) ==
    /\ Calls(c, "unpause")
    /\ busy' = busy + 1 /\ Goto(c, "resume")
    /\ UNCHANGED <<running, queue, store, exiting, engine, timer, disk, threads, call, wire, losses>>
CUnpause(c) ==
    /\ Calls(c, "unpause") /\ ~running
    /\ busy' = busy + 1 /\ Goto(c, "resume")
    /\ UNCHANGED <<running, queue, store, exiting, engine, timer, disk, threads, call, wire, losses>>

CResume(c) ==
    /\ cpc[c] = "resume" /\ running' = TRUE /\ Goto(c, "idle")
    /\ UNCHANGED <<busy, queue, store, exiting, engine, timer, disk, threads, call, wire, bounds>>

CCancelRemove(c, p) ==
    /\ Calls(c, "remove")
    /\ \/ /\ active # NoFile /\ Source[active] = p
          /\ Enter(c, "cancel", IdleCall)
       \/ /\ ~(active # NoFile /\ Source[active] = p)
          /\ Enter(c, "scan", [IdleCall EXCEPT !.path = p])
    /\ UNCHANGED <<engine, timer, disk, jobs, threads, wire, losses>>

(* UplinkQueue.remove takes the queue apart: each element is put back at the *)
(* tail until the path is found or the first one comes round again, which is *)
(* what it then drops.                                                       *)
CScanEnd(c) ==      \* queue.Empty
    /\ cpc[c] = "scan" /\ MayStart /\ queue = <<>>
    /\ Return(c)
    /\ UNCHANGED <<engine, timer, disk, jobs, threads, wire, bounds>>

Matches(f, p) == f # NoFile /\ Source[f] = p

Without(s, x) ==    \* list.remove
    IF \A i \in DOMAIN s : s[i] # x THEN s
    ELSE LET k == CHOOSE i \in DOMAIN s : s[i] = x
         IN [i \in 1 .. Len(s) - 1 |-> IF i < k THEN s[i] ELSE s[i + 1]]

CScanDrop(c) ==
    /\ cpc[c] = "scan" /\ MayStart /\ queue # <<>>
    /\ \/ Head(queue) = call[c].first
       \/ Matches(Head(queue), call[c].path)
       \/ Head(queue) = NoFile              \* None.source raises, None is lost
    /\ queue' = Rest
    /\ store' = Without(store, Head(queue))
    /\ Return(c)
    /\ UNCHANGED <<running, busy, exiting, engine, timer, disk, threads, wire, bounds>>

CScanTake(c) ==
    /\ cpc[c] = "scan" /\ MayStart /\ queue # <<>>
    /\ Head(queue) \notin {call[c].first, NoFile} /\ ~Matches(Head(queue), call[c].path)
    /\ queue' = Rest
    /\ call' = [call EXCEPT ![c].found = Head(queue),
                            ![c].first = IF @ = NoFile THEN Head(queue) ELSE @]
    /\ Goto(c, "replace")
    /\ UNCHANGED <<running, busy, store, exiting, engine, timer, disk, threads, wire, bounds>>

CReplace(c) ==
    /\ cpc[c] = "replace" /\ Goto(c, "scan")
    /\ Put(call[c].found)
    /\ UNCHANGED <<running, busy, store, exiting, call, engine, timer, disk, threads, wire, bounds>>

CSendCancel(c) ==   \* no handshake expected, no timer; the sequence restarts
    /\ Calls(c, "sendcancel")
    /\ Push(CancelPacket(sequence)) /\ sequence' = 0
    /\ UNCHANGED <<state, active, expected, client, timer, disk, jobs, threads, losses>>

CExit(c) ==
    /\ Calls(c, "exit") /\ ~exiting
    /\ exiting' = TRUE /\ running' = FALSE /\ Wake
    /\ Enter(c, "cancel", [IdleCall EXCEPT !.next = "join"])
    /\ UNCHANGED <<busy, store, engine, timer, disk, threads, wire, losses>>

CJoin(c) ==
    /\ cpc[c] = "join" /\ MayStart /\ upc \in {"done", "dead"}
    /\ Return(c)
    /\ UNCHANGED <<engine, timer, disk, jobs, threads, wire, bounds>>

Request(c) ==       \* a new call
    \/ \E f \in Files : CEnqueue(c, f)
    \/ \E p \in Paths : CCancelRemove(c, p)
    \/ CPause(c) \/ CUnpause(c) \/ CSendCancel(c) \/ CExit(c)
Proceed(c) ==       \* the next step of a call in progress
    \/ CAppend(c) \/ CCancel(c) \/ CSetCanceled(c) \/ CPauseQueue(c) \/ CHold(c)
    \/ CResume(c) \/ CScanEnd(c) \/ CScanDrop(c) \/ CScanTake(c) \/ CReplace(c) \/ CJoin(c)

-----------------------------------------------------------------------------
(* The link and the far end, which echoes what it receives.                 *)

Deliver ==
    /\ link # <<>> /\ MayStart
    /\ link' = Tail(link)
    /\ fsw' = Append(fsw, Head(link)) /\ hands' = Append(hands, Head(link))
    /\ UNCHANGED <<engine, timer, disk, jobs, threads, client, bounds>>

Lose ==
    /\ link # <<>> /\ MayStart
    /\ Head(link).type \in Lossy /\ losses < MaxLosses
    /\ losses' = losses + 1
    /\ link' = Tail(link)
    /\ UNCHANGED <<engine, timer, disk, jobs, threads, client, hands, fsw, ops>>

Transmit == Deliver \/ Lose

Next == Uplink \/ Receive \/ Expire \/ Transmit \/ \E c \in Clients : Request(c) \/ Proceed(c)

Spec == Init /\ [][Next]_vars

(* Threads run, timers expire, the link moves and a call once made goes on. *)
(* Fairness is strong because a window of another thread, or remove() while *)
(* it holds an element, disables a thread for a few instructions only.      *)
(* Nothing obliges a user to make a call.                                   *)
FairSpec == /\ Spec
            /\ SF_vars(Uplink) /\ SF_vars(Receive) /\ SF_vars(Expire) /\ SF_vars(Transmit)
            /\ \A c \in Clients : WF_vars(Proceed(c))

-----------------------------------------------------------------------------
(* Properties.                                                              *)

(* Types of the state; a thread that is about to use a file holds one.      *)
EngineOK == /\ state \in {"IDLE", "RUNNING", "CANCELED", "END_WAIT"}
            /\ active \in Files \cup {NoFile} /\ sequence \in Nat
            /\ expected \in Packets \cup {NoPacket}
TimerOK  == armed \in BOOLEAN /\ tpc \in {"idle", "finish", "release", "mark"}
DiskOK   == /\ fstate \in [Files -> {"NEW", "QUEUED", "TRANSMITTING", "FINISHED",
                                     "CANCELED", "TIMEOUT"}]
            /\ opened \subseteq Files /\ onDisk \subseteq Paths
            /\ remaining \in [Files -> Seq(Nat)] /\ summed \in [Files -> SUBSET Nat]
JobsOK   == /\ running \in BOOLEAN /\ exiting \in BOOLEAN /\ busy \in Nat
            /\ queue \in Seq(Files \cup {NoFile}) /\ store \in Seq(Files)
ThreadsOK == /\ upc \in {"outer", "get", "acquire", "start", "sent", "wait", "done", "dead"}
             /\ rpc \in {"idle", "read", "stopTimer"} /\ ret \in Packets \cup {NoPacket}
             /\ ufile \in Files \cup {NoFile}
             /\ upc \in {"acquire", "start"} => ufile \in Files
CallPcs  == {"idle", "append", "cancel", "setCanceled", "pause", "hold", "resume",
             "scan", "replace", "join"}
CallArgs == [path : Paths \cup {NoPath}, found : Files \cup {NoFile},
             first : Files \cup {NoFile}, next : {"idle", "pause", "join"}]
ClientOK == /\ cpc \in [Clients -> CallPcs] /\ call \in [Clients -> CallArgs]
            /\ \A c \in Clients : cpc[c] \in {"append", "replace"} => call[c].found \in Files
WireOK   == link \in Seq(Packets) /\ hands \in Seq(Packets) /\ fsw \in Seq(Packets)
BoundsOK == ops \in 0 .. MaxOps /\ losses \in 0 .. MaxLosses
TypeOK   == /\ EngineOK /\ TimerOK /\ DiskOK /\ JobsOK
            /\ ThreadsOK /\ ClientOK /\ WireOK /\ BoundsOK

(* The UplinkerThread never finds the uplinker busy or a source missing,    *)
(* either of which ends it and with it every later upload (start(), run()). *)
ThreadSurvives == upc # "dead"

(* Stop and wait: no packet is sent before the previous one's handshake has *)
(* been consumed or given up (data_callback, send, timeout).                *)
StopAndWait == Len(link) + Len(hands) <= 1

(* What the flight software receives is a sequence of transfers, each a     *)
(* START, then packets of the same file numbered without a gap, then END or *)
(* CANCEL, unless it is abandoned for the next START.                       *)
Follows(p, q) == /\ p.type \in {"START", "DATA"} /\ q.seq = p.seq + 1
                 /\ q.type = "CANCEL" \/ q.path = p.path
StreamWellFormed ==
    \A i \in DOMAIN fsw : IF fsw[i].type = "START" THEN fsw[i].seq = 0
                          ELSE i > 1 /\ Follows(fsw[i - 1], fsw[i])

(* An END packet that arrives closes a transfer that delivered exactly the  *)
(* chunks its checksum covers, and those are the planned chunks, each once  *)
(* and in order, up to the first that does not exist (data_callback,        *)
(* TransmitFile.read).                                                      *)
Exists(f, k) == k \in 1 .. Size[f]
Planned(f) == CHOOSE n \in 0 .. Len(Plan[f]) :
    /\ \A k \in 1 .. n : Exists(f, Plan[f][k])
    /\ n < Len(Plan[f]) => ~Exists(f, Plan[f][n + 1])
Chunks(f, n, e) ==      \* START and n chunks of f, up to the packet at e
    /\ e > n /\ fsw[e - n] = StartPacket(0, Source[f])
    /\ \A k \in 1 .. n : fsw[e - n + k] = DataPacket(k, Source[f], Plan[f][k])
Delivered(f, e) ==
    /\ Chunks(f, Planned(f), e - 1)
    /\ fsw[e].body = {Plan[f][k] : k \in 1 .. Planned(f)}
EndMeansComplete ==
    \A e \in DOMAIN fsw : fsw[e].type = "END" =>
        \E f \in Files : Source[f] = fsw[e].path /\ Delivered(f, e)

(* A file shown as FINISHED has been delivered completely.                  *)
FinishedMeansDelivered ==
    \A f \in Files : fstate[f] = "FINISHED" => \E e \in DOMAIN fsw :
        fsw[e].type = "END" /\ Delivered(f, e)

(* The busy semaphore is a token until exit(): it is on the semaphore, with *)
(* the transfer in progress (from the thread's acquire to the release in    *)
(* data_callback or finish), or with a client that has paused the queue.    *)
Transferring == upc \in {"start", "sent"} \/ state # "IDLE"
Paused == ~running /\ ~exiting /\ \A c \in Clients : cpc[c] \notin {"hold", "resume"}
OneToken == ~exiting =>
    busy + (IF Transferring THEN 1 ELSE 0) + (IF Paused THEN 1 ELSE 0) = 1

(* While the queue is paused nothing is sent but CANCEL packets by hand.    *)
PausedQuiet == Paused /\ (\A c \in Clients : cpc[c] = "idle") =>
    ~armed /\ \A i \in DOMAIN link : link[i].type = "CANCEL"

(* A file waiting for its turn still has its source on disk: finish() of    *)
(* one file never removes the source of another.                            *)
Waiting(f) == (\E i \in DOMAIN queue : queue[i] = f) \/ (ufile = f /\ upc \in {"acquire", "start"})
QueuedOnDisk == \A f \in Files : Waiting(f) => Source[f] \in onDisk

(* Files are started in the order in which they were enqueued, as long as   *)
(* no call takes the queue apart (UplinkQueue.enqueue, run).                *)
StartedInOrder == ops = 0 => \A i, j \in DOMAIN store :
    i < j /\ fstate[store[i]] = "QUEUED" => fstate[store[j]] = "QUEUED"

(* Only a lost packet makes a file time out.                                *)
TimeoutMeansLoss == (\E f \in Files : fstate[f] = "TIMEOUT") => losses > 0

(* A file object is opened at most once, whatever the interleaving: only    *)
(* one that is waiting is opened, and one that has been started never waits *)
(* again (UplinkQueue.run, UplinkQueue.remove, TransmitFile.open).          *)
Started(f) == fstate[f] \notin {"NEW", "QUEUED"}
OpensOnce(f) == /\ f \in opened' \ opened => fstate[f] = "QUEUED"
                /\ Started(f) => Started(f)' /\ ~Waiting(f)'
OpenedOnce == [][\A f \in Files : OpensOnce(f)]_vars

(* A transfer that has begun ends and the queue moves on.                   *)
TransfersEnd == state # "IDLE" ~> state = "IDLE"
QueueDrains == \A f \in Files : Waiting(f) ~> ~Waiting(f)

(* timeout() finishes the upload immediately (uplinker.py:318).             *)
TimeoutFinishes == tpc = "finish" ~> state = "IDLE"

(* exit() returns, unless a client that has paused the queue keeps the busy *)
(* token: its join() is not left waiting (uplinker.py:183).                 *)
TokenKept == busy = 0 /\ ~Transferring
ExitReturns == \A c \in Clients : cpc[c] = "join" /\ ~TokenKept ~> cpc[c] = "idle"

(* The upload thread lives, and what waits in its queue can be sent when its  *)
(* turn comes, which comes in the order of the uploads (UplinkQueue.run).     *)
QueueKept == ThreadSurvives /\ QueuedOnDisk /\ StartedInOrder

(* On the wire there is one packet at a time, and what the flight software    *)
(* makes of them is a sequence of transfers (send, data_callback).            *)
WireProtocol == StopAndWait /\ StreamWellFormed

(* What the flight software is told at the end of a transfer and what the     *)
(* user is shown is what happened (data_callback, finish, timeout).           *)
OutcomesTrue == EndMeansComplete /\ FinishedMeansDelivered /\ TimeoutMeansLoss

(* The token and the wire, while clients pause, resume and cancel             *)
(* (UplinkQueue.pause, UplinkQueue.unpause).                                  *)
PauseHolds == OneToken /\ PausedQuiet

(* Uploads come to an end, the one under way and those that wait.             *)
UplinksEnd == TransfersEnd /\ QueueDrains
=============================================================================
