--------------------------- MODULE FileDownlinker ---------------------------
(***************************************************************************)
(* File downlink of the GDS (common/files/downlinker.py).                  *)
(*                                                                         *)
(* The receiving thread calls data_callback with the packets the flight    *)
(* software sends; the thread of threading.Timer calls timeout.  Both run  *)
(* finish() on the same fields without a lock.  The flight software is     *)
(* external: it sends the transfers in order, may cancel one, may stop at  *)
(* any point, and its packets may be lost.                                 *)
(***************************************************************************)
EXTENDS Naturals, Sequences

CONSTANTS
    Transfers,  \* sequence of the transfers the flight software sends
    None,
    Dest,       \* Dest[t]: destination path of transfer t
    Size,       \* Size[t]: number of DATA packets of t
    Outcomes,   \* what TransmitFile.open may do: "ok", "denied" (PermissionError),
                \* "failed" (any other OSError)
    Lossy,      \* types of packets that may be lost
    MaxLosses

TransferSet == {Transfers[i] : i \in DOMAIN Transfers}
Dests == {Dest[t] : t \in TransferSet}

ASSUME DownlinkAssumption ==
    /\ None \notin TransferSet /\ Transfers \in Seq(TransferSet)
    /\ \A i, j \in DOMAIN Transfers : Transfers[i] = Transfers[j] => i = j
    /\ Size \in [TransferSet -> Nat]
    /\ Outcomes \subseteq {"ok", "denied", "failed"}
    /\ MaxLosses \in Nat

VARIABLES
    state, active, sequence, armed,     \* FileDownlinker and its timer
    opened, mark, seek, files,          \* TransmitFile objects, list of files
    disk,                               \* disk[p][k]: transfer that wrote chunk k of p
    pc, pkt, after,                     \* threads: "r" receiver, "t" timer
    tx, nx, losses,                     \* flight software: transfer, next packet
    warned, ended,                      \* transfers warned about, closed by END
    stale,                              \* ghost: transfers whose START found sequence
                                        \* already counting DATA outside of a transfer
    disturbed                           \* ghost: finish() of the timer met a packet, or
                                        \* opening a file failed half-way

engine == <<state, active, sequence, armed>>
store  == <<opened, mark, seek, files, disk>>
sender == <<tx, nx, losses>>
seen   == <<warned, ended, stale, disturbed>>
vars   == <<engine, store, pc, pkt, after, sender, seen>>

NoPacket == [type |-> "NONE", seq |-> 0, of |-> None]

Init ==
    /\ state = "IDLE" /\ active = None /\ sequence = 0 /\ armed = FALSE
    /\ opened = {} /\ files = {}
    /\ mark = [t \in TransferSet |-> "NONE"] /\ seek = [t \in TransferSet |-> 0]
    /\ disk = [p \in Dests |-> <<>>]
    /\ pc = [a \in {"r", "t"} |-> "idle"] /\ pkt = NoPacket /\ after = "idle"
    /\ tx = 1 /\ nx = 0 /\ losses = 0
    /\ warned = {} /\ ended = {} /\ stale = {} /\ disturbed = FALSE

Goto(a, p) == pc' = [pc EXCEPT ![a] = p]

-----------------------------------------------------------------------------
(* The flight software.                                                     *)

Now == Transfers[tx]
NextPacket == [type |-> IF nx = 0 THEN "START" ELSE IF nx <= Size[Now] THEN "DATA" ELSE "END",
               seq |-> nx, of |-> Now]
Sent(p) == IF p.type \in {"END", "CANCEL"} THEN tx' = tx + 1 /\ nx' = 0
           ELSE nx' = nx + 1 /\ UNCHANGED tx
Sendable == {NextPacket} \cup {[NextPacket EXCEPT !.type = "CANCEL"] : n \in 1 .. nx}

Lose ==
    /\ tx <= Len(Transfers) /\ losses < MaxLosses
    /\ \E p \in Sendable : p.type \in Lossy /\ Sent(p)
    /\ losses' = losses + 1
    /\ UNCHANGED <<engine, store, pc, pkt, after, seen>>

-----------------------------------------------------------------------------
(* Receiving thread.  data_callback restarts the timer whatever the packet. *)

RTake ==
    /\ pc.r = "idle"
    /\ tx <= Len(Transfers)
    /\ \E p \in Sendable : Sent(p) /\ pkt' = p /\ Goto("r", p.type)
    /\ armed' = TRUE /\ disturbed' = (disturbed \/ pc.t # "idle")
    /\ UNCHANGED <<state, active, sequence, store, after, losses, warned, ended, stale>>

RStart ==
    /\ pc.r = "START"
    /\ IF state # "IDLE" THEN Goto("r", "finish") /\ after' = "open"
       ELSE Goto("r", "open") /\ UNCHANGED after
    /\ UNCHANGED <<engine, store, pkt, sender, seen>>

ROpen ==    \* asserts that no file is active, then opens the new one
    /\ pc.r = "open" /\ active = None
    /\ active' = pkt.of
    /\ \E o \in Outcomes :
       /\ \/ o = "ok" /\ Goto("r", "run") /\ UNCHANGED state
          \/ o = "denied" /\ state' = "ERROR" /\ Goto("r", "idle")
          \/ o = "failed" /\ Goto("r", "idle") /\ UNCHANGED state
       /\ disturbed' = (disturbed \/ o = "failed")
    /\ \/ opened' = opened \cup {pkt.of} /\ mark' = [mark EXCEPT ![pkt.of] = "TRANSMITTING"]
       \/ pc'.r = "idle" /\ UNCHANGED <<opened, mark>>    \* touch or open failed, not the log
    /\ UNCHANGED <<sequence, armed, seek, files, disk, pkt, after, sender, warned, ended, stale>>

RAssert ==  \* the assertion fails and the packet is dropped
    /\ pc.r = "open" /\ active # None /\ Goto("r", "idle")
    /\ UNCHANGED <<engine, store, pkt, after, sender, seen>>

RRun ==     \* the rest of handle_start; fails on active.log_handler if active is gone
    /\ pc.r = "run" /\ Goto("r", "idle")
    /\ \/ active = None /\ UNCHANGED <<files, state, sequence, stale>>
       \/ active # None /\ files' = files \cup {active}
          /\ state' = "RUNNING" /\ sequence' = sequence + 1
          /\ stale' = IF sequence = 0 THEN stale ELSE stale \cup {active}
    /\ UNCHANGED <<active, armed, opened, mark, seek, disk, pkt, after, sender,
                   warned, ended, disturbed>>

CountData == sequence' = sequence + 1

BugNoStateCheck == TRUE
InTransfer == state = "RUNNING"

RStray ==   \* DATA outside of a transfer
    /\ pc.r = "DATA" /\ ~InTransfer
    /\ CountData /\ Goto("r", "idle")
    /\ UNCHANGED <<state, active, armed, store, pkt, after, sender, seen>>

RData ==
    /\ pc.r = "DATA" /\ InTransfer /\ Goto("r", "write")
    /\ UNCHANGED <<engine, store, pkt, after, sender, seen>>

(* A sequence number or an offset other than the expected one is logged.    *)
BugOnlyRepeats == pkt.seq < sequence
Unexpected == pkt.seq # sequence
Gap == pkt.seq - 1 # seek[active]
Put(s, k, t) == [i \in 1 .. (IF k > Len(s) THEN k ELSE Len(s)) |->
                    IF i = k THEN t ELSE IF i <= Len(s) THEN s[i] ELSE None]

RWrite ==
    /\ pc.r = "write" /\ active \in opened
    /\ warned' = IF Unexpected \/ Gap THEN warned \cup {active} ELSE warned
    /\ disk' = [disk EXCEPT ![Dest[active]] = Put(@, pkt.seq, pkt.of)]
    /\ seek' = [seek EXCEPT ![active] = pkt.seq]
    /\ CountData /\ Goto("r", "idle")
    /\ UNCHANGED <<state, active, armed, opened, mark, files, pkt, after, sender, ended, stale, disturbed>>

RNoWrite == \* active is None or closed: AttributeError or failed assertion
    /\ pc.r = "write" /\ active \notin opened /\ Goto("r", "idle")
    /\ UNCHANGED <<engine, store, pkt, after, sender, seen>>

REnd ==
    /\ pc.r = "END"
    /\ \/ /\ state = "RUNNING" /\ Goto("r", "finish") /\ after' = "idle"
          /\ warned' = IF Unexpected THEN (warned \cup {active}) \ {None} ELSE warned
          /\ ended' = (ended \cup {active}) \ {None}
          /\ UNCHANGED <<stale, disturbed>>
       \/ state = "ERROR" /\ Goto("r", "finish") /\ after' = "idle" /\ UNCHANGED seen
       \/ state = "IDLE" /\ Goto("r", "idle") /\ UNCHANGED <<after, seen>>
    /\ UNCHANGED <<engine, store, pkt, sender>>

RCancel ==
    /\ pc.r = "CANCEL"
    /\ \/ state = "RUNNING" /\ Goto("r", "finish") /\ after' = "idle"
       \/ state # "RUNNING" /\ Goto("r", "idle") /\ UNCHANGED after
    /\ UNCHANGED <<engine, store, pkt, sender, seen>>

-----------------------------------------------------------------------------
(* finish(), run by either thread.  It fails where it uses active if that   *)
(* is None by then, leaving its caller as well.                             *)

BugFinished == state' = "FINISHED"
ResetState == state' = "IDLE"
ResetSequence == sequence' = 0

Clear(a) ==     \* timer.stop, state, sequence
    /\ pc[a] = "finish"
    /\ armed' = FALSE /\ ResetState /\ ResetSequence
    /\ Goto(a, IF active = None THEN "idle" ELSE "close")
    /\ UNCHANGED <<active, store, pkt, after, sender, seen>>

BugLeaveOpen == opened
Closed == opened \ {active}

Close(a) ==
    /\ pc[a] = "close"
    /\ IF active = None THEN Goto(a, "idle") /\ UNCHANGED <<mark, opened>>
       ELSE /\ Goto(a, "drop") /\ mark' = [mark EXCEPT ![active] = "FINISHED"]
            /\ opened' = Closed
    /\ UNCHANGED <<engine, seek, files, disk, pkt, after, sender, seen>>

Drop(a) ==
    /\ pc[a] = "drop" /\ active' = None
    /\ Goto(a, IF a = "r" THEN after ELSE "idle")
    /\ UNCHANGED <<state, sequence, armed, store, pkt, after, sender, seen>>

BugNeverFires == FALSE
MayFire == pc.t = "idle"
TFire ==        \* Timeout expires: timeout() calls finish()
    /\ armed /\ MayFire
    /\ armed' = FALSE /\ Goto("t", "finish")
    /\ disturbed' = (disturbed \/ pc.r # "idle")
    /\ UNCHANGED <<state, active, sequence, store, pkt, after, sender, warned, ended, stale>>

Receiver == \/ RTake \/ RStart \/ ROpen \/ RAssert \/ RRun \/ RStray \/ RData
            \/ RWrite \/ RNoWrite \/ REnd \/ RCancel
Finish(a) == Clear(a) \/ Close(a) \/ Drop(a)

Next == Receiver \/ Finish("r") \/ Finish("t") \/ TFire \/ Lose
Spec == Init /\ [][Next]_vars

(* The receiver finishes what it began and a timer expires; the flight      *)
(* software may stop sending for good.                                      *)
FairSpec == /\ Spec
            /\ WF_vars(Receiver /\ pc.r # "idle") /\ WF_vars(Finish("r"))
            /\ WF_vars(Finish("t")) /\ WF_vars(TFire)

-----------------------------------------------------------------------------
Pcs == {"idle", "START", "DATA", "END", "CANCEL", "open", "run", "write",
        "finish", "close", "drop"}
Idle == pc.r = "idle" /\ pc.t = "idle"

(* Types of the downlinker's state.                                         *)
TypeOK ==
    /\ state \in {"IDLE", "RUNNING", "ERROR"} /\ active \in TransferSet \cup {None}
    /\ sequence \in Nat /\ armed \in BOOLEAN
    /\ opened \subseteq TransferSet /\ files \subseteq TransferSet
    /\ mark \in [TransferSet -> {"NONE", "TRANSMITTING", "FINISHED"}]
    /\ seek \in [TransferSet -> Nat] /\ disk \in [Dests -> Seq(TransferSet \cup {None})]
    /\ pc \in [{"r", "t"} -> Pcs] /\ after \in {"idle", "open"}
    /\ warned \subseteq TransferSet /\ ended \subseteq TransferSet
    /\ stale \subseteq TransferSet /\ disturbed \in BOOLEAN

(* Between two packets there is an active file exactly when a transfer is   *)
(* in progress or discarded, and no other file is open, as long as the      *)
(* timeout never met a packet and no file was opened half-way               *)
(* (handle_start, finish).                                                  *)
OneOpenFile == Idle /\ ~disturbed =>
    /\ (active # None) <=> (state # "IDLE")
    /\ state = "RUNNING" => active \in opened
    /\ opened \subseteq {active}

(* A transfer closed by its END packet without a warning in the log is      *)
(* complete, under the same conditions; or, where DATA packets outside of a *)
(* transfer had moved the counter before its START, its file is empty: that *)
(* gap the counter hides (handle_data, handle_end).                         *)
Complete(t) == \A k \in 1 .. Size[t] : k <= Len(disk[Dest[t]]) /\ disk[Dest[t]][k] = t
Hidden(t) == t \in stale /\ disk[Dest[t]] = <<>>
HolesNoticed == ~disturbed => \A t \in ended \ warned : Complete(t) \/ Hidden(t)

(* No file holds data of another transfer, wherever the timer fires.        *)
NoMixing == \A t \in TransferSet : \A k \in DOMAIN disk[Dest[t]] :
    disk[Dest[t]][k] \in {None, t}

(* A transfer whose timer runs is closed, if not by END, CANCEL or the next  *)
(* START then by the timeout (data_callback, timeout).                      *)
TimedCloses == state = "RUNNING" /\ armed ~> state = "IDLE"
=============================================================================
