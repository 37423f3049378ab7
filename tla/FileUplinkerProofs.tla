------------------------- MODULE FileUplinkerProofs -------------------------
(***************************************************************************)
(* Theorems about FileUplinker for every set of files, paths and clients,  *)
(* every plan, every bound, and both values of Preempt; then about its     *)
(* protocol where the windows of a few instructions run to their end: one  *)
(* transfer at a time, one packet at a time, and what the flight software  *)
(* and the user are told is what happened.                                 *)
(***************************************************************************)
EXTENDS FileUplinker, TLAPS, WellFoundedInduction

(* Removing an element from a list of files leaves a list of files.        *)
LEMMA WithoutType ==
    ASSUME NEW S, NEW s \in Seq(S), NEW x
    PROVE  Without(s, x) \in Seq(S)
<1>1. CASE \A i \in DOMAIN s : s[i] # x
  BY <1>1 DEF Without
<1>2. CASE \E i \in DOMAIN s : s[i] = x
  <2> DEFINE k == CHOOSE i \in DOMAIN s : s[i] = x
             t == [i \in 1 .. Len(s) - 1 |-> IF i < k THEN s[i] ELSE s[i + 1]]
  <2>1. Len(s) \in Nat /\ DOMAIN s = 1 .. Len(s) /\ Len(s) >= 1
    BY <1>2
  <2>2. \A i \in 1 .. Len(s) - 1 : t[i] \in S
    BY <2>1
  <2>3. t \in Seq(S)
    BY <2>1, <2>2
  <2> QED
    BY <1>2, <2>3 DEF Without
<1> QED
  BY <1>1, <1>2

(* What the uplinker sends is a packet.                                    *)
LEMMA SourceType == \A f \in Files : Source[f] \in Paths
BY ConstantsAssumption
LEMMA StartType == \A n \in Nat, p \in Paths : StartPacket(n, p) \in Packets
BY DEF StartPacket, Packets, Types
LEMMA DataType == \A n, k \in Nat, p \in Paths : DataPacket(n, p, k) \in Packets
BY DEF DataPacket, Packets, Types
LEMMA EndType == \A n \in Nat, p \in Paths, b \in SUBSET Nat : EndPacket(n, p, b) \in Packets
BY DEF EndPacket, Packets, Types
LEMMA CancelType == \A n \in Nat : CancelPacket(n) \in Packets
BY DEF CancelPacket, Packets, Types

(* A packet number read from the plan is a number.                         *)
LEMMA ReadType ==
    \A f \in Files : DiskOK /\ ~Eof(f) =>
        /\ Head(remaining[f]) \in Nat
        /\ Tail(remaining[f]) \in Seq(Nat)
BY DEF DiskOK, Eof

(* A part of the state that a step leaves alone keeps its type.            *)
LEMMA Frames ==
    /\ EngineOK /\ UNCHANGED engine => EngineOK'
    /\ TimerOK /\ UNCHANGED timer => TimerOK'
    /\ DiskOK /\ UNCHANGED disk => DiskOK'
    /\ JobsOK /\ UNCHANGED jobs => JobsOK'
    /\ ThreadsOK /\ UNCHANGED threads => ThreadsOK'
    /\ ClientOK /\ UNCHANGED client => ClientOK'
    /\ WireOK /\ UNCHANGED wire => WireOK'
    /\ BoundsOK /\ UNCHANGED bounds => BoundsOK'
<1>1. EngineOK /\ UNCHANGED engine => EngineOK'
  BY DEF EngineOK, engine
<1>2. TimerOK /\ UNCHANGED timer => TimerOK'
  BY DEF TimerOK, timer
<1>3. DiskOK /\ UNCHANGED disk => DiskOK'
  BY DEF DiskOK, disk
<1>4. JobsOK /\ UNCHANGED jobs => JobsOK'
  BY DEF JobsOK, jobs
<1>5. ThreadsOK /\ UNCHANGED threads => ThreadsOK'
  BY DEF ThreadsOK, threads
<1>6. ClientOK /\ UNCHANGED client => ClientOK'
  BY DEF ClientOK, client
<1>7. WireOK /\ UNCHANGED wire => WireOK'
  BY DEF WireOK, wire
<1>8. BoundsOK /\ UNCHANGED bounds => BoundsOK'
  BY DEF BoundsOK, bounds
<1> QED
  BY <1>1, <1>2, <1>3, <1>4, <1>5, <1>6, <1>7, <1>8

LEMMA TypeInit == Init => TypeOK
<1> SUFFICES ASSUME Init PROVE TypeOK
  OBVIOUS
<1> USE ConstantsAssumption DEF Init
<1>1. EngineOK /\ TimerOK
  BY DEF EngineOK, TimerOK
<1>2. DiskOK
  BY DEF DiskOK
<1>5. JobsOK
  <2>1. queue \in Seq(Files \cup {NoFile}) /\ store \in Seq(Files)
    OBVIOUS
  <2> QED
    BY <2>1 DEF JobsOK
<1>3. ThreadsOK /\ WireOK /\ BoundsOK
  BY DEF ThreadsOK, WireOK, BoundsOK
<1>4. ClientOK
  BY DEF ClientOK, IdleCall, CallPcs, CallArgs
<1> QED
  BY <1>1, <1>2, <1>3, <1>4, <1>5 DEF TypeOK

LEMMA TypeStep == TypeOK /\ [Next]_vars => TypeOK'
<1> SUFFICES ASSUME TypeOK, [Next]_vars PROVE TypeOK'
  OBVIOUS
<1> USE DEF TypeOK
<1>1. CASE UOuter
  <2>1. ThreadsOK'
    BY <1>1 DEF UOuter, ThreadsOK
  <2> QED
    BY <2>1, <1>1, Frames DEF UOuter
<1>2. CASE UGet
  <2>1. JobsOK'
    <3>1. /\ queue \in Seq(Files \cup {NoFile}) /\ queue # <<>>
          /\ UNCHANGED <<running, busy, store, exiting>>
          /\ queue' = Tail(queue) \/ queue' = Append(Tail(queue), Head(queue))
      BY <1>2 DEF UGet, JobsOK, Rest
    <3>2. Head(queue) \in Files \cup {NoFile} /\ Tail(queue) \in Seq(Files \cup {NoFile})
      BY <3>1
    <3>3. queue' \in Seq(Files \cup {NoFile})
      BY <3>1, <3>2
    <3> QED
      BY <3>1, <3>3 DEF JobsOK
  <2>2. ThreadsOK'
    BY <1>2, JobsOK DEF UGet, ThreadsOK, Rest, JobsOK
  <2> QED
    BY <2>1, <2>2, <1>2, Frames DEF UGet
<1>3. CASE UAcquire
  <2>1. JobsOK'
    BY <1>3 DEF UAcquire, JobsOK
  <2>2. ThreadsOK'
    BY <1>3 DEF UAcquire, ThreadsOK
  <2> QED
    BY <2>1, <2>2, <1>3, Frames DEF UAcquire
<1>4. CASE UBusy
  <2>1. ThreadsOK'
    BY <1>4 DEF UBusy, ThreadsOK
  <2> QED
    BY <2>1, <1>4, Frames DEF UBusy
<1>5. CASE UNoSource
  <2>1. EngineOK'
    BY <1>5, ThreadsOK DEF UNoSource, EngineOK, ThreadsOK
  <2>2. DiskOK'
    BY <1>5 DEF UNoSource, DiskOK
  <2>3. ThreadsOK'
    BY <1>5 DEF UNoSource, ThreadsOK
  <2> QED
    BY <2>1, <2>2, <2>3, <1>5, Frames DEF UNoSource
<1>6. CASE UStart
  <2>1. EngineOK'
    BY <1>6, ThreadsOK DEF UStart, EngineOK, ThreadsOK
  <2>2. DiskOK'
    BY <1>6, ThreadsOK DEF UStart, DiskOK, ThreadsOK
  <2>3. ThreadsOK'
    BY <1>6, EngineOK, SourceType, StartType DEF UStart, ThreadsOK, EngineOK
  <2>4. WireOK'
    BY <1>6, EngineOK, ThreadsOK, SourceType, StartType DEF UStart, WireOK, EngineOK,
       ThreadsOK, Push
  <2> QED
    BY <2>1, <2>2, <2>3, <2>4, <1>6, Frames DEF UStart
<1>7. CASE USent
  <2>1. EngineOK'
    BY <1>7, ThreadsOK DEF USent, EngineOK, ThreadsOK, Expect
  <2>2. TimerOK'
    BY <1>7 DEF USent, TimerOK, Expect
  <2>3. ThreadsOK'
    BY <1>7 DEF USent, ThreadsOK
  <2> QED
    BY <2>1, <2>2, <2>3, <1>7, Frames DEF USent
<1>8. CASE UWait
  <2>1. ThreadsOK'
    BY <1>8 DEF UWait, ThreadsOK
  <2> QED
    BY <2>1, <1>8, Frames DEF UWait
<1>9. CASE RIgnore
  <2>1. WireOK'
    BY <1>9 DEF RIgnore, WireOK, Take
  <2> QED
    BY <2>1, <1>9, Frames DEF RIgnore
<1>10. CASE REnd
  <2>1. EngineOK'
    BY <1>10 DEF REnd, EngineOK
  <2>2. DiskOK'
    BY <1>10 DEF REnd, DiskOK, EndMark
  <2>3. JobsOK'
    BY <1>10 DEF REnd, JobsOK
  <2>4. ThreadsOK'
    BY <1>10 DEF REnd, ThreadsOK
  <2>5. WireOK'
    BY <1>10 DEF REnd, WireOK, Take
  <2> QED
    BY <2>1, <2>2, <2>3, <2>4, <2>5, <1>10, Frames DEF REnd
<1>11. CASE RStopTimer
  <2>1. TimerOK'
    BY <1>11 DEF RStopTimer, TimerOK
  <2>2. ThreadsOK'
    BY <1>11 DEF RStopTimer, ThreadsOK
  <2> QED
    BY <2>1, <2>2, <1>11, Frames DEF RStopTimer
<1>12. CASE RCancel
  <2>1. EngineOK'
    BY <1>12, CancelType DEF RCancel, EngineOK, Expect, Close
  <2>2. TimerOK'
    BY <1>12 DEF RCancel, TimerOK, Expect
  <2>3. DiskOK'
    BY <1>12 DEF RCancel, DiskOK, Close
  <2>4. WireOK'
    BY <1>12, CancelType, EngineOK DEF RCancel, WireOK, Take, EngineOK
  <2> QED
    BY <2>1, <2>2, <2>3, <2>4, <1>12, Frames DEF RCancel
<1>13. CASE RNext
  <2>1. ThreadsOK'
    BY <1>13 DEF RNext, ThreadsOK
  <2>2. WireOK'
    BY <1>13 DEF RNext, WireOK, Take
  <2> QED
    BY <2>1, <2>2, <1>13, Frames DEF RNext
<1>14. CASE RClosed
  <2>1. ThreadsOK'
    BY <1>14 DEF RClosed, ThreadsOK
  <2> QED
    BY <2>1, <1>14, Frames DEF RClosed
<1>15. CASE RData
  <2>1. /\ active \in Files /\ sequence \in Nat
        /\ Head(remaining[active]) \in Nat /\ Tail(remaining[active]) \in Seq(Nat)
    BY <1>15, ReadType DEF RData, DiskOK, EngineOK
  <2>2. DataPacket(sequence, Source[active], Head(remaining[active])) \in Packets
    BY <2>1, SourceType, DataType
  <2>3. EngineOK' /\ TimerOK'
    BY <1>15, <2>1, <2>2 DEF RData, EngineOK, TimerOK, Expect
  <2>4. DiskOK'
    BY <1>15, <2>1 DEF RData, DiskOK
  <2>5. ThreadsOK' /\ WireOK'
    BY <1>15, <2>2 DEF RData, ThreadsOK, WireOK, Push
  <2> QED
    BY <2>3, <2>4, <2>5, <1>15, Frames DEF RData
<1>16. CASE REof
  <2>1. EngineOK'
    BY <1>16, DiskOK, SourceType, EndType DEF REof, EngineOK, Expect, Close, DiskOK
  <2>2. TimerOK'
    BY <1>16 DEF REof, TimerOK, Expect
  <2>3. DiskOK'
    BY <1>16 DEF REof, DiskOK, Close
  <2>4. ThreadsOK'
    BY <1>16 DEF REof, ThreadsOK
  <2>5. WireOK'
    BY <1>16, EngineOK, DiskOK, SourceType, EndType DEF REof, WireOK, Push, EngineOK, DiskOK
  <2> QED
    BY <2>1, <2>2, <2>3, <2>4, <2>5, <1>16, Frames DEF REof
<1>17. CASE TFire
  <2>1. TimerOK'
    BY <1>17 DEF TFire, TimerOK
  <2> QED
    BY <2>1, <1>17, Frames DEF TFire
<1>18. CASE TFinish
  <2>1. EngineOK'
    BY <1>18 DEF TFinish, EngineOK, Close
  <2>2. TimerOK'
    BY <1>18 DEF TFinish, TimerOK
  <2>3. DiskOK'
    BY <1>18 DEF TFinish, DiskOK, Close
  <2> QED
    BY <2>1, <2>2, <2>3, <1>18, Frames DEF TFinish
<1>19. CASE TRelease
  <2>1. EngineOK'
    BY <1>19 DEF TRelease, EngineOK
  <2>2. TimerOK'
    BY <1>19 DEF TRelease, TimerOK
  <2>3. JobsOK'
    BY <1>19 DEF TRelease, JobsOK
  <2> QED
    BY <2>1, <2>2, <2>3, <1>19, Frames DEF TRelease
<1>20. CASE TMark
  <2>1. TimerOK'
    BY <1>20 DEF TMark, TimerOK
  <2>2. DiskOK'
    BY <1>20 DEF TMark, DiskOK
  <2> QED
    BY <2>1, <2>2, <1>20, Frames DEF TMark
<1>21. ASSUME NEW c \in Clients, NEW f \in Files, CEnqueue(c, f) PROVE TypeOK'
  <2>1. DiskOK'
    BY <1>21, SourceType DEF CEnqueue, DiskOK
  <2>2. JobsOK'
    BY <1>21 DEF CEnqueue, JobsOK, Put
  <2>3. ClientOK'
    BY <1>21 DEF CEnqueue, ClientOK, Enter, Goto, IdleCall, CallPcs, CallArgs
  <2> QED
    BY <2>1, <2>2, <2>3, <1>21, Frames DEF CEnqueue
<1>22. ASSUME NEW c \in Clients, NEW p \in Paths, CCancelRemove(c, p) PROVE TypeOK'
  <2>1. ClientOK'
    BY <1>22 DEF CCancelRemove, ClientOK, Calls, Enter, Goto, IdleCall, CallPcs, CallArgs
  <2>2. BoundsOK'
    BY <1>22, ConstantsAssumption DEF CCancelRemove, BoundsOK, Calls
  <2> QED
    BY <2>1, <2>2, <1>22, Frames DEF CCancelRemove
<1>23. ASSUME NEW c \in Clients, CPause(c) PROVE TypeOK'
  <2>1. ClientOK'
    BY <1>23 DEF CPause, ClientOK, Calls, Enter, Goto, IdleCall, CallPcs, CallArgs
  <2>2. BoundsOK'
    BY <1>23, ConstantsAssumption DEF CPause, BoundsOK, Calls
  <2> QED
    BY <2>1, <2>2, <1>23, Frames DEF CPause
<1>24. ASSUME NEW c \in Clients, CUnpause(c) PROVE TypeOK'
  <2>1. JobsOK'
    BY <1>24 DEF CUnpause, JobsOK
  <2>2. ClientOK'
    BY <1>24 DEF CUnpause, ClientOK, Calls, Enter, Goto, IdleCall, CallPcs, CallArgs
  <2>3. BoundsOK'
    BY <1>24, ConstantsAssumption DEF CUnpause, BoundsOK, Calls
  <2> QED
    BY <2>1, <2>2, <2>3, <1>24, Frames DEF CUnpause
<1>25. ASSUME NEW c \in Clients, CSendCancel(c) PROVE TypeOK'
  <2>1. EngineOK'
    BY <1>25 DEF CSendCancel, EngineOK
  <2>2. WireOK'
    BY <1>25, CancelType, EngineOK DEF CSendCancel, WireOK, Push, EngineOK
  <2>3. BoundsOK'
    BY <1>25, ConstantsAssumption DEF CSendCancel, BoundsOK, Calls
  <2> QED
    BY <2>1, <2>2, <2>3, <1>25, Frames DEF CSendCancel
<1>26. ASSUME NEW c \in Clients, CExit(c) PROVE TypeOK'
  <2>1. queue' \in Seq(Files \cup {NoFile})
    BY <1>26 DEF CExit, JobsOK, Wake, Put
  <2>2. JobsOK'
    BY <1>26, <2>1 DEF CExit, JobsOK
  <2>3. ClientOK'
    BY <1>26 DEF CExit, ClientOK, Calls, Enter, Goto, IdleCall, CallPcs, CallArgs
  <2>4. BoundsOK'
    BY <1>26, ConstantsAssumption DEF CExit, BoundsOK, Calls
  <2> QED
    BY <2>2, <2>3, <2>4, <1>26, Frames DEF CExit
<1>27. ASSUME NEW c \in Clients, CAppend(c) PROVE TypeOK'
  <2>1. JobsOK'
    BY <1>27, ClientOK DEF CAppend, JobsOK, ClientOK
  <2>2. ClientOK'
    BY <1>27 DEF CAppend, ClientOK, Return, Enter, Goto, IdleCall, CallPcs, CallArgs
  <2> QED
    BY <2>1, <2>2, <1>27, Frames DEF CAppend
<1>28. ASSUME NEW c \in Clients, CCancel(c) PROVE TypeOK'
  <2>1. ClientOK'
    BY <1>28 DEF CCancel, ClientOK, Enter, Goto, IdleCall, CallPcs, CallArgs
  <2> QED
    BY <2>1, <1>28, Frames DEF CCancel
<1>29. ASSUME NEW c \in Clients, CSetCanceled(c) PROVE TypeOK'
  <2>1. EngineOK'
    BY <1>29 DEF CSetCanceled, EngineOK
  <2>2. DiskOK'
    BY <1>29 DEF CSetCanceled, DiskOK
  <2>3. ClientOK'
    BY <1>29 DEF CSetCanceled, ClientOK, Enter, Goto, IdleCall, CallPcs, CallArgs
  <2> QED
    BY <2>1, <2>2, <2>3, <1>29, Frames DEF CSetCanceled
<1>30. ASSUME NEW c \in Clients, CPauseQueue(c) PROVE TypeOK'
  <2>1. JobsOK'
    BY <1>30 DEF CPauseQueue, JobsOK
  <2>2. ClientOK'
    BY <1>30 DEF CPauseQueue, ClientOK, Enter, Goto, IdleCall, CallPcs, CallArgs
  <2> QED
    BY <2>1, <2>2, <1>30, Frames DEF CPauseQueue
<1>31. ASSUME NEW c \in Clients, CHold(c) PROVE TypeOK'
  <2>1. JobsOK'
    BY <1>31 DEF CHold, JobsOK
  <2>2. ClientOK'
    BY <1>31 DEF CHold, ClientOK, Enter, Goto, IdleCall, CallPcs, CallArgs
  <2> QED
    BY <2>1, <2>2, <1>31, Frames DEF CHold
<1>32. ASSUME NEW c \in Clients, CResume(c) PROVE TypeOK'
  <2>1. JobsOK'
    BY <1>32 DEF CResume, JobsOK
  <2>2. ClientOK'
    BY <1>32 DEF CResume, ClientOK, Enter, Goto, IdleCall, CallPcs, CallArgs
  <2> QED
    BY <2>1, <2>2, <1>32, Frames DEF CResume
<1>33. ASSUME NEW c \in Clients, CScanEnd(c) PROVE TypeOK'
  <2>1. ClientOK'
    BY <1>33 DEF CScanEnd, ClientOK, Return, Enter, Goto, IdleCall, CallPcs, CallArgs
  <2> QED
    BY <2>1, <1>33, Frames DEF CScanEnd
<1>34. ASSUME NEW c \in Clients, CScanDrop(c) PROVE TypeOK'
  <2>1. JobsOK'
    BY <1>34, WithoutType DEF CScanDrop, JobsOK, Rest
  <2>2. ClientOK'
    BY <1>34 DEF CScanDrop, ClientOK, Return, Enter, Goto, IdleCall, CallPcs, CallArgs
  <2> QED
    BY <2>1, <2>2, <1>34, Frames DEF CScanDrop
<1>35. ASSUME NEW c \in Clients, CScanTake(c) PROVE TypeOK'
  <2>1. Head(queue) \in Files
    BY <1>35 DEF CScanTake, JobsOK
  <2>2. JobsOK'
    BY <1>35 DEF CScanTake, JobsOK, Rest
  <2>3. cpc' \in [Clients -> CallPcs]
    BY <1>35 DEF CScanTake, ClientOK, Goto, CallPcs
  <2>5. call' \in [Clients -> CallArgs]
    <3> DEFINE args == [call[c] EXCEPT !.found = Head(queue),
                                       !.first = IF @ = NoFile THEN Head(queue) ELSE @]
    <3>1. args \in CallArgs
      BY <2>1 DEF ClientOK, CallArgs
    <3>2. call' = [call EXCEPT ![c] = args]
      BY <1>35 DEF CScanTake, ClientOK, CallArgs
    <3> QED
      BY <3>1, <3>2 DEF ClientOK
  <2>4. ASSUME NEW d \in Clients, cpc'[d] \in {"append", "replace"}
        PROVE  call'[d].found \in Files
    BY <1>35, <2>1, <2>4 DEF CScanTake, ClientOK, Goto, CallArgs
  <2> QED
    BY <2>2, <2>3, <2>4, <2>5, <1>35, Frames DEF CScanTake, ClientOK
<1>36. ASSUME NEW c \in Clients, CReplace(c) PROVE TypeOK'
  <2>1. JobsOK'
    BY <1>36, ClientOK DEF CReplace, JobsOK, Put, ClientOK
  <2>2. ClientOK'
    BY <1>36 DEF CReplace, ClientOK, Enter, Goto, IdleCall, CallPcs, CallArgs
  <2> QED
    BY <2>1, <2>2, <1>36, Frames DEF CReplace
<1>37. ASSUME NEW c \in Clients, CJoin(c) PROVE TypeOK'
  <2>1. ClientOK'
    BY <1>37 DEF CJoin, ClientOK, Return, Enter, Goto, IdleCall, CallPcs, CallArgs
  <2> QED
    BY <2>1, <1>37, Frames DEF CJoin
<1>38. CASE Deliver
  <2>1. WireOK'
    BY <1>38 DEF Deliver, WireOK
  <2> QED
    BY <2>1, <1>38, Frames DEF Deliver
<1>39. CASE Lose
  <2>1. WireOK'
    BY <1>39 DEF Lose, WireOK
  <2>2. BoundsOK'
    BY <1>39, ConstantsAssumption DEF Lose, BoundsOK
  <2> QED
    BY <2>1, <2>2, <1>39, Frames DEF Lose
<1>40. CASE UNCHANGED vars
  BY <1>40, Frames DEF vars
<1> QED
  BY <1>1, <1>2, <1>3, <1>4, <1>5, <1>6, <1>7, <1>8, <1>9, <1>10, <1>11, <1>12, <1>13, <1>14,
     <1>15, <1>16, <1>17, <1>18, <1>19, <1>20, <1>21, <1>22, <1>23, <1>24, <1>25, <1>26, <1>27,
     <1>28, <1>29, <1>30, <1>31, <1>32, <1>33, <1>34, <1>35, <1>36, <1>37, <1>38, <1>39, <1>40
     DEF Next, Uplink, Receive, Expire, Transmit, Request, Proceed

(* Every state the uplinker reaches is well typed; a thread about to use a *)
(* file never holds None (UplinkQueue.run, UplinkQueue.remove).            *)
THEOREM TypeCorrect == Spec => []TypeOK
BY TypeInit, TypeStep, PTL DEF Spec

-----------------------------------------------------------------------------
(* Places a file can be in.  A file that has not been started is in one    *)
(* place: the queue, the hands of the UplinkerThread, or those of one      *)
(* client whose remove() is about to put it back.                          *)
InQueue(f) == \E i \in 1 .. Len(queue) : queue[i] = f
ThreadHolds == upc \in {"acquire", "start"}
QueueWaits  == \A i \in 1 .. Len(queue) : queue[i] # NoFile => fstate[queue[i]] = "QUEUED"
QueueOnce   == \A i, j \in 1 .. Len(queue) : queue[i] = queue[j] /\ queue[i] # NoFile => i = j
ThreadAlone == ThreadHolds => fstate[ufile] = "QUEUED" /\ ~InQueue(ufile)
ClientAlone == \A c \in Clients : cpc[c] = "replace" =>
                  /\ fstate[call[c].found] = "QUEUED" /\ ~InQueue(call[c].found)
                  /\ ThreadHolds => ufile # call[c].found
ClientsApart == \A c, d \in Clients :
                  cpc[c] = "replace" /\ cpc[d] = "replace" /\ call[c].found = call[d].found => c = d
ActiveStarted == active # NoFile => Started(active)
PlaceInv == QueueWaits /\ QueueOnce /\ ThreadAlone /\ ClientAlone /\ ClientsApart /\ ActiveStarted

LEMMA TailFacts ==
    ASSUME NEW S, NEW s \in Seq(S), s # <<>>
    PROVE  /\ Len(s) \in Nat /\ Len(s) >= 1 /\ Head(s) = s[1] /\ Head(s) \in S
           /\ Tail(s) \in Seq(S) /\ Len(Tail(s)) = Len(s) - 1
           /\ \A i \in 1 .. Len(s) - 1 : Tail(s)[i] = s[i + 1]
OBVIOUS

LEMMA AppendFacts ==
    ASSUME NEW S, NEW s \in Seq(S), NEW x \in S
    PROVE  /\ Len(s) \in Nat /\ Append(s, x) \in Seq(S) /\ Len(Append(s, x)) = Len(s) + 1
           /\ \A i \in 1 .. Len(s) : Append(s, x)[i] = s[i]
           /\ Append(s, x)[Len(s) + 1] = x
OBVIOUS

(* Nothing moves, unless out of a thread's hands.                          *)
LEMMA PlaceFrame ==
    ASSUME PlaceInv, UNCHANGED <<active, fstate, queue>>,
           ThreadHolds' => ThreadHolds /\ ufile' = ufile,
           \A c \in Clients : cpc'[c] = "replace" =>
               cpc[c] = "replace" /\ call'[c].found = call[c].found
    PROVE  PlaceInv'
<1>1. QueueWaits' /\ QueueOnce' /\ ActiveStarted'
  BY DEF PlaceInv, QueueWaits, QueueOnce, ActiveStarted, Started
<1>2. ThreadAlone' /\ ClientAlone' /\ ClientsApart'
  BY DEF PlaceInv, ThreadAlone, ClientAlone, ClientsApart, InQueue
<1> QED
  BY <1>1, <1>2 DEF PlaceInv

(* The active file, which is in no place, changes its mark.                *)
LEMMA PlaceMark ==
    ASSUME TypeOK, PlaceInv, NEW m, m \notin {"NEW", "QUEUED"},
           fstate' = [fstate EXCEPT ![active] = m], UNCHANGED <<active, queue>>,
           ThreadHolds' => ThreadHolds /\ ufile' = ufile,
           \A c \in Clients : cpc'[c] = "replace" =>
               cpc[c] = "replace" /\ call'[c].found = call[c].found
    PROVE  PlaceInv'
<1>1. \A f : f # active => fstate'[f] = fstate[f]
  BY DEF TypeOK, DiskOK
<1>2. active # NoFile => fstate[active] \notin {"NEW", "QUEUED"} /\ fstate'[active] = m
  BY DEF PlaceInv, ActiveStarted, Started, TypeOK, DiskOK, EngineOK
<1>3. \A f : f # NoFile /\ fstate[f] = "QUEUED" => fstate'[f] = "QUEUED"
  BY <1>1, <1>2
<1>4. QueueWaits' /\ QueueOnce'
  BY <1>3 DEF PlaceInv, QueueWaits, QueueOnce
<1>5. ActiveStarted'
  BY <1>2 DEF ActiveStarted, Started
<1>6. ThreadHolds => ufile # NoFile
  BY ConstantsAssumption DEF ThreadHolds, TypeOK, ThreadsOK
<1>7. \A c \in Clients : cpc[c] = "replace" => call[c].found # NoFile
  BY ConstantsAssumption DEF TypeOK, ClientOK
<1>8. ThreadAlone'
  BY <1>3, <1>6 DEF PlaceInv, ThreadAlone, InQueue
<1>9. ClientAlone' /\ ClientsApart'
  BY <1>3, <1>7 DEF PlaceInv, ClientAlone, ClientsApart, InQueue
<1> QED
  BY <1>4, <1>5, <1>8, <1>9 DEF PlaceInv

LEMMA PlaceInit == Init => PlaceInv
BY DEF Init, PlaceInv, QueueWaits, QueueOnce, ThreadAlone, ClientAlone, ClientsApart,
       ActiveStarted, ThreadHolds

LEMMA PlaceStep == TypeOK /\ TypeOK' /\ PlaceInv /\ [Next]_vars => PlaceInv'
<1> SUFFICES ASSUME TypeOK, TypeOK', PlaceInv, [Next]_vars PROVE PlaceInv'
  OBVIOUS
<1> DEFINE S == Files \cup {NoFile}
<1>1. queue \in Seq(S) /\ Len(queue) \in Nat /\ queue' \in Seq(S) /\ Len(queue') \in Nat
  BY DEF TypeOK, JobsOK
<1>2. ThreadHolds => ufile \in Files
  BY DEF ThreadHolds, TypeOK, ThreadsOK
<1>3. \A c \in Clients : cpc[c] = "replace" => call[c].found \in Files
  BY DEF TypeOK, ClientOK
<1>4. CASE UOuter
  BY <1>4, PlaceFrame DEF UOuter, engine, timer, disk, jobs, threads, client, wire, ThreadHolds
<1>5. CASE UAcquire
  BY <1>5, PlaceFrame DEF UAcquire, engine, timer, disk, jobs, threads, client, wire,
     ThreadHolds
<1>6. CASE UBusy
  BY <1>6, PlaceFrame DEF UBusy, engine, timer, disk, jobs, threads, client, wire, ThreadHolds
<1>7. CASE USent
  BY <1>7, PlaceFrame DEF USent, engine, timer, disk, jobs, threads, client, wire, ThreadHolds
<1>8. CASE UWait
  BY <1>8, PlaceFrame DEF UWait, engine, timer, disk, jobs, threads, client, wire, ThreadHolds
<1>9. CASE RIgnore
  BY <1>9, PlaceFrame DEF RIgnore, engine, timer, disk, jobs, threads, client, wire, ThreadHolds
<1>10. CASE RStopTimer
  BY <1>10, PlaceFrame DEF RStopTimer, engine, timer, disk, jobs, threads, client, wire,
     ThreadHolds
<1>11. CASE RCancel
  BY <1>11, PlaceFrame DEF RCancel, engine, timer, disk, jobs, threads, client, wire,
     ThreadHolds, Close, Expect
<1>12. CASE RNext
  BY <1>12, PlaceFrame DEF RNext, engine, timer, disk, jobs, threads, client, wire, ThreadHolds
<1>13. CASE RClosed
  BY <1>13, PlaceFrame DEF RClosed, engine, timer, disk, jobs, threads, client, wire,
     ThreadHolds
<1>14. CASE RData
  BY <1>14, PlaceFrame DEF RData, engine, timer, disk, jobs, threads, client, wire, ThreadHolds
<1>15. CASE REof
  BY <1>15, PlaceFrame DEF REof, engine, timer, disk, jobs, threads, client, wire, ThreadHolds
<1>16. CASE TFire
  BY <1>16, PlaceFrame DEF TFire, engine, timer, disk, jobs, threads, client, wire, ThreadHolds
<1>17. CASE TFinish
  BY <1>17, PlaceFrame DEF TFinish, engine, timer, disk, jobs, threads, client, wire,
     ThreadHolds
<1>18. CASE TRelease
  BY <1>18, PlaceFrame DEF TRelease, engine, timer, disk, jobs, threads, client, wire,
     ThreadHolds
<1>19. CASE Deliver
  BY <1>19, PlaceFrame DEF Deliver, engine, timer, disk, jobs, threads, client, wire,
     ThreadHolds
<1>20. CASE Lose
  BY <1>20, PlaceFrame DEF Lose, engine, timer, disk, jobs, threads, client, wire, ThreadHolds
<1>21. ASSUME NEW c \in Clients, NEW p \in Paths, CCancelRemove(c, p) PROVE PlaceInv'
  BY <1>21, PlaceFrame DEF CCancelRemove, engine, timer, disk, jobs, threads, client, wire,
     ThreadHolds, Enter, Goto, TypeOK, ClientOK
<1>22. ASSUME NEW c \in Clients, CPause(c) PROVE PlaceInv'
  BY <1>22, PlaceFrame DEF CPause, engine, timer, disk, jobs, threads, client, wire,
     ThreadHolds, Enter, Goto, TypeOK, ClientOK
<1>23. ASSUME NEW c \in Clients, CUnpause(c) PROVE PlaceInv'
  BY <1>23, PlaceFrame DEF CUnpause, engine, timer, disk, jobs, threads, client, wire,
     ThreadHolds, Goto, TypeOK, ClientOK
<1>24. ASSUME NEW c \in Clients, CSendCancel(c) PROVE PlaceInv'
  BY <1>24, PlaceFrame DEF CSendCancel, engine, timer, disk, jobs, threads, client, wire,
     ThreadHolds
<1>25. ASSUME NEW c \in Clients, CAppend(c) PROVE PlaceInv'
  BY <1>25, PlaceFrame DEF CAppend, engine, timer, disk, jobs, threads, client, wire,
     ThreadHolds, Return, Enter, Goto, TypeOK, ClientOK
<1>26. ASSUME NEW c \in Clients, CCancel(c) PROVE PlaceInv'
  BY <1>26, PlaceFrame DEF CCancel, engine, timer, disk, jobs, threads, client, wire,
     ThreadHolds, Goto, TypeOK, ClientOK, CallArgs
<1>27. ASSUME NEW c \in Clients, CPauseQueue(c) PROVE PlaceInv'
  BY <1>27, PlaceFrame DEF CPauseQueue, engine, timer, disk, jobs, threads, client, wire,
     ThreadHolds, Enter, Goto, TypeOK, ClientOK
<1>28. ASSUME NEW c \in Clients, CHold(c) PROVE PlaceInv'
  BY <1>28, PlaceFrame DEF CHold, engine, timer, disk, jobs, threads, client, wire,
     ThreadHolds, Goto, TypeOK, ClientOK
<1>29. ASSUME NEW c \in Clients, CResume(c) PROVE PlaceInv'
  BY <1>29, PlaceFrame DEF CResume, engine, timer, disk, jobs, threads, client, wire,
     ThreadHolds, Goto, TypeOK, ClientOK
<1>30. ASSUME NEW c \in Clients, CScanEnd(c) PROVE PlaceInv'
  BY <1>30, PlaceFrame DEF CScanEnd, engine, timer, disk, jobs, threads, client, wire,
     ThreadHolds, Return, Enter, Goto, TypeOK, ClientOK
<1>31. ASSUME NEW c \in Clients, CJoin(c) PROVE PlaceInv'
  BY <1>31, PlaceFrame DEF CJoin, engine, timer, disk, jobs, threads, client, wire,
     ThreadHolds, Return, Enter, Goto, TypeOK, ClientOK
<1>32. CASE REnd
  <2>1. fstate' = [fstate EXCEPT ![active] = EndMark(fstate[active])]
    BY <1>32 DEF REnd
  <2>2. EndMark(fstate[active]) \notin {"NEW", "QUEUED"}
    BY DEF EndMark
  <2> QED
    BY <1>32, <2>1, <2>2, PlaceMark DEF REnd, engine, timer, disk, jobs, threads, client, wire,
       ThreadHolds
<1>33. CASE TMark
  BY <1>33, PlaceMark DEF TMark, engine, timer, disk, jobs, threads, client, wire, ThreadHolds
<1>34. ASSUME NEW c \in Clients, CSetCanceled(c) PROVE PlaceInv'
  BY <1>34, PlaceMark DEF CSetCanceled, engine, timer, disk, jobs, threads, client, wire,
     ThreadHolds, Goto, TypeOK, ClientOK, CallArgs
<1>35. CASE UNoSource
  <2>1. /\ ufile \in Files /\ fstate[ufile] = "QUEUED" /\ ~InQueue(ufile) /\ active' = ufile
        /\ fstate' = [fstate EXCEPT ![ufile] = "TRANSMITTING"] /\ ~ThreadHolds'
        /\ UNCHANGED <<queue, cpc, call>>
    BY <1>2, <1>35 DEF UNoSource, PlaceInv, ThreadAlone, ThreadHolds, jobs, client
  <2>2. \A f : f # ufile => fstate'[f] = fstate[f]
    BY <2>1 DEF TypeOK, DiskOK
  <2>3. QueueWaits' /\ QueueOnce'
    BY <2>1, <2>2 DEF PlaceInv, QueueWaits, QueueOnce, InQueue
  <2>4. ActiveStarted'
    BY <2>1 DEF ActiveStarted, Started, TypeOK, DiskOK
  <2>5. ThreadAlone'
    BY <2>1 DEF ThreadAlone
  <2>6. \A c \in Clients : cpc[c] = "replace" => call[c].found # ufile
    BY <1>35 DEF UNoSource, PlaceInv, ClientAlone, ThreadHolds
  <2>7. ClientAlone' /\ ClientsApart'
    BY <2>1, <2>2, <2>6 DEF PlaceInv, ClientAlone, ClientsApart, InQueue
  <2> QED
    BY <2>3, <2>4, <2>5, <2>7 DEF PlaceInv
<1>36. CASE UStart
  <2>1. /\ ufile \in Files /\ fstate[ufile] = "QUEUED" /\ ~InQueue(ufile) /\ active' = ufile
        /\ fstate' = [fstate EXCEPT ![ufile] = "TRANSMITTING"] /\ ~ThreadHolds'
        /\ UNCHANGED <<queue, cpc, call>>
    BY <1>2, <1>36 DEF UStart, PlaceInv, ThreadAlone, ThreadHolds, jobs, client
  <2>2. \A f : f # ufile => fstate'[f] = fstate[f]
    BY <2>1 DEF TypeOK, DiskOK
  <2>3. QueueWaits' /\ QueueOnce'
    BY <2>1, <2>2 DEF PlaceInv, QueueWaits, QueueOnce, InQueue
  <2>4. ActiveStarted'
    BY <2>1 DEF ActiveStarted, Started, TypeOK, DiskOK
  <2>5. ThreadAlone'
    BY <2>1 DEF ThreadAlone
  <2>6. \A c \in Clients : cpc[c] = "replace" => call[c].found # ufile
    BY <1>36 DEF UStart, PlaceInv, ClientAlone, ThreadHolds
  <2>7. ClientAlone' /\ ClientsApart'
    BY <2>1, <2>2, <2>6 DEF PlaceInv, ClientAlone, ClientsApart, InQueue
  <2> QED
    BY <2>3, <2>4, <2>5, <2>7 DEF PlaceInv
<1>37. CASE UGet
  <2>1. /\ queue # <<>> /\ UNCHANGED <<active, fstate, cpc, call>> /\ ~ThreadHolds
    BY <1>37 DEF UGet, engine, disk, client, ThreadHolds
  <2>2. CASE queue' = Append(Tail(queue), Head(queue)) /\ upc' = "outer"
    <3>1. \A k \in 1 .. Len(queue') : queue'[k] = IF k < Len(queue) THEN queue[k + 1] ELSE queue[1]
      BY <1>1, <2>1, <2>2, TailFacts, AppendFacts
    <3>2. Len(queue') = Len(queue)
      BY <1>1, <2>1, <2>2, TailFacts, AppendFacts
    <3>3. \A f : InQueue(f)' => InQueue(f)
      BY <1>1, <3>1, <3>2 DEF InQueue
    <3>4. QueueWaits'
      BY <1>1, <2>1, <3>1, <3>2 DEF PlaceInv, QueueWaits
    <3>5. QueueOnce'
      BY <1>1, <2>1, <3>1, <3>2 DEF PlaceInv, QueueOnce
    <3>6. ThreadAlone' /\ ActiveStarted'
      BY <2>1, <2>2 DEF PlaceInv, ThreadAlone, ThreadHolds, ActiveStarted, Started
    <3>7. ClientAlone' /\ ClientsApart'
      BY <2>1, <2>2, <3>3 DEF PlaceInv, ClientAlone, ClientsApart, ThreadHolds
    <3> QED
      BY <3>4, <3>5, <3>6, <3>7 DEF PlaceInv
  <2>3. CASE queue' = Tail(queue) /\ ufile' = Head(queue) /\ Head(queue) # NoFile
    <3>1. /\ Len(queue) >= 1 /\ Head(queue) = queue[1] /\ Len(queue') = Len(queue) - 1
          /\ \A k \in 1 .. Len(queue') : queue'[k] = queue[k + 1]
      BY <1>1, <2>1, <2>3, TailFacts
    <3>2. \A f : InQueue(f)' => InQueue(f)
      BY <1>1, <3>1 DEF InQueue
    <3>3. ~InQueue(ufile)' /\ InQueue(ufile')
      BY <1>1, <2>3, <3>1 DEF PlaceInv, QueueOnce, InQueue
    <3>4. QueueWaits' /\ fstate[ufile'] = "QUEUED"
      BY <1>1, <2>1, <2>3, <3>1 DEF PlaceInv, QueueWaits
    <3>5. QueueOnce'
      BY <1>1, <2>1, <3>1 DEF PlaceInv, QueueOnce
    <3>6. ThreadAlone' /\ ActiveStarted'
      BY <2>1, <2>3, <3>3, <3>4 DEF PlaceInv, ThreadAlone, ActiveStarted, Started
    <3>7. ClientAlone' /\ ClientsApart'
      BY <2>1, <3>2, <3>3 DEF PlaceInv, ClientAlone, ClientsApart
    <3> QED
      BY <3>4, <3>5, <3>6, <3>7 DEF PlaceInv
  <2> QED
    BY <1>37, <2>2, <2>3 DEF UGet, Rest
<1>38. ASSUME NEW c \in Clients, NEW f \in Files, CEnqueue(c, f) PROVE PlaceInv'
  <2>1. /\ fstate[f] = "NEW" /\ fstate' = [fstate EXCEPT ![f] = "QUEUED"]
        /\ queue' = Append(queue, f) /\ UNCHANGED <<active, upc, ufile>>
        /\ cpc' = [cpc EXCEPT ![c] = "append"]
        /\ call' = [call EXCEPT ![c] = [IdleCall EXCEPT !.found = f]]
    BY <1>38 DEF CEnqueue, Put, Enter, Goto, engine, threads
  <2>2. /\ Len(queue') = Len(queue) + 1 /\ queue'[Len(queue) + 1] = f
        /\ \A k \in 1 .. Len(queue) : queue'[k] = queue[k]
    BY <1>1, <2>1, AppendFacts
  <2>3. fstate'[f] = "QUEUED" /\ \A g : g # f => fstate'[g] = fstate[g]
    BY <2>1 DEF TypeOK, DiskOK
  <2>4. ~InQueue(f)
    BY <2>1, ConstantsAssumption DEF PlaceInv, QueueWaits, InQueue
  <2>5. \A g : g # f /\ InQueue(g)' => InQueue(g)
    BY <1>1, <2>2 DEF InQueue
  <2>6. QueueWaits'
    BY <1>1, <2>2, <2>3 DEF PlaceInv, QueueWaits
  <2>7. QueueOnce'
    BY <1>1, <2>2, <2>4 DEF PlaceInv, QueueOnce, InQueue
  <2>8. ActiveStarted'
    BY <2>1, <2>3 DEF PlaceInv, ActiveStarted, Started
  <2>9. ThreadAlone'
    BY <2>1, <2>3, <2>5 DEF PlaceInv, ThreadAlone, ThreadHolds
  <2>10. \A d \in Clients : cpc'[d] = "replace" => cpc[d] = "replace" /\ call'[d] = call[d]
    BY <2>1 DEF TypeOK, ClientOK
  <2>11. ClientsApart'
    BY <2>10 DEF PlaceInv, ClientsApart
  <2>12. ClientAlone'
    <3>1. ASSUME NEW d \in Clients, cpc'[d] = "replace"
          PROVE  /\ fstate[call[d].found] = "QUEUED" /\ ~InQueue(call[d].found)
                 /\ ThreadHolds => ufile # call[d].found
                 /\ call[d].found # f /\ call'[d].found = call[d].found
      BY <2>1, <2>10, <3>1 DEF PlaceInv, ClientAlone
    <3> QED
      BY <2>1, <2>3, <2>5, <3>1 DEF ClientAlone, ThreadHolds, InQueue
  <2> QED
    BY <2>6, <2>7, <2>8, <2>9, <2>11, <2>12 DEF PlaceInv
<1>39. ASSUME NEW c \in Clients, CExit(c) PROVE PlaceInv'
  <2>1. /\ queue' = Append(queue, NoFile) /\ UNCHANGED <<active, fstate, upc, ufile>>
        /\ \A d \in Clients : cpc'[d] = "replace" => cpc[d] = "replace" /\ call'[d] = call[d]
    BY <1>39 DEF CExit, Wake, Put, Enter, Goto, engine, disk, threads, TypeOK, ClientOK
  <2>2. /\ Len(queue') = Len(queue) + 1 /\ queue'[Len(queue) + 1] = NoFile
        /\ \A k \in 1 .. Len(queue) : queue'[k] = queue[k]
    BY <1>1, <2>1, AppendFacts
  <2>3. \A g : g # NoFile /\ InQueue(g)' => InQueue(g)
    BY <1>1, <2>2 DEF InQueue
  <2>4. QueueWaits' /\ ActiveStarted'
    BY <1>1, <2>1, <2>2 DEF PlaceInv, QueueWaits, ActiveStarted, Started
  <2>5. QueueOnce'
    BY <1>1, <2>2 DEF PlaceInv, QueueOnce
  <2>6. ThreadAlone'
    BY <1>2, <2>1, <2>3, ConstantsAssumption DEF PlaceInv, ThreadAlone, ThreadHolds
  <2>7. ClientsApart'
    BY <2>1 DEF PlaceInv, ClientsApart
  <2>8. ClientAlone'
    <3> SUFFICES ASSUME NEW d \in Clients, cpc'[d] = "replace"
                 PROVE  /\ fstate[call[d].found] = "QUEUED" /\ ~InQueue(call[d].found)'
                        /\ ThreadHolds => ufile # call[d].found
      BY <2>1 DEF ClientAlone, ThreadHolds, InQueue
    <3>1. call'[d] = call[d] /\ call[d].found # NoFile
      BY <1>3, <2>1, ConstantsAssumption
    <3> QED
      BY <2>1, <2>3, <3>1 DEF PlaceInv, ClientAlone
  <2> QED
    BY <2>4, <2>5, <2>6, <2>7, <2>8 DEF PlaceInv
<1>40. ASSUME NEW c \in Clients, CScanDrop(c) PROVE PlaceInv'
  <2>1. /\ queue # <<>> /\ queue' = Tail(queue) /\ UNCHANGED <<active, fstate, upc, ufile>>
        /\ \A d \in Clients : cpc'[d] = "replace" => cpc[d] = "replace" /\ call'[d] = call[d]
    BY <1>40 DEF CScanDrop, Rest, Return, Enter, Goto, engine, disk, threads, TypeOK, ClientOK
  <2>2. /\ Len(queue) >= 1 /\ Len(queue') = Len(queue) - 1
        /\ \A k \in 1 .. Len(queue') : queue'[k] = queue[k + 1]
    BY <1>1, <2>1, TailFacts
  <2>3. \A f : InQueue(f)' => InQueue(f)
    BY <1>1, <2>2 DEF InQueue
  <2>4. QueueWaits' /\ ActiveStarted'
    BY <1>1, <2>1, <2>2 DEF PlaceInv, QueueWaits, ActiveStarted, Started
  <2>5. QueueOnce'
    <3> SUFFICES ASSUME NEW i \in 1 .. Len(queue'), NEW j \in 1 .. Len(queue'),
                        queue'[i] = queue'[j], queue'[i] # NoFile
                 PROVE  i = j
      BY DEF QueueOnce
    <3>1. /\ i + 1 \in 1 .. Len(queue) /\ j + 1 \in 1 .. Len(queue)
          /\ queue[i + 1] = queue[j + 1] /\ queue[i + 1] # NoFile
      BY <1>1, <2>2
    <3>2. i + 1 = j + 1
      BY <3>1 DEF PlaceInv, QueueOnce
    <3> QED
      BY <3>2
  <2>6. ThreadAlone'
    BY <2>1, <2>3 DEF PlaceInv, ThreadAlone, ThreadHolds
  <2>7. ClientAlone' /\ ClientsApart'
    BY <2>1, <2>3 DEF PlaceInv, ClientAlone, ClientsApart, ThreadHolds
  <2> QED
    BY <2>4, <2>5, <2>6, <2>7 DEF PlaceInv
<1>41. ASSUME NEW c \in Clients, CScanTake(c) PROVE PlaceInv'
  <2>1. /\ queue # <<>> /\ queue' = Tail(queue) /\ Head(queue) # NoFile
        /\ UNCHANGED <<active, fstate, upc, ufile>>
    BY <1>41 DEF CScanTake, Rest, engine, disk, threads
  <2>2. /\ Len(queue) >= 1 /\ Len(queue') = Len(queue) - 1 /\ Head(queue) = queue[1]
        /\ \A k \in 1 .. Len(queue') : queue'[k] = queue[k + 1]
    BY <1>1, <2>1, TailFacts
  <2>3. call'[c].found = queue[1] /\ \A d \in Clients \ {c} : cpc'[d] = cpc[d] /\ call'[d] = call[d]
    BY <1>41, <2>2 DEF CScanTake, Goto, TypeOK, ClientOK, CallArgs
  <2>4. \A f : InQueue(f)' => InQueue(f)
    BY <1>1, <2>2 DEF InQueue
  <2>5. InQueue(queue[1]) /\ fstate[queue[1]] = "QUEUED"
    BY <1>1, <2>1, <2>2 DEF PlaceInv, QueueWaits, InQueue
  <2>11. \A k \in 1 .. Len(queue') : queue'[k] # queue[1]
    <3>1. ASSUME NEW k \in 1 .. Len(queue'), queue'[k] = queue[1] PROVE FALSE
      <4>1. k + 1 \in 1 .. Len(queue) /\ 1 \in 1 .. Len(queue) /\ queue[k + 1] = queue[1]
        BY <1>1, <2>2, <3>1
      <4>2. k + 1 = 1
        BY <2>1, <2>2, <4>1 DEF PlaceInv, QueueOnce
      <4> QED
        BY <4>2
    <3> QED
      BY <3>1
  <2>6. QueueWaits' /\ ActiveStarted'
    BY <1>1, <2>1, <2>2 DEF PlaceInv, QueueWaits, ActiveStarted, Started
  <2>7. QueueOnce'
    BY <1>1, <2>2 DEF PlaceInv, QueueOnce
  <2>8. ThreadAlone'
    BY <2>1, <2>4 DEF PlaceInv, ThreadAlone, ThreadHolds
  <2>9. ClientAlone'
    <3>1. ASSUME NEW d \in Clients \ {c}, cpc'[d] = "replace"
          PROVE  /\ fstate[call'[d].found] = "QUEUED" /\ ~InQueue(call[d].found)
                 /\ ThreadHolds => ufile # call'[d].found
                 /\ call'[d].found = call[d].found
      BY <2>3, <3>1 DEF PlaceInv, ClientAlone
    <3>2. ThreadHolds => ufile # queue[1]
      BY <2>5 DEF PlaceInv, ThreadAlone
    <3> QED
      BY <2>1, <2>3, <2>4, <2>5, <2>11, <3>1, <3>2 DEF ClientAlone, ThreadHolds, InQueue
  <2>10. ClientsApart'
    BY <2>3, <2>5 DEF PlaceInv, ClientAlone, ClientsApart
  <2> QED
    BY <2>6, <2>7, <2>8, <2>9, <2>10 DEF PlaceInv
<1>42. ASSUME NEW c \in Clients, CReplace(c) PROVE PlaceInv'
  <2> DEFINE f == call[c].found
  <2>1. /\ cpc[c] = "replace" /\ queue' = Append(queue, f) /\ UNCHANGED <<active, fstate, upc, ufile, call>>
        /\ cpc' = [cpc EXCEPT ![c] = "scan"]
    BY <1>42 DEF CReplace, Put, Goto, engine, disk, threads
  <2>2. f \in Files /\ fstate[f] = "QUEUED" /\ ~InQueue(f) /\ (ThreadHolds => ufile # f)
    BY <1>3, <2>1 DEF PlaceInv, ClientAlone
  <2>3. /\ Len(queue') = Len(queue) + 1 /\ queue'[Len(queue) + 1] = f
        /\ \A k \in 1 .. Len(queue) : queue'[k] = queue[k]
    BY <1>1, <2>1, <2>2, AppendFacts
  <2>4. \A g : g # f /\ (\E k \in 1 .. Len(queue') : queue'[k] = g) => InQueue(g)
    BY <1>1, <2>3 DEF InQueue
  <2>5. \A d \in Clients : cpc'[d] = "replace" => d # c /\ cpc[d] = "replace"
    BY <2>1 DEF TypeOK, ClientOK
  <2>6. QueueWaits' /\ ActiveStarted'
    BY <1>1, <2>1, <2>2, <2>3 DEF PlaceInv, QueueWaits, ActiveStarted, Started
  <2>7. QueueOnce'
    BY <1>1, <2>2, <2>3 DEF PlaceInv, QueueOnce, InQueue
  <2>8. ThreadAlone'
    BY <2>1, <2>2, <2>4 DEF PlaceInv, ThreadAlone, ThreadHolds, InQueue
  <2>9. ClientsApart'
    BY <2>1, <2>5 DEF PlaceInv, ClientsApart
  <2>10. ClientAlone'
    <3>1. ASSUME NEW d \in Clients, cpc'[d] = "replace"
          PROVE  /\ fstate[call[d].found] = "QUEUED" /\ ~InQueue(call[d].found)
                 /\ ThreadHolds => ufile # call[d].found
                 /\ call[d].found # f
      BY <2>1, <2>5, <3>1 DEF PlaceInv, ClientAlone, ClientsApart
    <3> QED
      BY <2>1, <2>4, <3>1 DEF ClientAlone, ThreadHolds, InQueue
  <2> QED
    BY <2>6, <2>7, <2>8, <2>9, <2>10 DEF PlaceInv
<1>43. CASE UNCHANGED vars
  BY <1>43, PlaceFrame DEF vars, engine, timer, disk, jobs, threads, client, wire, ThreadHolds
<1> QED
  BY <1>4, <1>5, <1>6, <1>7, <1>8, <1>9, <1>10, <1>11, <1>12, <1>13, <1>14, <1>15, <1>16,
     <1>17, <1>18, <1>19, <1>20, <1>21, <1>22, <1>23, <1>24, <1>25, <1>26, <1>27, <1>28, <1>29,
     <1>30, <1>31, <1>32, <1>33, <1>34, <1>35, <1>36, <1>37, <1>38, <1>39, <1>40, <1>41, <1>42,
     <1>43
     DEF Next, Uplink, Receive, Expire, Transmit, Request, Proceed

(* Whatever the interleaving of threads and requests, a file waits in at   *)
(* most one place, and one that has been started waits nowhere.            *)
THEOREM OnePlace == Spec => []PlaceInv
<1>1. TypeOK /\ PlaceInv /\ [Next]_vars => TypeOK' /\ PlaceInv'
  BY TypeStep, PlaceStep
<1>2. Init => TypeOK /\ PlaceInv
  BY TypeInit, PlaceInit
<1> QED
  BY <1>1, <1>2, PTL DEF Spec

(* Only UStart opens a file, and no step puts a started file back to NEW   *)
(* or QUEUED.                                                              *)
LEMMA DiskStep ==
    ASSUME TypeOK, PlaceInv, Next
    PROVE  \A f \in Files : /\ f \in opened' \ opened => fstate[f] = "QUEUED"
                            /\ Started(f) => Started(f)'
<1> DEFINE Goal == \A f \in Files : /\ f \in opened' \ opened => fstate[f] = "QUEUED"
                                    /\ Started(f) => Started(f)'
<1> USE DEF TypeOK
<1>1. CASE UNCHANGED disk
  BY <1>1 DEF disk, Started
<1>2. CASE UNoSource
  BY <1>2 DEF UNoSource, Started, ThreadsOK, DiskOK
<1>3. CASE REnd
  BY <1>3 DEF REnd, Started, EndMark, DiskOK
<1>4. CASE RCancel
  BY <1>4 DEF RCancel, Started, Close
<1>5. CASE RData
  BY <1>5 DEF RData, Started
<1>6. CASE REof
  BY <1>6 DEF REof, Started, Close
<1>7. CASE TFinish
  BY <1>7 DEF TFinish, Started, Close
<1>8. CASE TMark
  BY <1>8 DEF TMark, Started, DiskOK
<1>9. CASE UStart
  <2>1. ufile \in Files /\ fstate[ufile] = "QUEUED"
    BY <1>9 DEF UStart, ThreadsOK, PlaceInv, ThreadAlone, ThreadHolds
  <2> QED
    BY <1>9, <2>1 DEF UStart, Started, DiskOK
<1>10. ASSUME NEW c \in Clients, NEW f \in Files, CEnqueue(c, f) PROVE Goal
  BY <1>10 DEF CEnqueue, Started, DiskOK
<1>11. ASSUME NEW c \in Clients, CSetCanceled(c) PROVE Goal
  BY <1>11 DEF CSetCanceled, Started, DiskOK
<1>12. \/ UNCHANGED disk
      \/ UNoSource \/ UStart \/ REnd \/ RCancel \/ RData \/ REof \/ TFinish \/ TMark
      \/ \E c \in Clients : CSetCanceled(c) \/ \E f \in Files : CEnqueue(c, f)
  BY DEF Next, Uplink, Receive, Expire, Transmit, Request, Proceed,
         UOuter, UGet, UAcquire, UBusy, USent, UWait, RIgnore, RStopTimer, RNext, RClosed,
         TFire, TRelease, CCancelRemove, CPause, CUnpause, CSendCancel, CExit, CAppend,
         CCancel, CPauseQueue, CHold, CResume, CScanEnd, CScanDrop, CScanTake, CReplace,
         CJoin, Deliver, Lose
<1> QED
  BY <1>1, <1>2, <1>3, <1>4, <1>5, <1>6, <1>7, <1>8, <1>9, <1>10, <1>11, <1>12

(* A file object is opened at most once: only a waiting file is opened and *)
(* a started one never waits again, for every interleaving of threads and  *)
(* requests and every loss (UplinkQueue.run, remove, TransmitFile.open).   *)
THEOREM FileOpenedOnce == Spec => OpenedOnce
<1>1. TypeOK /\ PlaceInv /\ [Next]_vars => TypeOK' /\ PlaceInv'
  BY TypeStep, PlaceStep
<1>2. Init => TypeOK /\ PlaceInv
  BY TypeInit, PlaceInit
<1>3. ASSUME TypeOK', PlaceInv', NEW f \in Files, Started(f)'
      PROVE  ~Waiting(f)'
  <2>1. f # NoFile /\ fstate'[f] # "QUEUED" /\ DOMAIN queue' = 1 .. Len(queue')
    BY <1>3, ConstantsAssumption DEF Started, TypeOK, JobsOK
  <2>2. \A i \in DOMAIN queue' : queue'[i] # f
    BY <1>3, <2>1 DEF PlaceInv, QueueWaits
  <2>3. ~(ufile' = f /\ ThreadHolds')
    BY <1>3, <2>1 DEF PlaceInv, ThreadAlone
  <2> QED
    BY <2>2, <2>3 DEF Waiting, ThreadHolds
<1>4. TypeOK /\ PlaceInv /\ TypeOK' /\ PlaceInv' /\ [Next]_vars
        => [\A f \in Files : OpensOnce(f)]_vars
  BY <1>3, DiskStep DEF OpensOnce
<1> QED
  BY <1>1, <1>2, <1>4, PTL DEF Spec, OpenedOnce
-----------------------------------------------------------------------------

(* A queue that can be paused has one client: a second one's unpause gives  *)
(* the token back that the first still waits for.                           *)
Gentle == ~Preempt /\ ("pause" \in Ops => \A c, d \in Clients : c = d)

(* One thread at a time is in a window.                                     *)
Quick == {"append", "cancel", "setCanceled", "pause", "replace", "resume"}
ClientsSlow == \A c \in Clients : cpc[c] \notin Quick
OneWindow ==
    /\ upc = "sent" => rpc # "stopTimer" /\ tpc = "idle" /\ ClientsSlow
    /\ rpc = "stopTimer" => tpc = "idle" /\ ClientsSlow
    /\ tpc # "idle" => ClientsSlow
    /\ \A c, d \in Clients : cpc[c] \in Quick /\ cpc[d] \in Quick => c = d

(* The token of the busy semaphore.                                         *)
Holds == \E c \in Clients : cpc[c] = "hold"
Resumes == \E c \in Clients : cpc[c] = "resume"
One(b) == IF b THEN 1 ELSE 0
Token ==
    /\ upc = "start" => state = "IDLE"
    /\ busy + One(Transferring) + One(~running) = 1 + One(Holds) + One(Resumes)
    /\ Holds \/ Resumes => ~running
    /\ rpc = "stopTimer" \/ tpc = "mark" => busy > 0

(* A queue that nobody pauses runs.                                         *)
Unpaused ==
    "pause" \notin Ops => /\ running
                          /\ \A c \in Clients : /\ cpc[c] \notin {"pause", "hold", "resume"}
                                               /\ call[c].next # "pause"

(* A transfer begins and ends with the token, the timer is armed during one *)
(* and expires in silence; what has been closed is not open.                *)
Silent == link = <<>> /\ hands = <<>>
Flow ==
    /\ upc = "sent" => state = "RUNNING"
    /\ \A c \in Clients : cpc[c] = "setCanceled" => state = "RUNNING"
    /\ tpc = "finish" => state # "IDLE"
    /\ tpc = "release" => state = "END_WAIT"
    /\ tpc # "idle" => ~armed /\ Silent
    /\ armed => state # "IDLE" \/ rpc = "stopTimer"
    /\ state \in {"IDLE", "END_WAIT"} => active \notin opened

(* A handshake that is expected is the last of its transfer: what is under  *)
(* way behind it has been sent by hand.  A client that sends CANCEL by hand *)
(* may make the receiver take one for its own, and read on.                 *)
ByHand(s) == \A i \in 1 .. Len(s) : s[i].type = "CANCEL"
LastOf(s, p) == \A i, j \in 1 .. Len(s) : s[i] = p /\ i < j => s[j].type = "CANCEL"
Opened(s) == \A i \in 1 .. Len(s) : s[i].type \in {"START", "CANCEL"}
Handshakes ==
    /\ state = "IDLE" => ByHand(link) /\ ByHand(hands)
    /\ expected.type # "CANCEL" =>
         /\ \A i \in 1 .. Len(hands) : hands[i] = expected => ByHand(link)
         /\ LastOf(hands, expected) /\ LastOf(link, expected)
    /\ rpc = "read" => Opened(link) /\ Opened(hands)
    /\ upc # "sent" /\ expected.type \in {"CANCEL", "NONE"} => ByHand(link) /\ ByHand(hands)
    /\ upc = "sent" => /\ ret.type = "START" /\ ByHand(hands)
                       /\ \E s \in Seq(Packets) : ByHand(s) /\ link = Append(s, ret)

(* In a window nothing else may begin.                                      *)
LEMMA OutOfWindows ==
    ASSUME ~Preempt, MayStart, TypeOK
    PROVE  upc # "sent" /\ rpc # "stopTimer" /\ tpc = "idle" /\ ClientsSlow
BY DEF MayStart, InWindow, Windows, ClientsSlow, Quick, TypeOK, TimerOK, ThreadsOK

(* A step enters a window only where no other thread is in one.            *)
LEMMA OneWindowStep ==
    ASSUME ~Preempt, TypeOK, OneWindow, [Next]_vars
    PROVE  OneWindow'
<1> USE DEF TypeOK, ClientOK, CallPcs, CallArgs
<1>1. CASE UOuter
  BY <1>1, OutOfWindows DEF UOuter, OneWindow, ClientsSlow, Quick, threads, client, timer
<1>2. CASE UGet
  BY <1>2, OutOfWindows DEF UGet, OneWindow, ClientsSlow, Quick, threads, client, timer
<1>3. CASE UAcquire
  BY <1>3, OutOfWindows DEF UAcquire, OneWindow, ClientsSlow, Quick, threads, client, timer
<1>4. CASE UBusy
  BY <1>4, OutOfWindows DEF UBusy, OneWindow, ClientsSlow, Quick, threads, client, timer
<1>5. CASE UNoSource
  BY <1>5, OutOfWindows DEF UNoSource, OneWindow, ClientsSlow, Quick, threads, client, timer
<1>6. CASE UStart
  BY <1>6, OutOfWindows DEF UStart, OneWindow, ClientsSlow, Quick, threads, client, timer
<1>7. CASE USent
  BY <1>7 DEF USent, OneWindow, ClientsSlow, Quick, threads, client, timer
<1>8. CASE UWait
  BY <1>8, OutOfWindows DEF UWait, OneWindow, ClientsSlow, Quick, threads, client, timer
<1>9. CASE RIgnore
  BY <1>9, OutOfWindows DEF RIgnore, Take, OneWindow, ClientsSlow, Quick, threads, client,
       timer
<1>10. CASE REnd
  BY <1>10, OutOfWindows DEF REnd, Take, OneWindow, ClientsSlow, Quick, threads, client, timer
<1>11. CASE RStopTimer
  BY <1>11 DEF RStopTimer, OneWindow, ClientsSlow, Quick, threads, client, timer
<1>12. CASE RCancel
  BY <1>12, OutOfWindows DEF RCancel, Take, OneWindow, ClientsSlow, Quick, threads, client,
       timer
<1>13. CASE RNext
  BY <1>13, OutOfWindows DEF RNext, Take, OneWindow, ClientsSlow, Quick, threads, client,
       timer
<1>14. CASE RClosed
  BY <1>14, OutOfWindows DEF RClosed, OneWindow, ClientsSlow, Quick, threads, client, timer
<1>15. CASE RData
  BY <1>15, OutOfWindows DEF RData, OneWindow, ClientsSlow, Quick, threads, client, timer
<1>16. CASE REof
  BY <1>16, OutOfWindows DEF REof, OneWindow, ClientsSlow, Quick, threads, client, timer
<1>17. CASE TFire
  BY <1>17, OutOfWindows DEF TFire, Quiet, OneWindow, ClientsSlow, Quick, threads, client,
       timer, MayStart
<1>18. CASE TFinish
  BY <1>18 DEF TFinish, OneWindow, ClientsSlow, Quick, threads, client, timer
<1>19. CASE TRelease
  BY <1>19 DEF TRelease, OneWindow, ClientsSlow, Quick, threads, client, timer
<1>20. CASE TMark
  BY <1>20 DEF TMark, OneWindow, ClientsSlow, Quick, threads, client, timer
<1>21. CASE Deliver
  BY <1>21, OutOfWindows DEF Deliver, OneWindow, ClientsSlow, Quick, threads, client, timer
<1>22. CASE Lose
  BY <1>22, OutOfWindows DEF Lose, OneWindow, ClientsSlow, Quick, threads, client, timer
<1>23. ASSUME NEW c \in Clients, NEW f \in Files, CEnqueue(c, f) PROVE OneWindow'
  BY <1>23, OutOfWindows DEF CEnqueue, Enter, Goto, IdleCall, OneWindow, ClientsSlow, Quick,
       threads, client, timer
<1>24. ASSUME NEW c \in Clients, NEW p \in Paths, CCancelRemove(c, p) PROVE OneWindow'
  BY <1>24, OutOfWindows DEF CCancelRemove, Calls, Enter, Goto, IdleCall, OneWindow,
       ClientsSlow, Quick, threads, client, timer
<1>25. ASSUME NEW c \in Clients, CPause(c) PROVE OneWindow'
  BY <1>25, OutOfWindows DEF CPause, Calls, Enter, Goto, IdleCall, OneWindow, ClientsSlow,
       Quick, threads, client, timer
<1>26. ASSUME NEW c \in Clients, CUnpause(c) PROVE OneWindow'
  BY <1>26, OutOfWindows DEF CUnpause, Calls, Goto, OneWindow, ClientsSlow, Quick, threads,
       client, timer
<1>27. ASSUME NEW c \in Clients, CSendCancel(c) PROVE OneWindow'
  BY <1>27, OutOfWindows DEF CSendCancel, Calls, OneWindow, ClientsSlow, Quick, threads,
       client, timer
<1>28. ASSUME NEW c \in Clients, CExit(c) PROVE OneWindow'
  BY <1>28, OutOfWindows DEF CExit, Calls, Enter, Goto, IdleCall, OneWindow, ClientsSlow,
       Quick, threads, client, timer
<1>29. ASSUME NEW c \in Clients, CAppend(c) PROVE OneWindow'
  BY <1>29 DEF CAppend, Return, Enter, Goto, IdleCall, OneWindow, ClientsSlow, Quick,
       threads, client, timer
<1>30. ASSUME NEW c \in Clients, CCancel(c) PROVE OneWindow'
  BY <1>30 DEF CCancel, Goto, OneWindow, ClientsSlow, Quick, threads, client, timer
<1>31. ASSUME NEW c \in Clients, CSetCanceled(c) PROVE OneWindow'
  BY <1>31 DEF CSetCanceled, Goto, OneWindow, ClientsSlow, Quick, threads, client, timer
<1>32. ASSUME NEW c \in Clients, CPauseQueue(c) PROVE OneWindow'
  BY <1>32 DEF CPauseQueue, Enter, Goto, IdleCall, OneWindow, ClientsSlow, Quick, threads,
       client, timer
<1>33. ASSUME NEW c \in Clients, CHold(c) PROVE OneWindow'
  BY <1>33, OutOfWindows DEF CHold, Goto, OneWindow, ClientsSlow, Quick, threads, client,
       timer
<1>34. ASSUME NEW c \in Clients, CResume(c) PROVE OneWindow'
  BY <1>34 DEF CResume, Goto, OneWindow, ClientsSlow, Quick, threads, client, timer
<1>35. ASSUME NEW c \in Clients, CScanEnd(c) PROVE OneWindow'
  BY <1>35, OutOfWindows DEF CScanEnd, Return, Enter, Goto, IdleCall, OneWindow, ClientsSlow,
       Quick, threads, client, timer
<1>36. ASSUME NEW c \in Clients, CScanDrop(c) PROVE OneWindow'
  BY <1>36, OutOfWindows DEF CScanDrop, Return, Enter, Goto, IdleCall, OneWindow,
       ClientsSlow, Quick, threads, client, timer
<1>37. ASSUME NEW c \in Clients, CScanTake(c) PROVE OneWindow'
  BY <1>37, OutOfWindows DEF CScanTake, Goto, OneWindow, ClientsSlow, Quick, threads, client,
       timer
<1>38. ASSUME NEW c \in Clients, CReplace(c) PROVE OneWindow'
  BY <1>38 DEF CReplace, Goto, OneWindow, ClientsSlow, Quick, threads, client, timer
<1>39. ASSUME NEW c \in Clients, CJoin(c) PROVE OneWindow'
  BY <1>39, OutOfWindows DEF CJoin, Return, Enter, Goto, IdleCall, OneWindow, ClientsSlow,
       Quick, threads, client, timer
<1>40. CASE UNCHANGED vars
  BY <1>40 DEF vars, OneWindow, ClientsSlow, threads, client, timer
<1> QED
  BY <1>1, <1>2, <1>3, <1>4, <1>5, <1>6, <1>7, <1>8, <1>9, <1>10, <1>11, <1>12, <1>13, <1>14,
     <1>15, <1>16, <1>17, <1>18, <1>19, <1>20, <1>21, <1>22, <1>23, <1>24, <1>25, <1>26, <1>27,
     <1>28, <1>29, <1>30, <1>31, <1>32, <1>33, <1>34, <1>35, <1>36, <1>37, <1>38, <1>39, <1>40
     DEF Next, Uplink, Receive, Expire, Transmit, Request, Proceed

(* Steps that the transfer under way does not notice.                       *)
Aside ==
    /\ UNCHANGED <<engine, timer, opened, rpc, ret, link, hands>>
    /\ (upc' = "sent") <=> (upc = "sent")
    /\ \A c \in Clients : cpc'[c] = "setCanceled" => cpc[c] = "setCanceled" \/ state = "RUNNING"

(* The other steps are those of the transfer, its packets and its timer.    *)
LEMMA TransferSteps ==
    ASSUME TypeOK, ~exiting', [Next]_vars
    PROVE  \/ Aside \/ UNoSource \/ UStart \/ USent \/ REnd \/ RStopTimer \/ RCancel \/ RNext
           \/ RClosed \/ RIgnore \/ RData \/ REof \/ TFire \/ TFinish \/ TRelease \/ TMark
           \/ Deliver \/ Lose \/ \E c \in Clients : CSetCanceled(c) \/ CSendCancel(c)
<1> USE DEF TypeOK, ClientOK, CallPcs, CallArgs, Aside, engine, timer, disk, threads, client, wire
<1>1. CASE UOuter
  BY <1>1 DEF UOuter
<1>2. CASE UGet
  BY <1>2 DEF UGet
<1>3. CASE UAcquire
  BY <1>3 DEF UAcquire
<1>4. CASE UBusy
  BY <1>4 DEF UBusy
<1>5. CASE UWait
  BY <1>5 DEF UWait
<1>6. ASSUME NEW c \in Clients, NEW f \in Files, CEnqueue(c, f) PROVE Aside
  BY <1>6 DEF CEnqueue, Calls, Return, Enter, Goto, IdleCall
<1>7. ASSUME NEW c \in Clients, NEW p \in Paths, CCancelRemove(c, p) PROVE Aside
  BY <1>7 DEF CCancelRemove, Calls, Return, Enter, Goto, IdleCall
<1>8. ASSUME NEW c \in Clients, CPause(c) PROVE Aside
  BY <1>8 DEF CPause, Calls, Return, Enter, Goto, IdleCall
<1>9. ASSUME NEW c \in Clients, CUnpause(c) PROVE Aside
  BY <1>9 DEF CUnpause, Calls, Return, Enter, Goto, IdleCall
<1>10. ASSUME NEW c \in Clients, CAppend(c) PROVE Aside
  BY <1>10 DEF CAppend, Calls, Return, Enter, Goto, IdleCall
<1>11. ASSUME NEW c \in Clients, CCancel(c) PROVE Aside
  BY <1>11 DEF CCancel, Calls, Return, Enter, Goto, IdleCall
<1>12. ASSUME NEW c \in Clients, CPauseQueue(c) PROVE Aside
  BY <1>12 DEF CPauseQueue, Calls, Return, Enter, Goto, IdleCall
<1>13. ASSUME NEW c \in Clients, CHold(c) PROVE Aside
  BY <1>13 DEF CHold, Calls, Return, Enter, Goto, IdleCall
<1>14. ASSUME NEW c \in Clients, CResume(c) PROVE Aside
  BY <1>14 DEF CResume, Calls, Return, Enter, Goto, IdleCall
<1>15. ASSUME NEW c \in Clients, CScanEnd(c) PROVE Aside
  BY <1>15 DEF CScanEnd, Calls, Return, Enter, Goto, IdleCall
<1>16. ASSUME NEW c \in Clients, CScanDrop(c) PROVE Aside
  BY <1>16 DEF CScanDrop, Calls, Return, Enter, Goto, IdleCall
<1>17. ASSUME NEW c \in Clients, CScanTake(c) PROVE Aside
  BY <1>17 DEF CScanTake, Calls, Return, Enter, Goto, IdleCall
<1>18. ASSUME NEW c \in Clients, CReplace(c) PROVE Aside
  BY <1>18 DEF CReplace, Calls, Return, Enter, Goto, IdleCall
<1>19. ASSUME NEW c \in Clients, CJoin(c) PROVE Aside
  BY <1>19 DEF CJoin, Calls, Return, Enter, Goto, IdleCall
<1>20. \A c \in Clients : ~CExit(c)
  BY DEF CExit
<1>21. CASE UNCHANGED vars
  BY <1>21 DEF vars
<1> QED
  BY <1>1, <1>2, <1>3, <1>4, <1>5, <1>6, <1>7, <1>8, <1>9, <1>10, <1>11, <1>12, <1>13, <1>14,
     <1>15, <1>16, <1>17, <1>18, <1>19, <1>20, <1>21
     DEF Next, Uplink, Receive, Expire, Transmit, Request, Proceed

(* The transfer keeps to its course.                                        *)
LEMMA FlowStep ==
    ASSUME Gentle, TypeOK, OneWindow, Flow, Token, ~exiting', [Next]_vars
    PROVE  Flow'
<1> USE DEF TypeOK, EngineOK, TimerOK, ThreadsOK, ClientOK, CallPcs, Gentle, Flow, Silent, OneWindow, ClientsSlow,
            Quick, engine, timer, disk, threads, client, wire
<1>1. CASE Aside
  BY <1>1 DEF Aside
<1>2. CASE UNoSource
  BY <1>2, OutOfWindows DEF UNoSource
<1>3. CASE UStart
  BY <1>3, OutOfWindows DEF UStart, Push
<1>4. CASE USent
  BY <1>4 DEF USent, Expect
<1>5. CASE REnd
  BY <1>5, OutOfWindows DEF REnd, Take
<1>6. CASE RStopTimer
  BY <1>6 DEF RStopTimer
<1>7. CASE RCancel
  BY <1>7, OutOfWindows DEF RCancel, Take, Close, Expect
<1>8. CASE RNext
  BY <1>8, OutOfWindows DEF RNext, Take
<1>9. CASE RClosed
  BY <1>9, OutOfWindows DEF RClosed
<1>10. CASE RIgnore
  BY <1>10, OutOfWindows DEF RIgnore, Take
<1>11. CASE RData
  BY <1>11, OutOfWindows DEF RData, Push, Expect
<1>12. CASE REof
  BY <1>12, OutOfWindows DEF REof, Close, Push, Expect
<1>13. CASE TFire
  BY <1>13, OutOfWindows DEF TFire, Quiet, MayStart
<1>14. CASE TFinish
  BY <1>14 DEF TFinish, Close
<1>15. CASE TRelease
  BY <1>15 DEF TRelease
<1>16. CASE TMark
  BY <1>16 DEF TMark
<1>17. CASE Deliver
  BY <1>17, OutOfWindows DEF Deliver
<1>18. CASE Lose
  BY <1>18, OutOfWindows DEF Lose
<1>19. ASSUME NEW c \in Clients, CSetCanceled(c) PROVE Flow'
  <2>1. /\ cpc[c] = "setCanceled" /\ cpc' = [cpc EXCEPT ![c] = call[c].next] /\ state = "RUNNING"
        /\ state' = "CANCELED" /\ UNCHANGED <<tpc, armed, link, hands>>
    BY <1>19 DEF CSetCanceled, Goto
  <2>2. call[c].next # "setCanceled" /\ upc # "sent" /\ tpc = "idle"
    BY <2>1 DEF CallArgs
  <2>3. \A d \in Clients : cpc'[d] # "setCanceled"
    BY <2>1, <2>2
  <2> QED
    BY <1>19, <2>1, <2>2, <2>3 DEF CSetCanceled
<1>20. ASSUME NEW c \in Clients, CSendCancel(c) PROVE Flow'
  BY <1>20, OutOfWindows DEF CSendCancel, Calls, Push
<1> QED
  BY TransferSteps, <1>1, <1>2, <1>3, <1>4, <1>5, <1>6, <1>7, <1>8, <1>9, <1>10, <1>11, <1>12,
     <1>13, <1>14, <1>15, <1>16, <1>17, <1>18, <1>19, <1>20

(* What has been sent by hand, and what is last, as a packet is added.      *)
LEMMA Comes ==
    ASSUME NEW s \in Seq(Packets), NEW q \in Packets, NEW p
    PROVE  /\ ByHand(s) /\ q.type = "CANCEL" => ByHand(Append(s, q))
           /\ Opened(s) /\ q.type \in {"START", "CANCEL"} => Opened(Append(s, q))
           /\ LastOf(s, p) /\ (q.type = "CANCEL" \/ \A i \in 1 .. Len(s) : s[i] # p)
                => LastOf(Append(s, q), p)
           /\ ByHand(s) /\ p.type # "CANCEL" => LastOf(s, p) /\ \A i \in 1 .. Len(s) : s[i] # p
           /\ ByHand(s) => Opened(s)
<1>1. /\ Len(s) \in Nat /\ Len(Append(s, q)) = Len(s) + 1 /\ Append(s, q)[Len(s) + 1] = q
      /\ \A i \in 1 .. Len(s) : Append(s, q)[i] = s[i]
  BY AppendFacts
<1> DEFINE t == Append(s, q)
<1> HIDE DEF t
<1>2. /\ Len(s) \in Nat /\ Len(t) = Len(s) + 1 /\ t[Len(s) + 1] = q
      /\ \A i \in 1 .. Len(s) : t[i] = s[i]
  BY <1>1 DEF t
<1>3. \A i \in 1 .. Len(t) : i \in 1 .. Len(s) \/ i = Len(s) + 1
  BY <1>2
<1>4. ByHand(s) /\ q.type = "CANCEL" => ByHand(t)
  BY <1>2, <1>3 DEF ByHand
<1>5. Opened(s) /\ q.type \in {"START", "CANCEL"} => Opened(t)
  BY <1>2, <1>3 DEF Opened
<1>6. LastOf(s, p) /\ (q.type = "CANCEL" \/ \A i \in 1 .. Len(s) : s[i] # p) => LastOf(t, p)
  <2> SUFFICES ASSUME LastOf(s, p), q.type = "CANCEL" \/ \A i \in 1 .. Len(s) : s[i] # p,
                      NEW i \in 1 .. Len(t), NEW j \in 1 .. Len(t), t[i] = p, i < j
               PROVE  t[j].type = "CANCEL"
    BY DEF LastOf
  <2>1. i \in 1 .. Len(s) /\ s[i] = p
    BY <1>2
  <2>2. CASE j \in 1 .. Len(s)
    BY <1>2, <2>1, <2>2 DEF LastOf
  <2>3. CASE j = Len(s) + 1
    BY <1>2, <2>1, <2>3
  <2> QED
    BY <1>3, <2>2, <2>3
<1>7. ByHand(s) /\ p.type # "CANCEL" => LastOf(s, p) /\ \A i \in 1 .. Len(s) : s[i] # p
  BY DEF ByHand, LastOf
<1>8. ByHand(s) => Opened(s)
  BY DEF ByHand, Opened
<1> QED
  BY <1>4, <1>5, <1>6, <1>7, <1>8 DEF t

(* The same as a packet leaves at the head.                                 *)
LEMMA Goes ==
    ASSUME NEW s \in Seq(Packets), s # <<>>, NEW p
    PROVE  /\ Tail(s) \in Seq(Packets) /\ Head(s) \in Packets
           /\ ByHand(s) => ByHand(Tail(s)) /\ Head(s).type = "CANCEL"
           /\ Opened(s) => Opened(Tail(s)) /\ Head(s).type \in {"START", "CANCEL"}
           /\ LastOf(s, p) => LastOf(Tail(s), p) /\ (Head(s) = p => ByHand(Tail(s)))
           /\ (\A i \in 1 .. Len(s) : s[i] # p) => \A i \in 1 .. Len(Tail(s)) : Tail(s)[i] # p
           /\ Head(s) = p => \E i \in 1 .. Len(s) : s[i] = p
<1> DEFINE t == Tail(s)
           h == Head(s)
<1>1. /\ t \in Seq(Packets) /\ h \in Packets /\ h = s[1] /\ Len(s) \in Nat /\ Len(s) >= 1
      /\ Len(t) = Len(s) - 1 /\ \A i \in 1 .. Len(s) - 1 : t[i] = s[i + 1]
  BY TailFacts
<1> HIDE DEF t, h
<1>2. \A i \in 1 .. Len(t) : i + 1 \in 1 .. Len(s) /\ t[i] = s[i + 1] /\ 1 < i + 1
  BY <1>1
<1>3. 1 \in 1 .. Len(s)
  BY <1>1
<1>4. ByHand(s) => ByHand(t) /\ h.type = "CANCEL"
  BY <1>1, <1>2, <1>3 DEF ByHand
<1>5. Opened(s) => Opened(t) /\ h.type \in {"START", "CANCEL"}
  BY <1>1, <1>2, <1>3 DEF Opened
<1>6. LastOf(s, p) => LastOf(t, p)
  <2> SUFFICES ASSUME LastOf(s, p), NEW i \in 1 .. Len(t), NEW j \in 1 .. Len(t), t[i] = p, i < j
               PROVE  t[j].type = "CANCEL"
    BY DEF LastOf
  <2>1. i + 1 \in 1 .. Len(s) /\ j + 1 \in 1 .. Len(s) /\ i + 1 < j + 1
    BY <1>1
  <2> QED
    BY <1>2, <2>1 DEF LastOf
<1>7. LastOf(s, p) /\ h = p => ByHand(t)
  BY <1>1, <1>2, <1>3 DEF LastOf, ByHand
<1>8. (\A i \in 1 .. Len(s) : s[i] # p) => \A i \in 1 .. Len(t) : t[i] # p
  BY <1>2
<1>9. h = p => \E i \in 1 .. Len(s) : s[i] = p
  BY <1>1, <1>3
<1> QED
  BY <1>1, <1>4, <1>5, <1>6, <1>7, <1>8, <1>9 DEF t, h

(* Nothing but CANCEL packets by hand is under way behind the expected      *)
(* handshake, or where none is expected.                                    *)
LEMMA BehindExpected ==
    ASSUME TypeOK, Handshakes, upc # "sent", hands # <<>>, Head(hands) = expected
    PROVE  ByHand(link) /\ ByHand(Tail(hands))
<1>1. hands \in Seq(Packets)
  BY DEF TypeOK, WireOK
<1>2. CASE expected.type = "CANCEL"
  BY <1>1, <1>2, Goes DEF Handshakes
<1>3. CASE expected.type # "CANCEL"
  BY <1>1, <1>3, Goes DEF Handshakes
<1> QED
  BY <1>2, <1>3

(* What is sent is sent in silence, but for packets by hand.                *)
LEMMA HandshakesStep ==
    ASSUME Gentle, TypeOK, OneWindow, Flow, Token, Handshakes, ~exiting', [Next]_vars
    PROVE  Handshakes'
<1>0. /\ link \in Seq(Packets) /\ hands \in Seq(Packets) /\ sequence \in Nat
      /\ expected \in Packets \cup {NoPacket} /\ NoPacket.type = "NONE"
      /\ \A p \in Packets : p.type \in {"START", "DATA", "END", "CANCEL"}
  BY DEF TypeOK, WireOK, EngineOK, NoPacket, Packets, Types
<1>1. CASE Aside
  BY <1>1 DEF Aside, Handshakes, engine
<1>2. CASE UNoSource
  BY <1>2 DEF UNoSource, Handshakes, wire
<1>3. CASE UStart
  <2>1. /\ state = "IDLE" /\ state' = "RUNNING" /\ upc' = "sent" /\ link' = Append(link, ret')
        /\ ret'.type = "START" /\ UNCHANGED <<hands, expected, rpc>>
    BY <1>3 DEF UStart, Push, StartPacket
  <2>2. ret' \in Packets
    BY <1>3, StartType, SourceType DEF UStart, TypeOK, ThreadsOK, EngineOK
  <2>3. ByHand(link) /\ ByHand(hands)
    BY <2>1 DEF Handshakes
  <2>4. expected.type # "CANCEL" =>
          /\ \A i \in 1 .. Len(hands) : hands[i] # expected
          /\ LastOf(hands, expected) /\ LastOf(link', expected)
    BY <1>0, <2>1, <2>2, <2>3, Comes
  <2>5. Opened(link') /\ Opened(hands)
    BY <1>0, <2>1, <2>2, <2>3, Comes
  <2> QED
    BY <1>0, <2>1, <2>3, <2>4, <2>5 DEF Handshakes
<1>4. CASE USent
  <2>1. /\ upc = "sent" /\ upc' = "wait" /\ expected' = ret /\ state' = state
        /\ UNCHANGED <<link, hands, rpc>>
    BY <1>4 DEF USent, Expect, wire
  <2>2. PICK s \in Seq(Packets) : ByHand(s) /\ link = Append(s, ret)
    BY <2>1 DEF Handshakes
  <2>3. ret.type = "START" /\ ByHand(hands) /\ state = "RUNNING" /\ ret \in Packets
    <3>1. ret.type = "START" /\ ByHand(hands) /\ state = "RUNNING"
      BY <2>1 DEF Handshakes, Flow
    <3> QED
      BY <3>1, <1>0 DEF TypeOK, ThreadsOK
  <2>4. LastOf(link, ret) /\ LastOf(hands, ret) /\ \A i \in 1 .. Len(hands) : hands[i] # ret
    BY <1>0, <2>2, <2>3, Comes
  <2> QED
    BY <2>1, <2>3, <2>4 DEF Handshakes
<1>5. CASE RIgnore
  <2>1. /\ hands # <<>> /\ hands' = Tail(hands)
        /\ UNCHANGED <<state, link, expected, rpc, upc, ret>>
    BY <1>5 DEF RIgnore, Take, engine, threads
  <2>2. expected.type # "CANCEL" =>
          /\ (\A i \in 1 .. Len(hands') : hands'[i] # expected) \/ ByHand(link)
          /\ LastOf(hands', expected)
    <3>1. expected.type # "CANCEL" =>
            /\ (\A i \in 1 .. Len(hands) : hands[i] # expected) \/ ByHand(link)
            /\ LastOf(hands, expected)
      BY DEF Handshakes
    <3> QED
      BY <1>0, <2>1, <3>1, Goes
  <2>3. (ByHand(hands) => ByHand(hands')) /\ (Opened(hands) => Opened(hands'))
    BY <1>0, <2>1, Goes
  <2> QED
    BY <2>1, <2>2, <2>3 DEF Handshakes
<1>6. ASSUME hands # <<>>, Head(hands) = expected, hands' = Tail(hands), upc' = upc, upc # "sent",
             link' = link, expected' = expected
      PROVE  Handshakes'
  <2>1. ByHand(link') /\ ByHand(hands') /\ hands' \in Seq(Packets)
    BY <1>0, <1>6, BehindExpected, Goes
  <2>2. Opened(link') /\ Opened(hands')
    BY <2>1 DEF ByHand, Opened
  <2>3. expected.type # "CANCEL" => LastOf(link', expected) /\ LastOf(hands', expected)
    BY <2>1 DEF ByHand, LastOf
  <2> QED
    BY <1>6, <2>1, <2>2, <2>3 DEF Handshakes
<1>7. CASE REnd
  BY <1>6, <1>7, OutOfWindows DEF REnd, Take, Gentle
<1>8. CASE RNext
  BY <1>6, <1>8, OutOfWindows DEF RNext, Take, Gentle, engine
<1>9. CASE RCancel
  <2> DEFINE q == CancelPacket(sequence)
  <2>1. /\ hands # <<>> /\ Head(hands) = expected /\ hands' = Tail(hands) /\ upc # "sent"
        /\ link' = Append(link, q) /\ expected' = q /\ upc' = upc
    BY <1>9, OutOfWindows DEF RCancel, Take, Expect, Gentle, threads
  <2>2. q \in Packets /\ q.type = "CANCEL"
    BY <1>0, CancelType DEF CancelPacket
  <2> HIDE DEF q
  <2>3. ByHand(link) /\ ByHand(hands') /\ hands' \in Seq(Packets)
    BY <1>0, <2>1, BehindExpected, Goes
  <2>4. ByHand(link') /\ link' \in Seq(Packets)
    BY <1>0, <2>1, <2>2, <2>3, Comes
  <2> QED
    BY <2>1, <2>2, <2>3, <2>4, <1>0, Comes DEF Handshakes
<1>10. CASE RStopTimer
  BY <1>10 DEF RStopTimer, Handshakes, engine, wire
<1>11. CASE RClosed
  BY <1>11 DEF RClosed, Handshakes, engine, wire
<1>12. ASSUME NEW q \in Packets, q.type \in {"DATA", "END"}, rpc = "read", rpc' = "idle", upc # "sent",
              upc' = upc, hands' = hands, link' = Append(link, q), expected' = q, state' # "IDLE"
       PROVE  Handshakes'
  <2>1. Opened(link) /\ Opened(hands)
    BY <1>12 DEF Handshakes
  <2>2. (\A i \in 1 .. Len(hands) : hands[i] # q) /\ (\A i \in 1 .. Len(link) : link[i] # q)
    BY <1>12, <2>1 DEF Opened
  <2>3. LastOf(hands, q) /\ LastOf(link, q)
    BY <2>2 DEF LastOf
  <2>4. LastOf(link', q)
    BY <1>0, <1>12, <2>2, <2>3, Comes
  <2> QED
    BY <1>12, <2>2, <2>3, <2>4 DEF Handshakes
<1>13. CASE RData
  <2> DEFINE q == DataPacket(sequence, Source[active], Head(remaining[active]))
  <2>1. /\ rpc = "read" /\ rpc' = "idle" /\ upc # "sent" /\ upc' = upc /\ hands' = hands
        /\ link' = Append(link, q) /\ expected' = q /\ state' = state /\ active \in opened
    BY <1>13, OutOfWindows DEF RData, Push, Expect, Gentle
  <2>2. q.type = "DATA" /\ state # "IDLE"
    BY <2>1 DEF DataPacket, Flow
  <2>3. q \in Packets
    BY <1>0, <1>13, <2>1, ReadType, SourceType, DataType DEF RData, TypeOK, DiskOK
  <2> HIDE DEF q
  <2> QED
    BY <1>12, <2>1, <2>2, <2>3
<1>14. CASE REof
  <2> DEFINE q == EndPacket(sequence, Source[active], summed[active])
  <2>1. /\ rpc = "read" /\ rpc' = "idle" /\ upc # "sent" /\ upc' = upc /\ hands' = hands
        /\ link' = Append(link, q) /\ expected' = q /\ state' = "END_WAIT" /\ active \in opened
    BY <1>14, OutOfWindows DEF REof, Push, Expect, Close, Gentle
  <2>2. q.type = "END" /\ q \in Packets
    BY <1>0, <2>1, SourceType, EndType DEF EndPacket, TypeOK, DiskOK
  <2> HIDE DEF q
  <2> QED
    BY <1>12, <2>1, <2>2
<1>15. CASE TFire
  BY <1>15 DEF TFire, Handshakes, engine, threads, wire
<1>16. CASE TFinish
  BY <1>16 DEF TFinish, Close, Handshakes, threads, wire
<1>17. CASE TRelease
  <2>1. link' = <<>> /\ hands' = <<>> /\ upc' # "sent"
    BY <1>17 DEF TRelease, Flow, Silent, OneWindow, threads, wire
  <2> QED
    BY <2>1 DEF Handshakes, ByHand, Opened, LastOf
<1>18. CASE TMark
  BY <1>18 DEF TMark, Handshakes, engine, threads, wire
<1>19. CASE Deliver
  <2>1. /\ link # <<>> /\ link' = Tail(link) /\ hands' = Append(hands, Head(link)) /\ upc # "sent"
        /\ UNCHANGED <<state, expected, rpc, upc, ret>>
    BY <1>19, OutOfWindows DEF Deliver, Gentle, engine, threads
  <2>2. /\ Head(link) \in Packets
        /\ ByHand(link) => ByHand(link') /\ Head(link).type = "CANCEL"
        /\ Opened(link) => Opened(link') /\ Head(link).type \in {"START", "CANCEL"}
        /\ LastOf(link, expected) => /\ LastOf(link', expected)
                                     /\ Head(link) = expected => ByHand(link')
    BY <1>0, <2>1, Goes
  <2>3. /\ ByHand(hands) /\ Head(link).type = "CANCEL" => ByHand(hands')
        /\ Opened(hands) /\ Head(link).type \in {"START", "CANCEL"} => Opened(hands')
        /\ LastOf(hands, expected)
             /\ (Head(link).type = "CANCEL" \/ \A i \in 1 .. Len(hands) : hands[i] # expected)
             => LastOf(hands', expected)
    BY <1>0, <2>1, <2>2, Comes
  <2>4. ASSUME expected.type # "CANCEL"
        PROVE  LastOf(hands', expected)
    BY <2>2, <2>3, <2>4 DEF Handshakes
  <2>5. ASSUME expected.type # "CANCEL", NEW i \in 1 .. Len(hands'), hands'[i] = expected
        PROVE  ByHand(link')
    <3>1. /\ Len(hands') = Len(hands) + 1 /\ Len(hands) \in Nat /\ hands'[Len(hands) + 1] = Head(link)
          /\ \A k \in 1 .. Len(hands) : hands'[k] = hands[k]
      BY <1>0, <2>1, <2>2, AppendFacts
    <3>2. CASE i \in 1 .. Len(hands)
      BY <2>2, <2>5, <3>1, <3>2 DEF Handshakes
    <3>3. CASE i = Len(hands) + 1
      BY <2>2, <2>5, <3>1, <3>3 DEF Handshakes
    <3> QED
      BY <3>1, <3>2, <3>3
  <2> QED
    BY <2>1, <2>2, <2>3, <2>4, <2>5 DEF Handshakes
<1>20. CASE Lose
  <2>1. /\ link # <<>> /\ link' = Tail(link) /\ hands' = hands /\ upc # "sent"
        /\ UNCHANGED <<state, expected, rpc, upc, ret>>
    BY <1>20, OutOfWindows DEF Lose, Gentle, engine, threads
  <2>2. /\ ByHand(link) => ByHand(link')
        /\ Opened(link) => Opened(link')
        /\ LastOf(link, expected) => LastOf(link', expected)
    BY <1>0, <2>1, Goes
  <2> QED
    BY <2>1, <2>2 DEF Handshakes
<1>21. ASSUME NEW c \in Clients, CSetCanceled(c) PROVE Handshakes'
  <2>1. cpc[c] = "setCanceled" /\ state' = "CANCELED"
        /\ UNCHANGED <<link, hands, expected, rpc, upc, ret>>
    BY <1>21 DEF CSetCanceled, threads, wire
  <2> QED
    BY <2>1 DEF Handshakes
<1>22. ASSUME NEW c \in Clients, CSendCancel(c) PROVE Handshakes'
  <2> DEFINE q == CancelPacket(sequence)
  <2>1. /\ link' = Append(link, q) /\ upc # "sent"
        /\ UNCHANGED <<state, expected, hands, rpc, upc, ret>>
    BY <1>22, OutOfWindows DEF CSendCancel, Calls, Push, Gentle, threads
  <2>2. q \in Packets /\ q.type = "CANCEL"
    BY <1>0, CancelType DEF CancelPacket
  <2> HIDE DEF q
  <2>3. /\ ByHand(link) => ByHand(link')
        /\ Opened(link) => Opened(link')
        /\ LastOf(link, expected) => LastOf(link', expected)
    BY <1>0, <2>1, <2>2, Comes
  <2> QED
    BY <2>1, <2>3 DEF Handshakes
<1> QED
  BY TransferSteps, <1>1, <1>2, <1>3, <1>4, <1>5, <1>7, <1>8, <1>9, <1>10, <1>11, <1>13, <1>14,
     <1>15, <1>16, <1>17, <1>18, <1>19, <1>20, <1>21, <1>22

(* Only a pause stops the queue.                                            *)
LEMMA UnpausedStep ==
    ASSUME TypeOK, Unpaused, ~exiting', [Next]_vars
    PROVE  Unpaused'
<1> USE DEF TypeOK, ClientOK, CallPcs, CallArgs, Unpaused, jobs, client
<1>1. CASE Uplink
  BY <1>1 DEF Uplink, UOuter, UGet, UAcquire, UBusy, UNoSource, UStart, USent, UWait
<1>2. CASE Receive
  BY <1>2 DEF Receive, RIgnore, REnd, RStopTimer, RCancel, RNext, RClosed, RData, REof
<1>3. CASE Expire
  BY <1>3 DEF Expire, TFire, TFinish, TRelease, TMark
<1>4. CASE Transmit
  BY <1>4 DEF Transmit, Deliver, Lose
<1>5. ASSUME NEW c \in Clients, NEW f \in Files, CEnqueue(c, f) PROVE Unpaused'
  BY <1>5 DEF CEnqueue, Calls, Return, Enter, Goto, IdleCall
<1>6. ASSUME NEW c \in Clients, NEW p \in Paths, CCancelRemove(c, p) PROVE Unpaused'
  BY <1>6 DEF CCancelRemove, Calls, Return, Enter, Goto, IdleCall
<1>7. ASSUME NEW c \in Clients, CPause(c) PROVE Unpaused'
  BY <1>7 DEF CPause, Calls, Return, Enter, Goto, IdleCall
<1>8. ASSUME NEW c \in Clients, CUnpause(c) PROVE Unpaused'
  BY <1>8 DEF CUnpause, Calls, Return, Enter, Goto, IdleCall
<1>9. ASSUME NEW c \in Clients, CSendCancel(c) PROVE Unpaused'
  BY <1>9 DEF CSendCancel, Calls, Return, Enter, Goto, IdleCall
<1>10. ASSUME NEW c \in Clients, CExit(c) PROVE Unpaused'
  BY <1>10 DEF CExit, Calls, Return, Enter, Goto, IdleCall
<1>11. ASSUME NEW c \in Clients, CAppend(c) PROVE Unpaused'
  BY <1>11 DEF CAppend, Calls, Return, Enter, Goto, IdleCall
<1>12. ASSUME NEW c \in Clients, CCancel(c) PROVE Unpaused'
  BY <1>12 DEF CCancel, Calls, Return, Enter, Goto, IdleCall
<1>13. ASSUME NEW c \in Clients, CSetCanceled(c) PROVE Unpaused'
  BY <1>13 DEF CSetCanceled, Calls, Return, Enter, Goto, IdleCall
<1>14. ASSUME NEW c \in Clients, CPauseQueue(c) PROVE Unpaused'
  BY <1>14 DEF CPauseQueue, Calls, Return, Enter, Goto, IdleCall
<1>15. ASSUME NEW c \in Clients, CHold(c) PROVE Unpaused'
  BY <1>15 DEF CHold, Calls, Return, Enter, Goto, IdleCall
<1>16. ASSUME NEW c \in Clients, CResume(c) PROVE Unpaused'
  BY <1>16 DEF CResume, Calls, Return, Enter, Goto, IdleCall
<1>17. ASSUME NEW c \in Clients, CScanEnd(c) PROVE Unpaused'
  BY <1>17 DEF CScanEnd, Calls, Return, Enter, Goto, IdleCall
<1>18. ASSUME NEW c \in Clients, CScanDrop(c) PROVE Unpaused'
  BY <1>18 DEF CScanDrop, Calls, Return, Enter, Goto, IdleCall
<1>19. ASSUME NEW c \in Clients, CScanTake(c) PROVE Unpaused'
  BY <1>19 DEF CScanTake, Calls, Return, Enter, Goto, IdleCall
<1>20. ASSUME NEW c \in Clients, CReplace(c) PROVE Unpaused'
  BY <1>20 DEF CReplace, Calls, Return, Enter, Goto, IdleCall
<1>21. ASSUME NEW c \in Clients, CJoin(c) PROVE Unpaused'
  BY <1>21 DEF CJoin, Calls, Return, Enter, Goto, IdleCall
<1>22. CASE UNCHANGED vars
  BY <1>22 DEF vars
<1> QED
  BY <1>1, <1>2, <1>3, <1>4, <1>5, <1>6, <1>7, <1>8, <1>9, <1>10, <1>11, <1>12, <1>13, <1>14,
     <1>15, <1>16, <1>17, <1>18, <1>19, <1>20, <1>21, <1>22
     DEF Next, Request, Proceed

(* Only the steps that take, give back or count on the token matter to it.   *)
LEMMA TokenFrame ==
    ASSUME Token, UNCHANGED <<busy, running>>, Transferring' <=> Transferring,
           upc' = "start" => upc = "start" /\ state' = state,
           rpc' = "stopTimer" => rpc = "stopTimer", tpc' = "mark" => tpc = "mark",
           \A c \in Clients : (cpc'[c] = "hold" <=> cpc[c] = "hold")
                              /\ (cpc'[c] = "resume" <=> cpc[c] = "resume")
    PROVE  Token'
<1>1. (Holds' <=> Holds) /\ (Resumes' <=> Resumes)
  BY DEF Holds, Resumes
<1> QED
  BY <1>1 DEF Token, One

(* While the token is on the semaphore there is no transfer.                *)
LEMMA TokenFree ==
    ASSUME TypeOK, Token, busy > 0, ~Resumes
    PROVE  ~Transferring /\ busy = 1 + (IF Holds THEN 1 ELSE 0) - (IF running THEN 0 ELSE 1)
<1>1. busy \in Nat /\ running \in BOOLEAN
  BY DEF TypeOK, JobsOK
<1> QED
  BY <1>1 DEF Token, One

(* No step makes a second token or loses the one.                           *)
LEMMA TokenStep ==
    ASSUME Gentle, TypeOK, OneWindow, Flow, Token, Unpaused, ~exiting', [Next]_vars
    PROVE  Token'
<1> USE DEF TypeOK, ClientOK, CallPcs, CallArgs
<1>1. CASE UOuter
  BY <1>1, TokenFrame DEF UOuter, Transferring, engine, timer, jobs, threads, client
<1>2. CASE UGet
  BY <1>2, TokenFrame DEF UGet, Transferring, engine, timer, jobs, threads, client
<1>3. CASE UAcquire
  <2>1. busy > 0 /\ upc = "acquire" /\ ~Resumes /\ busy' = busy - 1 /\ upc' = "start"
        /\ UNCHANGED <<state, running, cpc, rpc, tpc>>
    BY <1>3, OutOfWindows DEF UAcquire, Gentle, ClientsSlow, Quick, Resumes, engine, client,
         timer
  <2>2. ~Transferring /\ state = "IDLE" /\ Transferring'
    BY <2>1, TokenFree DEF Transferring
  <2>3. rpc # "stopTimer" /\ tpc # "mark"
    BY <1>3, OutOfWindows DEF UAcquire, Gentle
  <2>4. Holds' = Holds /\ Resumes' = Resumes
    BY <2>1 DEF Holds, Resumes
  <2> QED
    BY <2>1, <2>2, <2>3, <2>4 DEF Token, One, JobsOK
<1>4. CASE UStart
  BY <1>4, TokenFrame DEF UStart, Transferring, jobs, client, timer
<1>5. CASE USent
  BY <1>5, TokenFrame DEF USent, Transferring, jobs, client, timer, Flow
<1>6. CASE UWait
  BY <1>6, TokenFrame DEF UWait, Transferring, engine, timer, jobs, threads, client
<1>7. CASE REnd
  <2>1. state = "END_WAIT" /\ state' = "IDLE" /\ busy' = busy + 1 /\ UNCHANGED <<running,
                                                                                 upc, cpc, tpc>>
    BY <1>7 DEF REnd, timer, client
  <2>2. upc # "start" /\ upc # "sent"
    BY <2>1 DEF Token, Flow
  <2>3. Transferring /\ ~Transferring' /\ (Holds' <=> Holds) /\ (Resumes' <=> Resumes)
    BY <2>1, <2>2 DEF Transferring, Holds, Resumes
  <2> QED
    BY <2>1, <2>2, <2>3 DEF Token, One, JobsOK
<1>8. CASE RStopTimer
  BY <1>8, TokenFrame DEF RStopTimer, Transferring, engine, timer, jobs, threads, client
<1>9. CASE RCancel
  BY <1>9, TokenFrame DEF RCancel, Close, Take, Transferring, Token, jobs, threads, client,
       timer
<1>10. CASE RNext
  BY <1>10, TokenFrame DEF RNext, Take, Transferring, engine, timer, jobs, threads, client
<1>11. CASE RData
  BY <1>11, TokenFrame DEF RData, Transferring, engine, timer, jobs, threads, client
<1>12. CASE REof
  BY <1>12, TokenFrame DEF REof, Close, Transferring, Token, Flow, jobs,
       threads, client, timer
<1>13. CASE TFire
  BY <1>13, TokenFrame DEF TFire, Transferring, engine, timer, jobs, threads, client
<1>14. CASE TFinish
  BY <1>14, TokenFrame DEF TFinish, Close, Transferring, Token, Flow,
       jobs, threads, client, timer
<1>15. CASE TRelease
  <2>1. state = "END_WAIT" /\ state' = "IDLE" /\ busy' = busy + 1 /\ UNCHANGED <<running,
                                                                                 upc, rpc, cpc>>
    BY <1>15 DEF TRelease, Flow, threads, client
  <2>2. upc # "start" /\ upc # "sent"
    BY <2>1 DEF Token, Flow
  <2>3. Transferring /\ ~Transferring' /\ (Holds' <=> Holds) /\ (Resumes' <=> Resumes)
    BY <2>1, <2>2 DEF Transferring, Holds, Resumes
  <2> QED
    BY <2>1, <2>2, <2>3 DEF Token, One, JobsOK
<1>16. CASE TMark
  BY <1>16, TokenFrame DEF TMark, Transferring, engine, timer, jobs, threads, client
<1>17. CASE Deliver
  BY <1>17, TokenFrame DEF Deliver, Transferring, engine, timer, jobs, threads, client
<1>18. CASE Lose
  BY <1>18, TokenFrame DEF Lose, Transferring, engine, timer, jobs, threads, client
<1>19. ASSUME NEW c \in Clients, NEW f \in Files, CEnqueue(c, f) PROVE Token'
  BY <1>19, TokenFrame DEF CEnqueue, Enter, Goto, Transferring, engine, timer, jobs, threads,
       client
<1>20. ASSUME NEW c \in Clients, NEW p \in Paths, CCancelRemove(c, p) PROVE Token'
  BY <1>20, TokenFrame DEF CCancelRemove, Calls, Enter, Goto, Transferring, engine, timer,
       jobs, threads, client
<1>21. ASSUME NEW c \in Clients, CPause(c) PROVE Token'
  BY <1>21, TokenFrame DEF CPause, Calls, Enter, Goto, Transferring, engine, timer, jobs,
       threads, client
<1>22. ASSUME NEW c \in Clients, CUnpause(c) PROVE Token'
  <2>1. cpc[c] = "idle" /\ cpc' = [cpc EXCEPT ![c] = "resume"] /\ ~running
        /\ busy' = busy + 1 /\ UNCHANGED <<state, running, upc, rpc, tpc>>
    BY <1>22 DEF CUnpause, Calls, Goto, engine, threads, timer
  <2>2. \A d \in Clients : d = c
    BY <2>1 DEF Unpaused, Gentle
  <2>3. ~Holds /\ ~Resumes /\ Resumes' /\ ~Holds'
    BY <2>1, <2>2 DEF Holds, Resumes
  <2>4. Transferring' <=> Transferring
    BY <2>1 DEF Transferring
  <2> QED
    BY <2>1, <2>3, <2>4 DEF Token, One, JobsOK
<1>23. ASSUME NEW c \in Clients, CAppend(c) PROVE Token'
  BY <1>23, TokenFrame DEF CAppend, Return, Enter, Goto, Transferring, engine, timer, jobs,
       threads, client
<1>24. ASSUME NEW c \in Clients, CCancel(c) PROVE Token'
  BY <1>24, TokenFrame DEF CCancel, Goto, Transferring, engine, jobs, threads, timer
<1>25. ASSUME NEW c \in Clients, CSetCanceled(c) PROVE Token'
  BY <1>25, TokenFrame DEF CSetCanceled, Goto, Transferring, Token, Flow,
       jobs, threads, client, timer
<1>26. ASSUME NEW c \in Clients, CPauseQueue(c) PROVE Token'
  <2>1. cpc[c] = "pause" /\ cpc' = [cpc EXCEPT ![c] = IF running THEN "hold" ELSE "idle"]
        /\ running' = FALSE /\ UNCHANGED <<state, busy, upc, rpc, tpc>>
    BY <1>26 DEF CPauseQueue, Enter, Goto, engine, threads, timer
  <2>2. \A d \in Clients : d = c
    BY <2>1 DEF Unpaused, Gentle
  <2>3. ~Holds /\ ~Resumes /\ ~Resumes' /\ (Holds' <=> running)
    BY <2>1, <2>2 DEF Holds, Resumes
  <2>4. Transferring' <=> Transferring
    BY <2>1 DEF Transferring
  <2> QED
    BY <2>1, <2>3, <2>4 DEF Token, One, JobsOK
<1>27. ASSUME NEW c \in Clients, CHold(c) PROVE Token'
  <2>1. cpc[c] = "hold" /\ cpc' = [cpc EXCEPT ![c] = "idle"] /\ busy > 0 /\ busy' = busy - 1
        /\ UNCHANGED <<state, running, upc, rpc, tpc>>
    BY <1>27 DEF CHold, Goto, engine, threads, timer
  <2>2. rpc # "stopTimer" /\ tpc # "mark"
    BY <1>27, OutOfWindows DEF CHold, Gentle
  <2>3. \A d \in Clients : d = c
    BY <2>1 DEF Unpaused, Gentle
  <2>4. Holds /\ ~Holds' /\ ~Resumes /\ ~Resumes'
    BY <2>1, <2>3 DEF Holds, Resumes
  <2>5. Transferring' <=> Transferring
    BY <2>1 DEF Transferring
  <2> QED
    BY <2>1, <2>2, <2>4, <2>5 DEF Token, One, JobsOK
<1>28. ASSUME NEW c \in Clients, CResume(c) PROVE Token'
  <2>1. cpc[c] = "resume" /\ cpc' = [cpc EXCEPT ![c] = "idle"] /\ running' = TRUE
        /\ UNCHANGED <<state, busy, upc, rpc, tpc>>
    BY <1>28 DEF CResume, Goto, engine, threads, timer
  <2>2. \A d \in Clients : d = c
    BY <2>1 DEF Unpaused, Gentle
  <2>3. ~Holds /\ Resumes /\ ~Resumes' /\ ~Holds' /\ ~running
    BY <2>1, <2>2 DEF Holds, Resumes, Token
  <2>4. Transferring' <=> Transferring
    BY <2>1 DEF Transferring
  <2> QED
    BY <2>1, <2>3, <2>4 DEF Token, One, JobsOK
<1>29. ASSUME NEW c \in Clients, CScanEnd(c) PROVE Token'
  BY <1>29, TokenFrame DEF CScanEnd, Return, Enter, Goto, Transferring, engine, timer, jobs,
       threads, client
<1>30. ASSUME NEW c \in Clients, CScanDrop(c) PROVE Token'
  BY <1>30, TokenFrame DEF CScanDrop, Return, Enter, Goto, Transferring, engine, timer, jobs,
       threads, client
<1>31. ASSUME NEW c \in Clients, CScanTake(c) PROVE Token'
  BY <1>31, TokenFrame DEF CScanTake, Goto, Transferring, engine, timer, jobs, threads, client
<1>32. ASSUME NEW c \in Clients, CReplace(c) PROVE Token'
  BY <1>32, TokenFrame DEF CReplace, Goto, Transferring, engine, timer, jobs, threads, client
<1>33. CASE UNCHANGED vars
  BY <1>33, TokenFrame DEF vars, Transferring, engine, timer, jobs, threads, client
<1>34. CASE UBusy
  BY <1>34 DEF UBusy, Token
<1>35. CASE UNoSource
  BY <1>35, TokenFrame DEF UNoSource, Transferring, jobs, client, timer
<1>36. CASE RIgnore
  BY <1>36, TokenFrame DEF RIgnore, Transferring, engine, timer, jobs, threads, client
<1>37. CASE RClosed
  BY <1>37, TokenFrame DEF RClosed, Transferring, engine, timer, jobs, threads, client
<1>38. ASSUME NEW c \in Clients, CSendCancel(c) PROVE Token'
  BY <1>38, TokenFrame DEF CSendCancel, Transferring, timer, jobs, threads, client
<1>39. ASSUME NEW c \in Clients, CJoin(c) PROVE Token'
  BY <1>39, TokenFrame DEF CJoin, Return, Enter, Goto, Transferring, engine, timer, jobs,
       threads, client
<1>40. \A c \in Clients : ~CExit(c)
  BY DEF CExit
<1> QED
  BY <1>1, <1>2, <1>3, <1>4, <1>5, <1>6, <1>7, <1>8, <1>9, <1>10, <1>11, <1>12, <1>13, <1>14,
     <1>15, <1>16, <1>17, <1>18, <1>19, <1>20, <1>21, <1>22, <1>23, <1>24, <1>25, <1>26, <1>27,
     <1>28, <1>29, <1>30, <1>31, <1>32, <1>33, <1>34, <1>35, <1>36, <1>37, <1>38, <1>39, <1>40
     DEF Next, Uplink, Receive, Expire, Transmit, Request, Proceed

-----------------------------------------------------------------------------
(* Until exit() the token and the handshakes are as they should be; exit()  *)
(* lets the queue's thread go although its token is still awaited.          *)
PauseInv == /\ TypeOK /\ OneWindow
            /\ exiting \/ (Flow /\ Token /\ Unpaused /\ Handshakes)

LEMMA PauseInit == ASSUME Init PROVE PauseInv
<1>1. OneWindow /\ Flow /\ Unpaused
  BY DEF Init, OneWindow, ClientsSlow, Quick, Flow, Unpaused, IdleCall
<1>2. Token
  BY DEF Init, Token, One, Transferring, Holds, Resumes
<1>3. Handshakes
  BY DEF Init, Handshakes, ByHand, LastOf, Opened
<1> QED
  BY <1>1, <1>2, <1>3, TypeInit DEF PauseInv

(* exit() is for good.                                                      *)
LEMMA ExitStays == exiting /\ [Next]_vars => exiting'
<1> USE DEF jobs
<1>1. Uplink => exiting' = exiting
  BY DEF Uplink, UOuter, UGet, UAcquire, UBusy, UNoSource, UStart, USent, UWait
<1>2. Receive => exiting' = exiting
  BY DEF Receive, RIgnore, REnd, RStopTimer, RCancel, RNext, RClosed, RData, REof
<1>3. Expire \/ Transmit => exiting' = exiting
  BY DEF Expire, TFire, TFinish, TRelease, TMark, Transmit, Deliver, Lose
<1>4. \A c \in Clients : Request(c) => exiting' = exiting \/ exiting'
  BY DEF Request, CEnqueue, CCancelRemove, CPause, CUnpause, CSendCancel, CExit
<1>5. \A c \in Clients : Proceed(c) => exiting' = exiting
  BY DEF Proceed, CAppend, CCancel, CSetCanceled, CPauseQueue, CHold, CResume, CScanEnd,
         CScanDrop, CScanTake, CReplace, CJoin
<1> QED
  BY <1>1, <1>2, <1>3, <1>4, <1>5 DEF Next, vars

(* The invariant is inductive.                                              *)
LEMMA PauseStep == ASSUME Gentle, PauseInv, [Next]_vars PROVE PauseInv'
<1>1. TypeOK' /\ OneWindow'
  BY TypeStep, OneWindowStep DEF PauseInv, Gentle
<1>2. ASSUME ~exiting'
      PROVE  Flow' /\ Token' /\ Unpaused' /\ Handshakes'
  <2>1. ~exiting
    BY <1>2, ExitStays
  <2>2. TypeOK /\ OneWindow /\ Flow /\ Token /\ Unpaused /\ Handshakes
    BY <2>1 DEF PauseInv
  <2> QED
    BY <1>2, <2>2, FlowStep, TokenStep, UnpausedStep, HandshakesStep
<1> QED
  BY <1>1, <1>2 DEF PauseInv

(* The busy semaphore is one token, and a paused queue sends nothing but    *)
(* CANCEL packets by hand, whatever the link loses                          *)
(* (UplinkQueue.pause, unpause, run, FileUplinker.finish).                  *)
THEOREM PauseIsHeld == ASSUME Gentle PROVE Spec => []PauseHolds
<1>1. ASSUME PauseInv, exiting
      PROVE  PauseHolds
  BY <1>1 DEF PauseHolds, OneToken, PausedQuiet, Paused
<1>2. ASSUME PauseInv, ~exiting
      PROVE  PauseHolds
  <2>1. ~(Holds /\ Resumes)
    BY <1>2 DEF PauseInv, Gentle, Unpaused, Holds, Resumes
  <2>2. Paused <=> ~running /\ ~Holds /\ ~Resumes
    BY <1>2 DEF Paused, Holds, Resumes
  <2>3. /\ busy \in Nat /\ running \in BOOLEAN
        /\ busy + One(Transferring) + One(~running) = 1 + One(Holds) + One(Resumes)
        /\ Holds \/ Resumes => ~running
    BY <1>2 DEF PauseInv, Token, TypeOK, JobsOK
  <2>4. OneToken
    <3>1. busy + One(Transferring) + One(Paused) = 1
      BY <2>1, <2>2, <2>3 DEF One
    <3> QED
      BY <3>1 DEF OneToken, One
  <2>5. ASSUME Paused
        PROVE  busy = 0 /\ ~Transferring
    BY <2>2, <2>3, <2>5 DEF One
  <2>6. ASSUME Paused
        PROVE  ~armed /\ \A i \in DOMAIN link : link[i].type = "CANCEL"
    <3>1. state = "IDLE" /\ rpc # "stopTimer"
      BY <1>2, <2>5, <2>6 DEF PauseInv, Token, Transferring
    <3>2. ~armed
      BY <1>2, <3>1 DEF PauseInv, Flow
    <3>3. ByHand(link) /\ DOMAIN link = 1 .. Len(link)
      BY <1>2, <3>1 DEF PauseInv, Handshakes, TypeOK, WireOK
    <3> QED
      BY <3>2, <3>3 DEF ByHand
  <2> QED
    BY <2>4, <2>6 DEF PauseHolds, PausedQuiet
<1>3. PauseInv => PauseHolds
  BY <1>1, <1>2
<1>4. Init => PauseInv
  BY PauseInit
<1>5. PauseInv /\ [Next]_vars => PauseInv'
  BY PauseStep
<1> QED
  BY <1>3, <1>4, <1>5, PTL DEF Spec

-----------------------------------------------------------------------------

(* Besides, END and CANCEL arrive, and calls are uploads, removals, pauses   *)
(* and resumes.                                                             *)
Calm == /\ Gentle
        /\ "END" \notin Lossy /\ "CANCEL" \notin Lossy
        /\ Ops \subseteq {"enqueue", "remove", "pause", "unpause"}

(* What a packet's life, the state and the threads have to do with one      *)
(* another.                                                                 *)
Answered == fsw # <<>> /\ fsw[Len(fsw)] = expected
OnItsWay == link = <<expected>> /\ hands = <<>>
Echoed == link = <<>> /\ hands = <<expected>> /\ Answered
Lost == Silent /\ losses > 0
Sending == state \in {"RUNNING", "CANCELED"}

Opening ==      \* START is with the encoder
    upc = "sent" => /\ state = "RUNNING" /\ ret = StartPacket(0, Source[active]) /\ sequence = 1
                    /\ link = <<ret>> /\ hands = <<>> /\ rpc = "idle" /\ tpc = "idle"
Resting ==
    state = "IDLE" => /\ Silent /\ sequence = 0
                      /\ rpc \in {"idle", "stopTimer"} /\ tpc \in {"idle", "mark"}
                      /\ armed => rpc = "stopTimer" \/ tpc = "mark"
Ending ==
    state = "END_WAIT" =>
        /\ sequence = 0 /\ rpc = "idle"
        /\ \/ tpc = "idle" /\ armed /\ (OnItsWay \/ Echoed) /\ expected.type \in {"END", "CANCEL"}
           \/ tpc = "release" /\ Lost
Waits ==        \* for a handshake, for its turn to read, or for finish() of the timer
    \/ rpc = "read" /\ tpc = "idle" /\ armed /\ Silent /\ Answered
    \/ rpc = "idle" /\ tpc = "idle" /\ armed /\ (OnItsWay \/ Echoed \/ Lost)
    \/ rpc = "idle" /\ tpc = "finish" /\ Lost
Under ==
    Sending /\ upc # "sent" =>
        /\ expected.type \in {"START", "DATA"} /\ expected.path = Source[active]
        /\ sequence = expected.seq + 1 /\ Waits
Threads ==
    /\ state # "IDLE" => active \in Files
    /\ Sending => active \in opened
    /\ tpc = "finish" => Sending
    /\ tpc = "release" => state = "END_WAIT"
    /\ tpc = "mark" => state = "IDLE" /\ losses > 0 /\ active \in Files
    /\ rpc = "stopTimer" => state = "IDLE"
    /\ rpc = "read" => Sending
    /\ \A c \in Clients : cpc[c] = "setCanceled" => state = "RUNNING"
Phase == Opening /\ Resting /\ Ending /\ Under /\ Threads

(* What never happens here.                                                 *)
Excluded ==
    /\ ~exiting /\ upc \notin {"done", "dead"}
    /\ \A i \in 1 .. Len(queue) : queue[i] # NoFile
    /\ "pause" \notin Ops => running
    /\ \A c \in Clients :
         /\ cpc[c] # "join" /\ call[c].next # "join"
         /\ "pause" \notin Ops => /\ cpc[c] \notin {"pause", "hold", "resume"}
                                 /\ call[c].next # "pause"

(* The files whose sources are still needed, one for each path.             *)
Live(f) == \/ InQueue(f)
           \/ ThreadHolds /\ ufile = f
           \/ \E c \in Clients : cpc[c] = "replace" /\ call[c].found = f
           \/ Sending /\ active = f
Sources == \A f \in Files : Live(f) =>
    /\ Source[f] \in onDisk
    /\ \A g \in Files : Live(g) /\ Source[g] = Source[f] => f = g

(* What is not in a queue is not in what is left of it.                     *)
LEMMA NotInTail ==
    ASSUME NEW S, NEW s \in Seq(S), s # <<>>, NEW x, \A i \in 1 .. Len(s) : s[i] # x
    PROVE  /\ \A i \in 1 .. Len(Tail(s)) : Tail(s)[i] # x
           /\ \A i \in 1 .. Len(Append(Tail(s), Head(s))) : Append(Tail(s), Head(s))[i] # x
<1> DEFINE t == Tail(s)
           h == Head(s)
<1>1. /\ t \in Seq(S) /\ h \in S /\ h = s[1] /\ Len(s) \in Nat /\ Len(s) >= 1
      /\ Len(t) = Len(s) - 1 /\ \A i \in 1 .. Len(s) - 1 : t[i] = s[i + 1]
  BY TailFacts
<1> HIDE DEF t, h
<1>2. \A i \in 1 .. Len(t) : t[i] # x
  BY <1>1
<1>3. Len(Append(t, h)) = Len(t) + 1 /\ Append(t, h)[Len(t) + 1] = h
      /\ \A i \in 1 .. Len(t) : Append(t, h)[i] = t[i]
  BY <1>1, AppendFacts
<1>4. \A i \in 1 .. Len(Append(t, h)) : Append(t, h)[i] # x
  BY <1>1, <1>2, <1>3
<1> QED
  BY <1>2, <1>4 DEF t, h

(* A handshake that arrives is the expected one.                            *)
LEMMA HandsExpected ==
    ASSUME TypeOK, Phase, MayStart, ~Preempt, hands # <<>>
    PROVE  hands = <<expected>> /\ link = <<>> /\ Answered /\ state # "IDLE" /\ upc # "sent"
           /\ rpc = "idle" /\ tpc = "idle" /\ armed
<1>1. upc # "sent" /\ tpc = "idle"
  BY OutOfWindows
<1>2. state \in {"IDLE", "RUNNING", "CANCELED", "END_WAIT"}
  BY DEF TypeOK, EngineOK
<1>3. state # "IDLE"
  BY DEF Phase, Resting, Silent
<1>4. CASE state = "END_WAIT"
  BY <1>1, <1>4 DEF Phase, Ending, OnItsWay, Echoed, Lost, Silent
<1>5. CASE Sending
  BY <1>1, <1>3, <1>5 DEF Phase, Under, Waits, OnItsWay, Echoed, Lost, Silent
<1> QED
  BY <1>2, <1>3, <1>4, <1>5 DEF Sending

(* The UplinkerThread lives, every handshake is expected, a file to read is *)
(* open.                                                                    *)
LEMMA Moves ==
    ASSUME Calm, TypeOK, Phase, Token, Excluded, Sources, Next
    PROVE  \/ UOuter \/ UGet \/ UAcquire \/ UStart \/ USent \/ UWait \/ REnd \/ RStopTimer \/ RCancel
           \/ RNext \/ RData \/ REof \/ TFire \/ TFinish \/ TRelease \/ TMark \/ Deliver \/ Lose
           \/ \E c \in Clients :
                \/ (\E f \in Files : CEnqueue(c, f)) \/ (\E p \in Paths : CCancelRemove(c, p))
                \/ CPause(c) \/ CUnpause(c) \/ CAppend(c) \/ CCancel(c) \/ CSetCanceled(c) \/ CPauseQueue(c)
                \/ CHold(c) \/ CResume(c) \/ CScanEnd(c) \/ CScanDrop(c) \/ CScanTake(c) \/ CReplace(c)
<1>1. ~UBusy
  BY DEF Token, UBusy
<1>2. ~UNoSource
  <2> SUFFICES ASSUME UNoSource PROVE FALSE
    OBVIOUS
  <2>1. ufile \in Files /\ upc = "start"
    BY DEF UNoSource, TypeOK, ThreadsOK
  <2>2. Live(ufile)
    BY <2>1 DEF Live, ThreadHolds
  <2> QED
    BY <2>1, <2>2 DEF Sources, UNoSource
<1>3. ~RIgnore
  <2> SUFFICES ASSUME RIgnore PROVE FALSE
    OBVIOUS
  <2>1. hands = <<expected>> /\ Head(hands) # expected
    BY HandsExpected DEF RIgnore, Take, Calm, Gentle
  <2> QED
    BY <2>1
<1>4. ~RClosed
  BY DEF RClosed, Phase, Threads
<1>5. \A c \in Clients : ~CSendCancel(c) /\ ~CExit(c) /\ ~CJoin(c)
  BY DEF CSendCancel, CExit, CJoin, Calls, Calm, Gentle, Excluded
<1> QED
  BY <1>1, <1>2, <1>3, <1>4, <1>5 DEF Next, Uplink, Receive, Expire, Transmit, Request,
       Proceed

(* Nobody exits, the UplinkerThread goes on, and None is never queued.      *)
LEMMA ExcludedStep ==
    ASSUME Calm, TypeOK, Phase, Token, Excluded, Sources, [Next]_vars
    PROVE  Excluded'
<1> USE DEF TypeOK, ClientOK, CallPcs, CallArgs
<1>1. CASE UOuter
  BY <1>1 DEF UOuter, Excluded, jobs, threads, client
<1>2. CASE UGet
  <2>1. \A i \in 1 .. Len(queue') : queue'[i] # NoFile
    <3>1. queue \in Seq(Files \cup {NoFile}) /\ queue # <<>> /\ Head(queue) # NoFile
          /\ (queue' = Tail(queue) \/ queue' = Append(Tail(queue), Head(queue)))
      BY <1>2, TailFacts DEF UGet, Rest, JobsOK, Excluded
    <3>2. \A i \in 1 .. Len(queue) : queue[i] # NoFile
      BY DEF Excluded
    <3>3. /\ \A i \in 1 .. Len(Tail(queue)) : Tail(queue)[i] # NoFile
          /\ \A i \in 1 .. Len(Append(Tail(queue), Head(queue))) :
               Append(Tail(queue), Head(queue))[i] # NoFile
      <4> HIDE DEF TypeOK, ClientOK
      <4> QED
        BY <3>1, <3>2, NotInTail
    <3> QED
      BY <3>1, <3>3
  <2> QED
    BY <1>2, <2>1 DEF UGet, Excluded, client
<1>3. CASE UAcquire
  BY <1>3 DEF UAcquire, Excluded, jobs, threads, client
<1>4. CASE UStart
  BY <1>4 DEF UStart, Excluded, jobs, threads, client
<1>5. CASE USent
  BY <1>5 DEF USent, Excluded, jobs, threads, client
<1>6. CASE UWait
  BY <1>6 DEF UWait, Excluded, jobs, threads, client
<1>7. CASE REnd
  BY <1>7 DEF REnd, Excluded, jobs, threads, client
<1>8. CASE RStopTimer
  BY <1>8 DEF RStopTimer, Excluded, jobs, threads, client
<1>9. CASE RCancel
  BY <1>9 DEF RCancel, Excluded, jobs, threads, client
<1>10. CASE RNext
  BY <1>10 DEF RNext, Excluded, jobs, threads, client
<1>11. CASE RData
  BY <1>11 DEF RData, Excluded, jobs, threads, client
<1>12. CASE REof
  BY <1>12 DEF REof, Excluded, jobs, threads, client
<1>13. CASE TFire
  BY <1>13 DEF TFire, Excluded, jobs, threads, client
<1>14. CASE TFinish
  BY <1>14 DEF TFinish, Excluded, jobs, threads, client
<1>15. CASE TRelease
  BY <1>15 DEF TRelease, Excluded, jobs, threads, client
<1>16. CASE TMark
  BY <1>16 DEF TMark, Excluded, jobs, threads, client
<1>17. CASE Deliver
  BY <1>17 DEF Deliver, Excluded, jobs, threads, client
<1>18. CASE Lose
  BY <1>18 DEF Lose, Excluded, jobs, threads, client
<1>19. ASSUME NEW c \in Clients, NEW f \in Files, CEnqueue(c, f) PROVE Excluded'
  <2>1. \A i \in 1 .. Len(queue') : queue'[i] # NoFile
    BY <1>19, AppendFacts, ConstantsAssumption DEF CEnqueue, Put, Excluded, JobsOK
  <2> QED
    BY <1>19, <2>1 DEF CEnqueue, Enter, Goto, IdleCall, Excluded, threads
<1>20. ASSUME NEW c \in Clients, NEW p \in Paths, CCancelRemove(c, p) PROVE Excluded'
  BY <1>20 DEF CCancelRemove, Calls, Enter, Goto, IdleCall, Excluded, jobs, threads, client
<1>21. ASSUME NEW c \in Clients, CPause(c) PROVE Excluded'
  <2>1. "pause" \in Ops
    BY <1>21 DEF CPause, Calls
  <2> QED
    BY <1>21, <2>1 DEF CPause, Enter, Goto, IdleCall, Excluded, jobs, threads
<1>22. ASSUME NEW c \in Clients, CUnpause(c) PROVE Excluded'
  BY <1>22 DEF CUnpause, Calls, Goto, Excluded, jobs, threads, client
<1>23. ASSUME NEW c \in Clients, CAppend(c) PROVE Excluded'
  BY <1>23 DEF CAppend, Return, Enter, Goto, IdleCall, Excluded, jobs, threads, client
<1>24. ASSUME NEW c \in Clients, CCancel(c) PROVE Excluded'
  BY <1>24 DEF CCancel, Goto, Excluded, jobs, threads, client
<1>25. ASSUME NEW c \in Clients, CSetCanceled(c) PROVE Excluded'
  BY <1>25 DEF CSetCanceled, Goto, Excluded, jobs, threads, client
<1>26. ASSUME NEW c \in Clients, CPauseQueue(c) PROVE Excluded'
  BY <1>26 DEF CPauseQueue, Enter, Goto, IdleCall, Excluded, jobs, threads, client
<1>27. ASSUME NEW c \in Clients, CHold(c) PROVE Excluded'
  BY <1>27 DEF CHold, Goto, Excluded, jobs, threads, client
<1>28. ASSUME NEW c \in Clients, CResume(c) PROVE Excluded'
  BY <1>28 DEF CResume, Goto, Excluded, jobs, threads, client
<1>29. ASSUME NEW c \in Clients, CScanEnd(c) PROVE Excluded'
  BY <1>29 DEF CScanEnd, Return, Enter, Goto, IdleCall, Excluded, jobs, threads, client
<1>30. ASSUME NEW c \in Clients, CScanDrop(c) PROVE Excluded'
  <2>1. \A i \in 1 .. Len(queue') : queue'[i] # NoFile
    BY <1>30, NotInTail DEF CScanDrop, Rest, Excluded, JobsOK
  <2> QED
    BY <1>30, <2>1 DEF CScanDrop, Return, Enter, Goto, IdleCall, Excluded, threads
<1>31. ASSUME NEW c \in Clients, CScanTake(c) PROVE Excluded'
  <2>1. \A i \in 1 .. Len(queue') : queue'[i] # NoFile
    BY <1>31, NotInTail DEF CScanTake, Rest, Excluded, JobsOK
  <2> QED
    BY <1>31, <2>1 DEF CScanTake, Goto, Excluded, threads
<1>32. ASSUME NEW c \in Clients, CReplace(c) PROVE Excluded'
  <2>1. \A i \in 1 .. Len(queue') : queue'[i] # NoFile
    <3>1. call[c].found \in Files /\ queue' = Append(queue, call[c].found)
      BY <1>32 DEF CReplace, Put
    <3> QED
      BY <3>1, AppendFacts, ConstantsAssumption DEF Excluded, JobsOK
  <2> QED
    BY <1>32, <2>1 DEF CReplace, Goto, Excluded, threads
<1>33. CASE UNCHANGED vars
  BY <1>33 DEF vars, Excluded, jobs, threads, client
<1> QED
  BY Moves, <1>1, <1>2, <1>3, <1>4, <1>5, <1>6, <1>7, <1>8, <1>9, <1>10, <1>11, <1>12, <1>13,
     <1>14, <1>15, <1>16, <1>17, <1>18, <1>19, <1>20, <1>21, <1>22, <1>23, <1>24, <1>25, <1>26,
     <1>27, <1>28, <1>29, <1>30, <1>31, <1>32, <1>33

LEMMA PhaseFrame ==
    ASSUME Phase,
           UNCHANGED <<state, active, sequence, expected, armed, tpc, opened, ret, rpc,
                       link, hands, fsw, losses>>,
           upc' = "sent" <=> upc = "sent",
           \A c \in Clients : cpc'[c] = "setCanceled" => cpc[c] = "setCanceled"
    PROVE  Phase'
BY DEF Phase, Opening, Resting, Ending, Under, Threads, Waits, Sending, Silent, Answered,
       OnItsWay, Echoed, Lost

LEMMA PacketFields ==
    /\ \A n, p : StartPacket(n, p).type = "START" /\ StartPacket(n, p).seq = n
                 /\ StartPacket(n, p).path = p
    /\ \A n, p, k : DataPacket(n, p, k).type = "DATA" /\ DataPacket(n, p, k).seq = n
                    /\ DataPacket(n, p, k).path = p
    /\ \A n, p, b : EndPacket(n, p, b).type = "END" /\ EndPacket(n, p, b).seq = n
                    /\ EndPacket(n, p, b).path = p /\ EndPacket(n, p, b).body = b
    /\ \A n : CancelPacket(n).type = "CANCEL" /\ CancelPacket(n).seq = n
BY DEF StartPacket, DataPacket, EndPacket, CancelPacket

LEMMA PhaseStep ==
    ASSUME Calm, TypeOK, OneWindow, Phase, Token, Excluded, Sources, [Next]_vars
    PROVE  Phase'
<1> USE DEF TypeOK, ClientOK, CallPcs, CallArgs
<1>1. CASE UOuter
  BY <1>1, PhaseFrame DEF UOuter, engine, timer, disk, jobs, threads, client, wire, bounds
<1>2. CASE UGet
  BY <1>2, PhaseFrame DEF UGet, engine, timer, disk, jobs, threads, client, wire, bounds
<1>3. CASE UAcquire
  BY <1>3, PhaseFrame DEF UAcquire, engine, timer, disk, jobs, threads, client, wire, bounds
<1>4. CASE UStart
  <2>1. /\ upc = "start" /\ upc' = "sent" /\ state = "IDLE" /\ state' = "RUNNING"
        /\ active' = ufile
        /\ ufile \in Files /\ opened' = opened \cup {ufile}
        /\ ret' = StartPacket(sequence, Source[ufile]) /\ link' = Append(link, ret')
        /\ sequence' = sequence + 1 /\ UNCHANGED <<rpc, tpc, hands, cpc>>
    BY <1>4 DEF UStart, Push, ThreadsOK, timer, client
  <2>2. rpc # "stopTimer" /\ tpc = "idle" /\ ClientsSlow
    BY <1>4, OutOfWindows DEF UStart, Calm, Gentle
  <2>3. link = <<>> /\ hands = <<>> /\ sequence = 0 /\ rpc = "idle"
    BY <2>1, <2>2 DEF Phase, Resting, Silent
  <2>4. link' = <<ret'>>
    BY <2>1, <2>3
  <2>5. Opening' /\ Resting' /\ Ending' /\ Under'
    BY <2>1, <2>2, <2>3, <2>4 DEF Opening, Resting, Ending, Under
  <2>6. Threads'
    BY <2>1, <2>2, <2>3 DEF Threads, Sending, ClientsSlow, Quick
  <2> QED
    BY <2>5, <2>6 DEF Phase
<1>5. CASE USent
  <2>1. /\ upc = "sent" /\ upc' = "wait" /\ expected' = ret /\ armed' = TRUE
        /\ ret' = NoPacket
        /\ UNCHANGED <<state, active, sequence, tpc, rpc, opened, cpc, link, hands, fsw,
                       losses>>
    BY <1>5 DEF USent, Expect, disk, client, wire, bounds
  <2>2. /\ state = "RUNNING" /\ ret = StartPacket(0, Source[active]) /\ sequence = 1
        /\ link = <<ret>> /\ hands = <<>> /\ rpc = "idle" /\ tpc = "idle"
    BY <2>1 DEF Phase, Opening
  <2>3. Under'
    BY <2>1, <2>2, PacketFields DEF Under, Waits, OnItsWay
  <2>4. Opening' /\ Resting' /\ Ending' /\ Threads'
    BY <2>1, <2>2 DEF Phase, Opening, Resting, Ending, Threads, Sending
  <2> QED
    BY <2>3, <2>4 DEF Phase
<1>6. CASE UWait
  BY <1>6, PhaseFrame DEF UWait, engine, timer, disk, jobs, threads, client, wire, bounds
<1>7. CASE REnd
  <2>1. hands = <<expected>> /\ link = <<>> /\ upc # "sent" /\ tpc = "idle" /\ ClientsSlow
        /\ state = "END_WAIT"
    BY <1>7, HandsExpected, OutOfWindows DEF REnd, Take, Calm, Gentle
  <2>2. /\ state' = "IDLE" /\ rpc' = "stopTimer" /\ hands' = <<>> /\ link' = <<>>
        /\ UNCHANGED <<active, sequence, expected, armed, tpc, opened, upc, cpc, fsw, losses>>
    BY <1>7, <2>1 DEF REnd, Take, timer, client, bounds
  <2> QED
    BY <2>1, <2>2 DEF Phase, Opening, Resting, Ending, Under, Threads, Sending, Silent,
         ClientsSlow, Quick
<1>8. CASE RStopTimer
  <2>1. /\ rpc = "stopTimer" /\ rpc' = "idle" /\ armed' = FALSE
        /\ UNCHANGED <<state, active, sequence, expected, tpc, opened, upc, ret, cpc, link,
                       hands, fsw, losses>>
    BY <1>8 DEF RStopTimer, engine, disk, client, wire, bounds
  <2>2. state = "IDLE" /\ tpc = "idle" /\ upc # "sent"
    BY <2>1 DEF Phase, Threads, OneWindow
  <2> QED
    BY <2>1, <2>2 DEF Phase, Opening, Resting, Ending, Under, Threads, Sending, Silent
<1>9. CASE RCancel
  <2>1. hands = <<expected>> /\ link = <<>> /\ upc # "sent" /\ tpc = "idle" /\ rpc = "idle"
        /\ ClientsSlow /\ state = "CANCELED"
    BY <1>9, HandsExpected, OutOfWindows DEF RCancel, Take, Calm, Gentle
  <2>2. /\ state' = "END_WAIT" /\ hands' = <<>> /\ link' = <<expected'>> /\ armed' = TRUE
        /\ sequence' = 0
        /\ expected'.type = "CANCEL" /\ UNCHANGED <<active, tpc, rpc, upc, cpc>>
    BY <1>9, <2>1, PacketFields DEF RCancel, Take, Expect, Close, threads, client
  <2> QED
    BY <2>1, <2>2 DEF Phase, Opening, Resting, Ending, Under, Threads, Sending, OnItsWay,
         ClientsSlow, Quick
<1>10. CASE RNext
  <2>1. hands = <<expected>> /\ link = <<>> /\ upc # "sent" /\ tpc = "idle" /\ rpc = "idle"
        /\ ClientsSlow /\ state = "RUNNING" /\ armed /\ Answered
    BY <1>10, HandsExpected, OutOfWindows DEF RNext, Take, Calm, Gentle
  <2>2. /\ rpc' = "read" /\ hands' = <<>> /\ link' = <<>>
        /\ UNCHANGED <<state, active, sequence, expected, armed, tpc, opened, upc, cpc, fsw,
                       losses>>
    BY <1>10, <2>1 DEF RNext, Take, engine, timer, disk, client, bounds
  <2>3. Under'
    BY <2>1, <2>2 DEF Phase, Under, Waits, Sending, Silent, Answered
  <2>4. Opening' /\ Resting' /\ Ending' /\ Threads'
    BY <2>1, <2>2 DEF Phase, Opening, Resting, Ending, Threads, Sending, ClientsSlow, Quick
  <2> QED
    BY <2>3, <2>4 DEF Phase
<1>11. CASE RData
  <2>1. /\ Sending /\ upc # "sent" /\ rpc = "read" /\ tpc = "idle" /\ link = <<>>
        /\ hands = <<>> /\ ClientsSlow
        /\ state \in {"RUNNING", "CANCELED"}
    BY <1>11, OutOfWindows DEF RData, Calm, Gentle, Phase, Threads, Under, Waits, Silent,
       Sending
  <2>2. /\ sequence' = sequence + 1 /\ rpc' = "idle" /\ armed' = TRUE
        /\ link' = <<expected'>> /\ hands' = <<>>
        /\ expected'.type = "DATA" /\ expected'.seq = sequence
        /\ expected'.path = Source[active]
        /\ UNCHANGED <<state, active, tpc, opened, upc, cpc>>
    BY <1>11, <2>1, PacketFields DEF RData, Push, Expect, client
  <2>3. Under'
    BY <2>1, <2>2 DEF Under, Waits, OnItsWay
  <2>4. Opening' /\ Resting' /\ Ending' /\ Threads'
    BY <2>1, <2>2 DEF Phase, Opening, Resting, Ending, Threads, Sending, ClientsSlow, Quick
  <2> QED
    BY <2>3, <2>4 DEF Phase
<1>12. CASE REof
  <2>1. /\ Sending /\ upc # "sent" /\ rpc = "read" /\ tpc = "idle" /\ link = <<>>
        /\ hands = <<>> /\ ClientsSlow
        /\ state \in {"RUNNING", "CANCELED"}
    BY <1>12, OutOfWindows DEF REof, Calm, Gentle, Phase, Threads, Under, Waits, Silent, Sending
  <2>2. /\ sequence' = 0 /\ rpc' = "idle" /\ armed' = TRUE /\ link' = <<expected'>>
        /\ hands' = <<>>
        /\ state' = "END_WAIT" /\ expected'.type = "END"
        /\ UNCHANGED <<active, tpc, upc, cpc>>
    BY <1>12, <2>1, PacketFields DEF REof, Push, Expect, Close, client
  <2> QED
    BY <2>1, <2>2 DEF Phase, Opening, Resting, Ending, Under, Threads, Sending, OnItsWay,
         ClientsSlow, Quick
<1>13. CASE TFire
  <2>1. /\ armed /\ tpc = "idle" /\ link = <<>> /\ hands = <<>> /\ rpc = "idle" /\ MayStart
        /\ tpc' = "finish" /\ armed' = FALSE
        /\ UNCHANGED <<state, active, sequence, expected, opened, upc, ret, rpc, cpc, link,
                       hands, fsw, losses>>
    BY <1>13 DEF TFire, Quiet, Calm, Gentle, MayStart, engine, disk, threads, client, wire,
       bounds
  <2>2. upc # "sent" /\ ClientsSlow
    BY <2>1, OutOfWindows DEF Calm, Gentle
  <2>3. state # "IDLE" /\ state # "END_WAIT"
    BY <2>1 DEF Phase, Resting, Ending, OnItsWay, Echoed
  <2>4. Sending
    BY <2>3 DEF Sending, EngineOK
  <2>5. Lost
    BY <2>1, <2>2, <2>4 DEF Phase, Under, Waits, OnItsWay, Echoed
  <2>6. Under'
    BY <2>1, <2>2, <2>4, <2>5 DEF Phase, Under, Waits, Sending, Lost, Silent
  <2>7. Opening' /\ Resting' /\ Ending' /\ Threads'
    BY <2>1, <2>2, <2>3, <2>4 DEF Phase, Opening, Resting, Ending, Threads, Sending
  <2> QED
    BY <2>6, <2>7 DEF Phase
<1>14. CASE TFinish
  <2>1. /\ tpc = "finish" /\ Sending /\ active \in Files
        /\ state' = "END_WAIT" /\ sequence' = 0
        /\ UNCHANGED <<active, rpc, upc, cpc, link, hands, losses>>
    BY <1>14 DEF TFinish, Close, Phase, Threads, Sending, threads, client, wire, bounds
  <2>2. Source[active] \in onDisk
    BY <2>1 DEF Sources, Live
  <2>3. tpc' = "release" /\ upc # "sent" /\ ClientsSlow
    BY <1>14, <2>1, <2>2 DEF TFinish, OneWindow
  <2>4. rpc = "idle" /\ Lost
    BY <2>1, <2>3 DEF Phase, Under, Waits
  <2> QED
    BY <2>1, <2>3, <2>4 DEF Phase, Opening, Resting, Ending, Under, Threads, Sending, Lost,
         Silent, ClientsSlow, Quick
<1>15. CASE TRelease
  <2>1. /\ tpc = "release" /\ tpc' = "mark" /\ state' = "IDLE"
        /\ UNCHANGED <<active, sequence, armed, rpc, upc, cpc, link, hands, losses>>
    BY <1>15 DEF TRelease, threads, client, wire, bounds
  <2>2. state = "END_WAIT" /\ upc # "sent" /\ ClientsSlow /\ active \in Files
    BY <2>1 DEF Phase, Threads, OneWindow
  <2>3. sequence = 0 /\ rpc = "idle" /\ Lost
    BY <2>1, <2>2 DEF Phase, Ending
  <2> QED
    BY <2>1, <2>2, <2>3 DEF Phase, Opening, Resting, Ending, Under, Threads, Sending, Lost,
         Silent, ClientsSlow, Quick
<1>16. CASE TMark
  <2>1. /\ tpc = "mark" /\ tpc' = "idle" /\ armed' = FALSE
        /\ UNCHANGED <<state, active, sequence, rpc, upc, cpc, link, hands>>
    BY <1>16 DEF TMark, engine, threads, client, wire
  <2>2. state = "IDLE" /\ upc # "sent" /\ ClientsSlow
    BY <2>1 DEF Phase, Threads, OneWindow
  <2>3. sequence = 0 /\ rpc \in {"idle", "stopTimer"} /\ Silent
    BY <2>1, <2>2 DEF Phase, Resting
  <2> QED
    BY <2>1, <2>2, <2>3 DEF Phase, Opening, Resting, Ending, Under, Threads, Sending, Silent,
         ClientsSlow, Quick
<1>17. CASE Deliver
  <2>1. /\ upc # "sent" /\ tpc = "idle" /\ ClientsSlow /\ link # <<>> /\ rpc # "stopTimer"
        /\ link' = Tail(link) /\ fsw' = Append(fsw, Head(link))
        /\ hands' = Append(hands, Head(link))
        /\ UNCHANGED <<state, active, sequence, expected, armed, tpc, opened, upc, ret, rpc,
                       cpc, losses>>
    BY <1>17, OutOfWindows DEF Deliver, Calm, Gentle, engine, timer, disk, threads, client,
       bounds
  <2>2. state # "IDLE" /\ OnItsWay
    <3>1. state # "IDLE"
      BY <2>1 DEF Phase, Resting, Silent
    <3>2. CASE state = "END_WAIT"
      BY <2>1, <3>2 DEF Phase, Ending, Echoed, Lost, Silent
    <3>3. CASE Sending
      BY <2>1, <3>3 DEF Phase, Under, Waits, Echoed, Lost, Silent, Sending
    <3> QED
      BY <3>1, <3>2, <3>3 DEF Sending, EngineOK
  <2>3. Echoed'
    <3>1. link = <<expected>> /\ hands = <<>> /\ fsw \in Seq(Packets) /\ link \in Seq(Packets)
      BY <2>2 DEF OnItsWay, WireOK
    <3>2. link' = <<>> /\ hands' = <<expected>> /\ fsw' = Append(fsw, expected)
      BY <2>1, <3>1
    <3>3. fsw' # <<>> /\ Len(fsw') = Len(fsw) + 1 /\ fsw'[Len(fsw) + 1] = expected
      BY <3>1, <3>2
    <3> QED
      BY <2>1, <3>2, <3>3 DEF Echoed, Answered
  <2>4. rpc # "read"
    BY <2>1, <2>2 DEF Phase, Under, Waits, Threads, Silent, OnItsWay
  <2> QED
    BY <2>1, <2>2, <2>3, <2>4 DEF Phase, Opening, Resting, Ending, Under, Waits, Threads,
         Sending, OnItsWay, Lost, Silent
<1>18. CASE Lose
  <2>1. /\ upc # "sent" /\ tpc = "idle" /\ ClientsSlow /\ link # <<>> /\ rpc # "stopTimer"
        /\ link' = Tail(link) /\ Head(link).type \in Lossy /\ losses' = losses + 1
        /\ UNCHANGED <<state, active, sequence, expected, armed, tpc, opened, upc, ret, rpc,
                       cpc, hands, fsw>>
    BY <1>18, OutOfWindows DEF Lose, Calm, Gentle, engine, timer, disk, threads, client, bounds
  <2>2. state # "IDLE" /\ state # "END_WAIT" /\ Sending /\ OnItsWay
    <3>1. state # "IDLE"
      BY <2>1 DEF Phase, Resting, Silent
    <3>2. CASE state = "END_WAIT"
      <4>1. link = <<expected>> /\ expected.type \in {"END", "CANCEL"}
        BY <2>1, <3>2 DEF Phase, Ending, OnItsWay, Echoed, Lost, Silent
      <4> QED
        BY <2>1, <4>1 DEF Calm, Gentle
    <3>3. CASE Sending
      BY <2>1, <3>3 DEF Phase, Under, Waits, Echoed, Lost, Silent, Sending
    <3> QED
      BY <3>1, <3>2, <3>3 DEF Sending, EngineOK
  <2>3. Lost' /\ rpc = "idle" /\ armed
    BY <2>1, <2>2 DEF Phase, Under, Waits, OnItsWay, Lost, Silent, BoundsOK
  <2> QED
    BY <2>1, <2>2, <2>3 DEF Phase, Opening, Resting, Ending, Under, Waits, Threads, Sending,
         Lost, Silent
<1>19. ASSUME NEW c \in Clients, NEW f \in Files, CEnqueue(c, f) PROVE Phase'
  BY <1>19, PhaseFrame DEF CEnqueue, Enter, Goto, engine, timer, disk, jobs, threads, client,
       wire, bounds
<1>20. ASSUME NEW c \in Clients, NEW p \in Paths, CCancelRemove(c, p) PROVE Phase'
  BY <1>20, PhaseFrame DEF CCancelRemove, Calls, Enter, Goto, engine, timer, disk, jobs,
       threads, client, wire, bounds
<1>21. ASSUME NEW c \in Clients, CPause(c) PROVE Phase'
  BY <1>21, PhaseFrame DEF CPause, Calls, Enter, Goto, engine, timer, disk, jobs, threads,
       client, wire, bounds
<1>22. ASSUME NEW c \in Clients, CUnpause(c) PROVE Phase'
  BY <1>22, PhaseFrame DEF CUnpause, Calls, Goto, engine, timer, disk, jobs, threads, client,
       wire, bounds
<1>23. ASSUME NEW c \in Clients, CAppend(c) PROVE Phase'
  BY <1>23, PhaseFrame DEF CAppend, Return, Enter, Goto, engine, timer, disk, jobs, threads,
       client, wire, bounds
<1>24. ASSUME NEW c \in Clients, CCancel(c) PROVE Phase'
  <2>1. UNCHANGED <<state, active, sequence, expected, armed, tpc, opened, upc, ret, rpc,
                    link, hands, fsw, losses>>
    BY <1>24 DEF CCancel, engine, timer, disk, threads, wire, bounds
  <2>2. Threads'
    BY <1>24, <2>1 DEF CCancel, Goto, Phase, Threads, Sending
  <2> QED
    BY <2>1, <2>2 DEF Phase, Opening, Resting, Ending, Under, Waits, Sending, Silent,
         Answered, OnItsWay, Echoed, Lost
<1>25. ASSUME NEW c \in Clients, CSetCanceled(c) PROVE Phase'
  <2>1. /\ cpc[c] = "setCanceled" /\ cpc' = [cpc EXCEPT ![c] = call[c].next]
        /\ state' = "CANCELED"
        /\ UNCHANGED <<active, sequence, expected, armed, tpc, opened, upc, ret, rpc, link,
                       hands, fsw, losses>>
    BY <1>25 DEF CSetCanceled, Goto, timer, threads, wire, bounds
  <2>2. state = "RUNNING" /\ upc # "sent" /\ rpc # "stopTimer" /\ tpc = "idle"
        /\ \A d \in Clients : d # c => cpc[d] \notin Quick
    BY <2>1 DEF Phase, Threads, OneWindow, ClientsSlow, Quick
  <2>3. Under'
    BY <2>1, <2>2 DEF Phase, Under, Waits, Sending, Silent, Answered, OnItsWay, Echoed, Lost
  <2>4. Opening' /\ Resting' /\ Ending' /\ Threads'
    BY <2>1, <2>2 DEF Phase, Opening, Resting, Ending, Threads, Sending, Quick
  <2> QED
    BY <2>3, <2>4 DEF Phase
<1>26. ASSUME NEW c \in Clients, CPauseQueue(c) PROVE Phase'
  BY <1>26, PhaseFrame DEF CPauseQueue, Enter, Goto, engine, timer, disk, jobs, threads,
       client, wire, bounds
<1>27. ASSUME NEW c \in Clients, CHold(c) PROVE Phase'
  BY <1>27, PhaseFrame DEF CHold, Goto, engine, timer, disk, jobs, threads, client, wire,
       bounds
<1>28. ASSUME NEW c \in Clients, CResume(c) PROVE Phase'
  BY <1>28, PhaseFrame DEF CResume, Goto, engine, timer, disk, jobs, threads, client, wire,
       bounds
<1>29. ASSUME NEW c \in Clients, CScanEnd(c) PROVE Phase'
  BY <1>29, PhaseFrame DEF CScanEnd, Return, Enter, Goto, engine, timer, disk, jobs, threads,
       client, wire, bounds
<1>30. ASSUME NEW c \in Clients, CScanDrop(c) PROVE Phase'
  BY <1>30, PhaseFrame DEF CScanDrop, Return, Enter, Goto, engine, timer, disk, jobs,
       threads, client, wire, bounds
<1>31. ASSUME NEW c \in Clients, CScanTake(c) PROVE Phase'
  BY <1>31, PhaseFrame DEF CScanTake, Goto, engine, timer, disk, jobs, threads, client, wire,
       bounds
<1>32. ASSUME NEW c \in Clients, CReplace(c) PROVE Phase'
  BY <1>32, PhaseFrame DEF CReplace, Goto, engine, timer, disk, jobs, threads, client, wire,
       bounds
<1>33. CASE UNCHANGED vars
  BY <1>33, PhaseFrame DEF vars, engine, timer, disk, jobs, threads, client, wire, bounds
<1> QED
  BY Moves, <1>1, <1>2, <1>3, <1>4, <1>5, <1>6, <1>7, <1>8, <1>9, <1>10, <1>11, <1>12, <1>13,
     <1>14, <1>15, <1>16, <1>17, <1>18, <1>19, <1>20, <1>21, <1>22, <1>23, <1>24, <1>25, <1>26,
     <1>27, <1>28, <1>29, <1>30, <1>31, <1>32, <1>33

(* No source is needed that was not, and none is removed.                   *)
LEMMA SourcesFrame ==
    ASSUME Sources, onDisk \subseteq onDisk', \A f \in Files : Live(f)' => Live(f)
    PROVE  Sources'
<1>1. ASSUME NEW f \in Files, Live(f)'
      PROVE  Source[f] \in onDisk'
  BY <1>1 DEF Sources
<1>2. ASSUME NEW f \in Files, Live(f)', NEW g \in Files, Live(g)', Source[g] = Source[f]
      PROVE  f = g
  BY <1>2 DEF Sources
<1> QED
  BY <1>1, <1>2 DEF Sources

LEMMA SourcesStay ==
    ASSUME Sources, UNCHANGED <<queue, ufile, active, onDisk>>,
           ThreadHolds' => ThreadHolds, Sending' => Sending,
           \A c \in Clients : cpc'[c] = "replace" =>
               cpc[c] = "replace" /\ call'[c].found = call[c].found
    PROVE  Sources'
<1>1. \A f \in Files : Live(f)' => Live(f)
  BY DEF Live, InQueue
<1> QED
  BY <1>1, SourcesFrame

(* What is in a part of the queue is in the queue.                          *)
LEMMA StaysQueued ==
    ASSUME TypeOK, queue # <<>>, NEW f, InQueue(f)',
           queue' = Tail(queue) \/ queue' = Append(Tail(queue), Head(queue))
    PROVE  InQueue(f)
<1>1. queue \in Seq(Files \cup {NoFile})
  BY DEF TypeOK, JobsOK
<1>2. (\A i \in 1 .. Len(queue) : queue[i] # f) =>
          /\ \A i \in 1 .. Len(Tail(queue)) : Tail(queue)[i] # f
          /\ \A i \in 1 .. Len(Append(Tail(queue), Head(queue))) :
               Append(Tail(queue), Head(queue))[i] # f
  BY <1>1, NotInTail
<1> QED
  BY <1>2 DEF InQueue

(* finish() removes the source of the active file and of no other.          *)
LEMMA SourcesClose ==
    ASSUME TypeOK, PlaceInv, Sources, Sending, active \in Files, Close,
           UNCHANGED <<active, queue, upc, ufile, cpc, call>>
    PROVE  Sources'
<1>1. ~Sending' /\ onDisk' = onDisk \ {Source[active]}
  BY DEF Close, Sending
<1>2. Live(active) /\ Started(active)
  BY ConstantsAssumption DEF Live, PlaceInv, ActiveStarted
<1>3. ASSUME NEW f \in Files, Live(f)'
      PROVE  Live(f) /\ fstate[f] = "QUEUED"
  <2>1. CASE InQueue(f)'
    <3>1. PICK i \in 1 .. Len(queue) : queue[i] = f
      BY <2>1 DEF InQueue
    <3> QED
      BY <3>1, ConstantsAssumption DEF Live, InQueue, PlaceInv, QueueWaits
  <2>2. CASE ThreadHolds' /\ ufile' = f
    BY <2>2 DEF Live, ThreadHolds, PlaceInv, ThreadAlone
  <2>3. CASE \E c \in Clients : cpc'[c] = "replace" /\ call'[c].found = f
    BY <2>3 DEF Live, PlaceInv, ClientAlone
  <2> QED
    BY <1>1, <1>3, <2>1, <2>2, <2>3 DEF Live
<1>4. ASSUME NEW f \in Files, Live(f)'
      PROVE  Source[f] # Source[active]
  BY <1>2, <1>3, <1>4 DEF Sources, Started
<1>5. ASSUME NEW f \in Files, Live(f)'
      PROVE  Source[f] \in onDisk'
  BY <1>1, <1>3, <1>4, <1>5 DEF Sources
<1>6. ASSUME NEW f \in Files, Live(f)', NEW g \in Files, Live(g)', Source[g] = Source[f]
      PROVE  f = g
  BY <1>3, <1>6 DEF Sources
<1> QED
  BY <1>5, <1>6 DEF Sources

(* Of the files that wait or are sent each has its own source on disk.     *)
LEMMA SourcesStep ==
    ASSUME Calm, TypeOK, PlaceInv, Phase, Token, Excluded, Sources, [Next]_vars
    PROVE  Sources'
<1> USE DEF TypeOK, ClientOK, CallPcs, CallArgs
<1>1. CASE UOuter
  BY <1>1, SourcesStay DEF UOuter, ThreadHolds, Sending, engine, timer, disk, jobs, threads,
       client
<1>2. CASE UGet
  <2>1. /\ UNCHANGED <<active, state, onDisk, cpc, call>> /\ queue # <<>>
        /\ \/ queue' = Append(Tail(queue), Head(queue)) /\ upc' = "outer"
           \/ queue' = Tail(queue) /\ ufile' = Head(queue)
    BY <1>2 DEF UGet, Rest, engine, disk, client
  <2>2. InQueue(Head(queue))
    BY <2>1, TailFacts DEF InQueue, JobsOK
  <2>3. \A f \in Files : Live(f)' => Live(f)
    BY <2>1, <2>2, StaysQueued DEF Live, Sending, ThreadHolds
  <2> QED
    BY <2>1, <2>3, SourcesFrame
<1>3. CASE UAcquire
  BY <1>3, SourcesStay DEF UAcquire, ThreadHolds, Sending, engine, timer, disk, jobs,
       threads, client
<1>4. CASE UStart
  <2>1. /\ upc = "start" /\ upc' = "sent" /\ active' = ufile
        /\ UNCHANGED <<queue, cpc, call, onDisk>>
    BY <1>4 DEF UStart, jobs, client
  <2>2. \A f \in Files : Live(f)' => Live(f)
    BY <2>1 DEF Live, InQueue, ThreadHolds
  <2> QED
    BY <2>1, <2>2, SourcesFrame
<1>5. CASE USent
  BY <1>5, SourcesStay DEF USent, ThreadHolds, Sending, engine, timer, disk, jobs, threads,
       client
<1>6. CASE UWait
  BY <1>6, SourcesStay DEF UWait, ThreadHolds, Sending, engine, timer, disk, jobs, threads,
       client
<1>7. CASE REnd
  BY <1>7, SourcesStay DEF REnd, ThreadHolds, Sending, engine, timer, disk, jobs, threads,
       client
<1>8. CASE RStopTimer
  BY <1>8, SourcesStay DEF RStopTimer, ThreadHolds, Sending, engine, timer, disk, jobs,
       threads, client
<1>9. CASE RCancel
  <2>1. Sending /\ active \in Files /\ Close /\ UNCHANGED <<active, queue, upc, ufile, cpc,
                                                            call>>
    BY <1>9 DEF RCancel, Sending, Phase, Threads, jobs, threads, client
  <2> QED
    BY <2>1, SourcesClose
<1>10. CASE RNext
  BY <1>10, SourcesStay DEF RNext, ThreadHolds, Sending, engine, timer, disk, jobs, threads,
       client
<1>11. CASE RData
  BY <1>11, SourcesStay DEF RData, ThreadHolds, Sending, engine, timer, disk, jobs, threads,
       client
<1>12. CASE REof
  <2>1. Sending /\ active \in Files /\ Close /\ UNCHANGED <<active, queue, upc, ufile, cpc,
                                                            call>>
    BY <1>12 DEF REof, Sending, Phase, Threads, jobs, client
  <2> QED
    BY <2>1, SourcesClose
<1>13. CASE TFire
  BY <1>13, SourcesStay DEF TFire, ThreadHolds, Sending, engine, timer, disk, jobs, threads,
       client
<1>14. CASE TFinish
  <2>1. Sending /\ active \in Files /\ Close /\ UNCHANGED <<active, queue, upc, ufile, cpc,
                                                            call>>
    BY <1>14 DEF TFinish, Sending, Phase, Threads, jobs, threads, client
  <2> QED
    BY <2>1, SourcesClose
<1>15. CASE TRelease
  BY <1>15, SourcesStay DEF TRelease, ThreadHolds, Sending, engine, timer, disk, jobs,
       threads, client
<1>16. CASE TMark
  BY <1>16, SourcesStay DEF TMark, ThreadHolds, Sending, engine, timer, disk, jobs, threads,
       client
<1>17. CASE Deliver
  BY <1>17, SourcesStay DEF Deliver, ThreadHolds, Sending, engine, timer, disk, jobs,
       threads, client
<1>18. CASE Lose
  BY <1>18, SourcesStay DEF Lose, ThreadHolds, Sending, engine, timer, disk, jobs, threads,
       client
<1>19. ASSUME NEW c \in Clients, NEW f \in Files, CEnqueue(c, f) PROVE Sources'
  <2>1. /\ Source[f] \notin onDisk /\ onDisk' = onDisk \cup {Source[f]}
        /\ queue' = Append(queue, f)
        /\ UNCHANGED <<upc, ufile, state, active>>
        /\ \A d \in Clients : cpc'[d] = "replace" => cpc[d] = "replace" /\ call'[d] = call[d]
    BY <1>19 DEF CEnqueue, FreeName, Put, Enter, Goto, threads, engine
  <2>2. \A g \in Files : InQueue(g)' => InQueue(g) \/ g = f
    BY <2>1, AppendFacts, ConstantsAssumption DEF InQueue, JobsOK
  <2>3. \A g \in Files : Live(g)' => Live(g) \/ g = f
    BY <2>1, <2>2 DEF Live, ThreadHolds, Sending
  <2>4. ~Live(f)
    BY <2>1 DEF Sources
  <2>5. \A g \in Files : Live(g) => Source[g] \in onDisk /\ Source[g] # Source[f]
    BY <2>1 DEF Sources
  <2>6. ASSUME NEW g \in Files, Live(g)'
        PROVE  Source[g] \in onDisk'
    BY <2>1, <2>3, <2>5, <2>6
  <2>7. ASSUME NEW g \in Files, Live(g)', NEW h \in Files, Live(h)', Source[h] = Source[g]
        PROVE  g = h
    BY <2>3, <2>5, <2>7 DEF Sources
  <2> QED
    BY <2>6, <2>7 DEF Sources
<1>20. ASSUME NEW c \in Clients, NEW p \in Paths, CCancelRemove(c, p) PROVE Sources'
  BY <1>20, SourcesStay DEF CCancelRemove, Calls, Enter, Goto, IdleCall, ThreadHolds,
       Sending, engine, timer, disk, jobs, threads, client
<1>21. ASSUME NEW c \in Clients, CPause(c) PROVE Sources'
  BY <1>21, SourcesStay DEF CPause, Calls, Enter, Goto, IdleCall, ThreadHolds, Sending,
       engine, timer, disk, jobs, threads, client
<1>22. ASSUME NEW c \in Clients, CUnpause(c) PROVE Sources'
  BY <1>22, SourcesStay DEF CUnpause, Calls, Goto, ThreadHolds, Sending, engine, timer, disk,
       jobs, threads, client
<1>23. ASSUME NEW c \in Clients, CAppend(c) PROVE Sources'
  BY <1>23, SourcesStay DEF CAppend, Return, Enter, Goto, IdleCall, ThreadHolds, Sending,
       engine, timer, disk, jobs, threads, client
<1>24. ASSUME NEW c \in Clients, CCancel(c) PROVE Sources'
  BY <1>24, SourcesStay DEF CCancel, Goto, ThreadHolds, Sending, engine, timer, disk, jobs,
       threads, client
<1>25. ASSUME NEW c \in Clients, CSetCanceled(c) PROVE Sources'
  <2>1. Sending
    BY <1>25 DEF CSetCanceled, Phase, Threads, Sending
  <2>2. cpc[c] = "setCanceled" /\ call[c].next # "replace" /\ cpc' = [cpc EXCEPT ![c] = call[c].next]
        /\ UNCHANGED <<queue, upc, ufile, active, onDisk, call>>
    BY <1>25 DEF CSetCanceled, Goto, jobs, threads
  <2> QED
    BY <2>1, <2>2, SourcesStay DEF ThreadHolds
<1>26. ASSUME NEW c \in Clients, CPauseQueue(c) PROVE Sources'
  BY <1>26, SourcesStay DEF CPauseQueue, Enter, Goto, IdleCall, ThreadHolds, Sending, engine,
       timer, disk, jobs, threads, client
<1>27. ASSUME NEW c \in Clients, CHold(c) PROVE Sources'
  BY <1>27, SourcesStay DEF CHold, Goto, ThreadHolds, Sending, engine, timer, disk, jobs,
       threads, client
<1>28. ASSUME NEW c \in Clients, CResume(c) PROVE Sources'
  BY <1>28, SourcesStay DEF CResume, Goto, ThreadHolds, Sending, engine, timer, disk, jobs,
       threads, client
<1>29. ASSUME NEW c \in Clients, CScanEnd(c) PROVE Sources'
  BY <1>29, SourcesStay DEF CScanEnd, Return, Enter, Goto, IdleCall, ThreadHolds, Sending,
       engine, timer, disk, jobs, threads, client
<1>30. ASSUME NEW c \in Clients, CScanDrop(c) PROVE Sources'
  <2>1. /\ queue # <<>> /\ queue' = Tail(queue)
        /\ UNCHANGED <<upc, ufile, state, active, onDisk>>
        /\ \A d \in Clients : cpc'[d] = "replace" => cpc[d] = "replace" /\ call'[d] = call[d]
    BY <1>30 DEF CScanDrop, Rest, Return, Enter, Goto, threads, engine, disk
  <2>2. \A f \in Files : Live(f)' => Live(f)
    BY <2>1, StaysQueued DEF Live, Sending, ThreadHolds
  <2> QED
    BY <2>1, <2>2, SourcesFrame
<1>31. ASSUME NEW c \in Clients, CScanTake(c) PROVE Sources'
  <2>1. /\ queue # <<>> /\ queue' = Tail(queue) /\ call'[c].found = Head(queue)
        /\ UNCHANGED <<upc, ufile, state, active, onDisk>>
        /\ \A d \in Clients : d # c => cpc'[d] = cpc[d] /\ call'[d] = call[d]
    BY <1>31 DEF CScanTake, Rest, Goto, threads, engine, disk
  <2>2. InQueue(Head(queue))
    BY <2>1, TailFacts DEF InQueue, JobsOK
  <2>3. \A f \in Files : Live(f)' => Live(f)
    BY <2>1, <2>2, StaysQueued DEF Live, Sending, ThreadHolds
  <2> QED
    BY <2>1, <2>3, SourcesFrame
<1>32. ASSUME NEW c \in Clients, CReplace(c) PROVE Sources'
  <2>1. /\ cpc[c] = "replace" /\ queue' = Append(queue, call[c].found)
        /\ call[c].found \in Files
        /\ UNCHANGED <<upc, ufile, state, active, onDisk, call>>
        /\ \A d \in Clients : cpc'[d] = "replace" => cpc[d] = "replace"
    BY <1>32 DEF CReplace, Put, Goto, threads, engine, disk
  <2>2. \A g \in Files : InQueue(g)' => InQueue(g) \/ g = call[c].found
    BY <2>1, AppendFacts, ConstantsAssumption DEF InQueue, JobsOK
  <2>3. \A f \in Files : Live(f)' => Live(f)
    BY <2>1, <2>2 DEF Live, Sending, ThreadHolds
  <2> QED
    BY <2>1, <2>3, SourcesFrame
<1>33. CASE UNCHANGED vars
  BY <1>33, SourcesStay DEF vars, ThreadHolds, Sending, engine, disk, jobs, threads, client
<1> QED
  BY Moves, <1>1, <1>2, <1>3, <1>4, <1>5, <1>6, <1>7, <1>8, <1>9, <1>10, <1>11, <1>12, <1>13,
     <1>14, <1>15, <1>16, <1>17, <1>18, <1>19, <1>20, <1>21, <1>22, <1>23, <1>24, <1>25, <1>26,
     <1>27, <1>28, <1>29, <1>30, <1>31, <1>32, <1>33

-----------------------------------------------------------------------------
(* The packet under way is the first of a transfer or follows the last one  *)
(* that arrived.                                                            *)
Fits(p) == IF p.type = "START" THEN p.seq = 0 ELSE fsw # <<>> /\ Follows(fsw[Len(fsw)], p)
NextFits == link # <<>> => Fits(Head(link))
Wire == StreamWellFormed /\ NextFits

(* One packet is under way where nothing is read, sent or awaited yet.      *)
LEMMA OneUnderWay == ASSUME TypeOK, Phase PROVE StopAndWait
<1>1. CASE upc = "sent"
  BY <1>1 DEF Phase, Opening, StopAndWait
<1>2. CASE Silent
  BY <1>2 DEF Silent, StopAndWait
<1>3. CASE OnItsWay
  <2>1. Len(<<expected>>) = 1 /\ Len(<<>>) = 0
    OBVIOUS
  <2> QED
    BY <1>3, <2>1 DEF OnItsWay, StopAndWait
<1>4. CASE Echoed
  <2>1. Len(<<expected>>) = 1 /\ Len(<<>>) = 0
    OBVIOUS
  <2> QED
    BY <1>4, <2>1 DEF Echoed, StopAndWait
<1>5. upc = "sent" \/ Silent \/ OnItsWay \/ Echoed
  BY DEF Phase, Resting, Ending, Under, Waits, Lost, Sending, TypeOK, EngineOK
<1> QED
  BY <1>1, <1>2, <1>3, <1>4, <1>5

LEMMA WireFrame ==
    ASSUME Wire, UNCHANGED <<link, fsw>>
    PROVE  Wire'
BY DEF Wire, StreamWellFormed, NextFits, Fits

(* An answered packet is followed by the one numbered next.                 *)
LEMMA WireSend ==
    ASSUME Wire, NEW p, link' = <<p>>, UNCHANGED fsw, Fits(p)
    PROVE  Wire'
BY DEF Wire, StreamWellFormed, NextFits, Fits

(* The flight software is sent one well-formed transfer after the other.    *)
LEMMA WireStep ==
    ASSUME Calm, TypeOK, Phase, Token, Excluded, Sources, Wire, [Next]_vars
    PROVE  Wire'
<1> USE DEF TypeOK
<1>1. CASE UOuter
  BY <1>1, WireFrame DEF UOuter, wire
<1>2. CASE UGet
  BY <1>2, WireFrame DEF UGet, wire
<1>3. CASE UAcquire
  BY <1>3, WireFrame DEF UAcquire, wire
<1>4. CASE UStart
  <2>1. link = <<>> /\ sequence = 0
    BY <1>4 DEF UStart, Phase, Resting, Silent
  <2>2. link' = <<StartPacket(0, Source[ufile])>> /\ UNCHANGED fsw
    BY <1>4, <2>1 DEF UStart, Push
  <2>3. Fits(StartPacket(0, Source[ufile]))
    BY PacketFields DEF Fits
  <2> QED
    BY <2>2, <2>3, WireSend
<1>5. CASE USent
  BY <1>5, WireFrame DEF USent, wire
<1>6. CASE UWait
  BY <1>6, WireFrame DEF UWait, wire
<1>7. CASE REnd
  BY <1>7, WireFrame DEF REnd, Take, wire
<1>8. CASE RStopTimer
  BY <1>8, WireFrame DEF RStopTimer, wire
<1>9. CASE RCancel
  <2>1. link = <<>> /\ Answered /\ upc # "sent" /\ Sending
    BY <1>9, HandsExpected DEF RCancel, Take, Calm, Gentle, Sending
  <2>2. link' = <<CancelPacket(sequence)>> /\ UNCHANGED fsw
    BY <1>9, <2>1 DEF RCancel
  <2>3. Fits(CancelPacket(sequence))
    BY <2>1, PacketFields DEF Fits, Follows, Answered, Phase, Under
  <2> QED
    BY <2>2, <2>3, WireSend
<1>10. CASE RNext
  BY <1>10, WireFrame DEF RNext, Take, wire
<1>11. CASE RData
  <2>1. Sending /\ upc # "sent" /\ link = <<>> /\ Answered
    BY <1>11, OutOfWindows DEF RData, Calm, Gentle, Phase, Threads, Under, Waits, Silent,
       Sending
  <2> DEFINE p == DataPacket(sequence, Source[active], Head(remaining[active]))
  <2>2. link' = <<p>> /\ UNCHANGED fsw
    BY <1>11, <2>1 DEF RData, Push
  <2>3. Fits(p)
    BY <2>1, PacketFields DEF Fits, Follows, Answered, Phase, Under
  <2> HIDE DEF p
  <2> QED
    BY <2>2, <2>3, WireSend
<1>12. CASE REof
  <2>1. Sending /\ upc # "sent" /\ link = <<>> /\ Answered
    BY <1>12, OutOfWindows DEF REof, Calm, Gentle, Phase, Threads, Under, Waits, Silent, Sending
  <2> DEFINE p == EndPacket(sequence, Source[active], summed[active])
  <2>2. link' = <<p>> /\ UNCHANGED fsw
    BY <1>12, <2>1 DEF REof, Push
  <2>3. Fits(p)
    BY <2>1, PacketFields DEF Fits, Follows, Answered, Phase, Under
  <2> HIDE DEF p
  <2> QED
    BY <2>2, <2>3, WireSend
<1>13. CASE TFire
  BY <1>13, WireFrame DEF TFire, wire
<1>14. CASE TFinish
  BY <1>14, WireFrame DEF TFinish, wire
<1>15. CASE TRelease
  BY <1>15, WireFrame DEF TRelease, wire
<1>16. CASE TMark
  BY <1>16, WireFrame DEF TMark, wire
<1>17. CASE Deliver
  <2>1. /\ link # <<>> /\ Len(link) <= 1 /\ link' = Tail(link)
        /\ fsw' = Append(fsw, Head(link))
        /\ Head(link) \in Packets /\ fsw \in Seq(Packets)
    BY <1>17, OneUnderWay DEF Deliver, StopAndWait, WireOK
  <2>2. link' = <<>>
    BY <2>1 DEF WireOK
  <2>3. Len(fsw') = Len(fsw) + 1 /\ fsw'[Len(fsw) + 1] = Head(link) /\ Len(fsw) \in Nat
        /\ (\A i \in 1 .. Len(fsw) : fsw'[i] = fsw[i])
        /\ DOMAIN fsw = 1 .. Len(fsw) /\ DOMAIN fsw' = 1 .. Len(fsw) + 1
    BY <2>1
  <2>4. Fits(Head(link)) /\ StreamWellFormed /\ (fsw # <<>> => Len(fsw) > 0)
    BY <2>1 DEF Wire, NextFits
  <2>5. ASSUME NEW i \in 1 .. Len(fsw) + 1
        PROVE  IF fsw'[i].type = "START" THEN fsw'[i].seq = 0
               ELSE i > 1 /\ Follows(fsw'[i - 1], fsw'[i])
    <3>1. CASE i = Len(fsw) + 1
      BY <2>3, <2>4, <3>1 DEF Fits
    <3>2. CASE i \in 1 .. Len(fsw)
      <4>1. IF fsw[i].type = "START" THEN fsw[i].seq = 0
            ELSE i > 1 /\ Follows(fsw[i - 1], fsw[i])
        BY <2>3, <2>4, <3>2 DEF StreamWellFormed
      <4> QED
        BY <2>3, <3>2, <4>1
    <3> QED
      BY <2>3, <3>1, <3>2
  <2> QED
    BY <2>2, <2>3, <2>5 DEF Wire, StreamWellFormed, NextFits
<1>18. CASE Lose
  <2>1. link' = <<>> /\ UNCHANGED fsw
    BY <1>18, OneUnderWay DEF Lose, StopAndWait, WireOK
  <2> QED
    BY <2>1 DEF Wire, StreamWellFormed, NextFits
<1>19. ASSUME NEW c \in Clients, NEW f \in Files, CEnqueue(c, f) PROVE Wire'
  BY <1>19, WireFrame DEF CEnqueue, wire
<1>20. ASSUME NEW c \in Clients, NEW p \in Paths, CCancelRemove(c, p) PROVE Wire'
  BY <1>20, WireFrame DEF CCancelRemove, wire
<1>21. ASSUME NEW c \in Clients, CPause(c) PROVE Wire'
  BY <1>21, WireFrame DEF CPause, wire
<1>22. ASSUME NEW c \in Clients, CUnpause(c) PROVE Wire'
  BY <1>22, WireFrame DEF CUnpause, wire
<1>23. ASSUME NEW c \in Clients, CAppend(c) PROVE Wire'
  BY <1>23, WireFrame DEF CAppend, wire
<1>24. ASSUME NEW c \in Clients, CCancel(c) PROVE Wire'
  BY <1>24, WireFrame DEF CCancel, wire
<1>25. ASSUME NEW c \in Clients, CSetCanceled(c) PROVE Wire'
  BY <1>25, WireFrame DEF CSetCanceled, wire
<1>26. ASSUME NEW c \in Clients, CPauseQueue(c) PROVE Wire'
  BY <1>26, WireFrame DEF CPauseQueue, wire
<1>27. ASSUME NEW c \in Clients, CHold(c) PROVE Wire'
  BY <1>27, WireFrame DEF CHold, wire
<1>28. ASSUME NEW c \in Clients, CResume(c) PROVE Wire'
  BY <1>28, WireFrame DEF CResume, wire
<1>29. ASSUME NEW c \in Clients, CScanEnd(c) PROVE Wire'
  BY <1>29, WireFrame DEF CScanEnd, wire
<1>30. ASSUME NEW c \in Clients, CScanDrop(c) PROVE Wire'
  BY <1>30, WireFrame DEF CScanDrop, wire
<1>31. ASSUME NEW c \in Clients, CScanTake(c) PROVE Wire'
  BY <1>31, WireFrame DEF CScanTake, wire
<1>32. ASSUME NEW c \in Clients, CReplace(c) PROVE Wire'
  BY <1>32, WireFrame DEF CReplace, wire
<1>33. CASE UNCHANGED vars
  BY <1>33, WireFrame DEF vars, wire
<1> QED
  BY Moves, <1>1, <1>2, <1>3, <1>4, <1>5, <1>6, <1>7, <1>8, <1>9, <1>10, <1>11, <1>12, <1>13,
     <1>14, <1>15, <1>16, <1>17, <1>18, <1>19, <1>20, <1>21, <1>22, <1>23, <1>24, <1>25, <1>26,
     <1>27, <1>28, <1>29, <1>30, <1>31, <1>32, <1>33

-----------------------------------------------------------------------------
(* What has been read of the active file, what has arrived of it, and what  *)
(* its checksum covers.                                                     *)
Readable(f, n) == \A k \in 1 .. n : Exists(f, Plan[f][k])
ReadTo(f, n) == {Plan[f][k] : k \in 1 .. n}
Advanced(f, n, rest, sum) ==    \* n chunks of f are read, rest is left
    /\ n \in 0 .. Len(Plan[f]) /\ Readable(f, n) /\ sum = ReadTo(f, n)
    /\ Len(rest) = Len(Plan[f]) - n
    /\ \A i \in 1 .. Len(Plan[f]) - n : rest[i] = Plan[f][n + i]
Arrived(s, f, n, e) ==          \* Chunks, of any stream s
    /\ e > n /\ s[e - n] = StartPacket(0, Source[f])
    /\ \A k \in 1 .. n : s[(e - n) + k] = DataPacket(k, Source[f], Plan[f][k])
Completed(s, f, e) ==           \* Delivered, of any stream s
    Arrived(s, f, Planned(f), e - 1) /\ s[e].body = ReadTo(f, Planned(f))
Nth(f, n) == IF n = 0 THEN StartPacket(0, Source[f]) ELSE DataPacket(n, Source[f], Plan[f][n])

Untouched == \A f \in Files : ~Started(f) => remaining[f] = Plan[f] /\ summed[f] = {}
Reading == Sending => Advanced(active, sequence - 1, remaining[active], summed[active])
Carrying ==
    Sending /\ upc # "sent" =>
        /\ expected = Nth(active, sequence - 1)
        /\ link # <<>> /\ sequence > 1 => Arrived(fsw, active, sequence - 2, Len(fsw))
        /\ hands # <<>> \/ rpc = "read" => Arrived(fsw, active, sequence - 1, Len(fsw))
Closing ==
    state = "END_WAIT" /\ tpc = "idle" /\ expected.type = "END" =>
        /\ expected.path = Source[active] /\ expected.body = ReadTo(active, Planned(active))
        /\ link # <<>> => Arrived(fsw, active, Planned(active), Len(fsw))
        /\ hands # <<>> => Completed(fsw, active, Len(fsw))
Canceling ==
    \/ state = "CANCELED"
    \/ state = "END_WAIT" /\ tpc = "idle" /\ expected.type = "CANCEL"
    => fstate[active] = "CANCELED"
Progress == Untouched /\ Reading /\ Carrying /\ Closing /\ Canceling

(* A set of numbers has a least one.                                        *)
LEMMA LeastNumber ==
    ASSUME NEW T, T \subseteq Nat, T # {}
    PROVE  \E x \in T : \A y \in T : x <= y
<1> DEFINE R == OpToRel(<, Nat)
<1>1. IsWellFoundedOn(R, Nat)
  BY NatLessThanWellFounded, Zenon
<1>2. \A x, y \in Nat : <<x, y>> \in R <=> x < y
  BY DEF OpToRel
<1> HIDE DEF R
<1>3. PICK x \in T : \A y \in T : <<y, x>> \notin R
  BY <1>1, WFMin
<1>4. \A y \in T : ~(y < x)
  BY <1>2, <1>3
<1> QED
  BY <1>4

LEMMA PlanType == \A f \in Files : Plan[f] \in Seq(Nat) /\ Len(Plan[f]) \in Nat /\ Size[f] \in Nat
BY ConstantsAssumption

(* The planned chunks are those before the first that cannot be read.       *)
LEMMA PlannedFacts ==
    ASSUME NEW f \in Files
    PROVE  /\ Planned(f) \in 0 .. Len(Plan[f])
           /\ \A n \in 0 .. Len(Plan[f]) :
                Readable(f, n) /\ (n < Len(Plan[f]) => ~Exists(f, Plan[f][n + 1]))
                  => n = Planned(f)
<1> DEFINE L == Len(Plan[f])
           Last(n) == Readable(f, n) /\ (n < L => ~Exists(f, Plan[f][n + 1]))
           T == {n \in 0 .. L : n < L => ~Exists(f, Plan[f][n + 1])}
<1>1. L \in Nat
  BY PlanType
<1>2. Planned(f) = CHOOSE n \in 0 .. L : Last(n)
  BY Zenon DEF Planned, Readable
<1>3. PICK n \in T : \A m \in T : n <= m
  <2>1. L \in T /\ T \subseteq Nat
    BY <1>1
  <2> QED
    BY <2>1, LeastNumber
<1>4. Readable(f, n)
  <2>1. ASSUME NEW k \in 1 .. n, ~Exists(f, Plan[f][k])
        PROVE  FALSE
    <3>1. k - 1 \in 0 .. L /\ (k - 1) + 1 = k /\ k - 1 < n /\ k \in Nat
      BY <1>1, <1>3
    <3>2. k - 1 \in T
      BY <2>1, <3>1
    <3>3. n <= k - 1
      BY <1>3, <3>2
    <3> QED
      BY <3>1, <3>3, <1>3, <1>1
  <2> QED
    BY <2>1 DEF Readable
<1>5. n \in 0 .. L /\ Last(n)
  BY <1>3, <1>4
<1>6. ASSUME NEW m \in 0 .. L, NEW p \in 0 .. L, Last(m), Last(p), m < p
      PROVE  FALSE
  <2>1. m + 1 \in 1 .. p /\ m < L
    BY <1>1, <1>6
  <2> QED
    BY <1>6, <2>1 DEF Readable
<1> HIDE DEF L, Last, T
<1>7. Planned(f) \in 0 .. L /\ Last(Planned(f))
  BY <1>2, <1>5
<1>8. ASSUME NEW m \in 0 .. L, Last(m)
      PROVE  m = Planned(f)
  BY <1>1, <1>6, <1>7, <1>8
<1> QED
  BY <1>7, <1>8 DEF L, Last

(* What has arrived has arrived.                                            *)
LEMMA ArrivedKept ==
    ASSUME NEW s \in Seq(Packets), NEW p \in Packets, NEW f \in Files, NEW n \in Nat,
           NEW e \in 0 .. Len(s), Arrived(s, f, n, e)
    PROVE  Arrived(Append(s, p), f, n, e)
<1> DEFINE t == Append(s, p)
<1>1. Len(s) \in Nat /\ \A i \in 1 .. Len(s) : t[i] = s[i]
  BY AppendFacts
<1> HIDE DEF t
<1>2. e > n /\ e - n \in 1 .. Len(s) /\ s[e - n] = StartPacket(0, Source[f])
  BY <1>1 DEF Arrived
<1>3. ASSUME NEW k \in 1 .. n
      PROVE  t[(e - n) + k] = DataPacket(k, Source[f], Plan[f][k])
  <2>1. (e - n) + k \in 1 .. Len(s)
    BY <1>1, <1>2
  <2>2. s[(e - n) + k] = DataPacket(k, Source[f], Plan[f][k])
    BY DEF Arrived
  <2> QED
    BY <1>1, <2>1, <2>2
<1>4. Arrived(t, f, n, e)
  BY <1>1, <1>2, <1>3 DEF Arrived
<1> QED
  BY <1>4 DEF t

LEMMA CompletedKept ==
    ASSUME NEW s \in Seq(Packets), NEW p \in Packets, NEW f \in Files, NEW e \in 1 .. Len(s),
           Completed(s, f, e)
    PROVE  Completed(Append(s, p), f, e)
<1>1. Planned(f) \in Nat
  BY PlannedFacts, PlanType
<1>2. e - 1 \in 0 .. Len(s) /\ Append(s, p)[e] = s[e]
  BY AppendFacts
<1> QED
  BY <1>1, <1>2, ArrivedKept DEF Completed

(* One more chunk arrives.                                                  *)
LEMMA ChunkArrives ==
    ASSUME NEW s \in Seq(Packets), NEW f \in Files, NEW n \in Nat, Nth(f, n) \in Packets,
           n > 0 => Arrived(s, f, n - 1, Len(s))
    PROVE  Arrived(Append(s, Nth(f, n)), f, n, Len(s) + 1)
<1> DEFINE e == Len(s)
           t == Append(s, Nth(f, n))
<1>1. e \in Nat /\ t[e + 1] = Nth(f, n) /\ \A i \in 1 .. e : t[i] = s[i]
  BY AppendFacts
<1>2. n > 0 => Arrived(s, f, n - 1, e)
  OBVIOUS
<1> SUFFICES Arrived(t, f, n, e + 1)
  OBVIOUS
<1> HIDE DEF e, t
<1>3. CASE n = 0
  BY <1>1, <1>3 DEF Arrived, Nth
<1>4. CASE n > 0
  <2>1. /\ e > n - 1 /\ e - (n - 1) = (e + 1) - n /\ (e + 1) - n \in 1 .. e /\ e + 1 > n
        /\ s[(e + 1) - n] = StartPacket(0, Source[f])
    BY <1>1, <1>2, <1>4 DEF Arrived
  <2>2. ASSUME NEW k \in 1 .. n
        PROVE  t[((e + 1) - n) + k] = DataPacket(k, Source[f], Plan[f][k])
    <3>1. CASE k = n
      <4>1. ((e + 1) - n) + k = e + 1
        BY <1>1, <3>1
      <4> QED
        BY <1>1, <1>4, <3>1, <4>1 DEF Nth
    <3>2. CASE k \in 1 .. n - 1
      <4>1. ((e + 1) - n) + k \in 1 .. e /\ ((e + 1) - n) + k = (e - (n - 1)) + k
        BY <1>1, <1>4, <2>1, <3>2
      <4>2. s[(e - (n - 1)) + k] = DataPacket(k, Source[f], Plan[f][k])
        BY <1>2, <1>4, <3>2 DEF Arrived
      <4> QED
        BY <1>1, <4>1, <4>2
    <3>3. k = n \/ k \in 1 .. n - 1
      OBVIOUS
    <3> QED
      BY <3>1, <3>2, <3>3
  <2>3. t[(e + 1) - n] = StartPacket(0, Source[f])
    BY <1>1, <2>1
  <2> QED
    BY <2>1, <2>2, <2>3 DEF Arrived
<1> QED
  BY <1>3, <1>4

(* Reading goes one chunk further, or ends with the planned chunks.         *)
LEMMA ReadFurther ==
    ASSUME NEW f \in Files, NEW n, NEW r \in Seq(Nat), NEW sum, Advanced(f, n, r, sum),
           r # <<>>, Head(r) \in 1 .. Size[f]
    PROVE  Head(r) = Plan[f][n + 1] /\ Advanced(f, n + 1, Tail(r), sum \cup {Head(r)})
<1> DEFINE L == Len(Plan[f])
           k == Head(r)
           t == Tail(r)
<1>1. /\ L \in Nat /\ n \in 0 .. L /\ Len(r) = L - n /\ Readable(f, n) /\ sum = ReadTo(f, n)
      /\ \A i \in 1 .. L - n : r[i] = Plan[f][n + i]
  BY PlanType DEF Advanced
<1>2. Len(r) >= 1 /\ Len(t) = Len(r) - 1 /\ k = r[1] /\ \A i \in 1 .. Len(r) - 1 : t[i] = r[i + 1]
  BY TailFacts
<1> HIDE DEF L, k, t
<1>3. n + 1 \in 0 .. L /\ k = Plan[f][n + 1] /\ Len(t) = L - (n + 1)
  BY <1>1, <1>2
<1>4. ASSUME NEW i \in 1 .. L - (n + 1)
      PROVE  t[i] = Plan[f][(n + 1) + i]
  <2>1. i + 1 \in 1 .. L - n /\ n + (i + 1) = (n + 1) + i /\ i \in 1 .. Len(r) - 1
    BY <1>1, <1>2
  <2> QED
    BY <1>1, <1>2, <2>1
<1>5. Readable(f, n + 1)
  <2>1. ASSUME NEW j \in 1 .. n + 1
        PROVE  Exists(f, Plan[f][j])
    <3>1. CASE j = n + 1
      BY <1>3, <3>1 DEF Exists, k
    <3>2. CASE j \in 1 .. n
      BY <1>1, <3>2 DEF Readable
    <3> QED
      BY <1>1, <3>1, <3>2
  <2> QED
    BY <2>1 DEF Readable
<1>6. sum \cup {k} = ReadTo(f, n + 1)
  BY <1>1, <1>3 DEF ReadTo
<1>7. Advanced(f, n + 1, t, sum \cup {k})
  BY <1>3, <1>4, <1>5, <1>6 DEF Advanced, L
<1> QED
  BY <1>3, <1>7 DEF k, t

LEMMA ReadToEnd ==
    ASSUME NEW f \in Files, NEW n, NEW r \in Seq(Nat), NEW sum, Advanced(f, n, r, sum),
           ~(r # <<>> /\ Head(r) \in 1 .. Size[f])
    PROVE  n = Planned(f)
<1>1. /\ Len(Plan[f]) \in Nat /\ n \in 0 .. Len(Plan[f]) /\ Len(r) = Len(Plan[f]) - n
      /\ Readable(f, n) /\ \A i \in 1 .. Len(Plan[f]) - n : r[i] = Plan[f][n + i]
  BY PlanType DEF Advanced
<1>2. n < Len(Plan[f]) => r # <<>> /\ Head(r) = Plan[f][n + 1]
  BY <1>1
<1>3. n < Len(Plan[f]) => ~Exists(f, Plan[f][n + 1])
  BY <1>2 DEF Exists
<1> QED
  BY <1>1, <1>3, PlannedFacts

LEMMA ProgressFrame ==
    ASSUME Progress,
           UNCHANGED <<state, active, sequence, expected, fstate, remaining, summed,
                       link, hands, fsw>>,
           upc' = "sent" <=> upc = "sent", tpc' = "idle" => tpc = "idle",
           rpc' = "read" => rpc = "read"
    PROVE  Progress'
<1>1. Untouched' /\ Canceling'
  BY DEF Progress, Untouched, Started, Canceling
<1>2. Reading' /\ Carrying' /\ Closing'
  BY DEF Progress, Reading, Carrying, Closing, Sending
<1> QED
  BY <1>1, <1>2 DEF Progress

(* Where nothing is under way there is no more to say than which files have *)
(* not been read.                                                           *)
LEMMA ProgressRests ==
    ASSUME Progress, UNCHANGED <<remaining, summed>>,
           \A f \in Files : Started(f) => Started(f)',
           state' = "IDLE" \/ (state' = "END_WAIT" /\ tpc' # "idle")
    PROVE  Progress'
<1>1. Untouched'
  BY DEF Progress, Untouched
<1>2. Reading' /\ Carrying' /\ Closing' /\ Canceling'
  BY DEF Reading, Carrying, Closing, Canceling, Sending
<1> QED
  BY <1>1, <1>2 DEF Progress

LEMMA NotRead == \A f \in Files : Advanced(f, 0, Plan[f], {})
BY PlanType DEF Advanced, Readable, ReadTo

LEMMA FromExpected ==
    ASSUME TypeOK, Phase, Sending, upc # "sent"
    PROVE  sequence \in Nat /\ sequence >= 1 /\ sequence - 1 \in Nat /\ (sequence - 1) - 1 = sequence - 2
           /\ (sequence - 1 > 0 <=> sequence > 1)
<1>1. expected \in Packets
  BY DEF TypeOK, EngineOK, Phase, Under, NoPacket
<1> QED
  BY <1>1 DEF Phase, Under, Packets

LEMMA StartedStays ==
    ASSUME TypeOK, PlaceInv, [Next]_vars
    PROVE  \A f \in Files : Started(f) => Started(f)'
<1>1. CASE Next
  BY <1>1, DiskStep
<1>2. CASE UNCHANGED vars
  BY <1>2 DEF vars, disk, Started
<1> QED
  BY <1>1, <1>2

(* Each step reads, sends and delivers the chunk that is due.               *)
LEMMA ProgressStep ==
    ASSUME Calm, TypeOK, PlaceInv, Phase, Token, Excluded, Sources, Progress, [Next]_vars
    PROVE  Progress'
<1> USE DEF TypeOK, ClientOK, CallPcs, CallArgs
<1>1. CASE UOuter
  BY <1>1, ProgressFrame DEF UOuter, engine, timer, disk, jobs, threads, client, wire, bounds
<1>2. CASE UGet
  BY <1>2, ProgressFrame DEF UGet, engine, timer, disk, jobs, threads, client, wire, bounds
<1>3. CASE UAcquire
  BY <1>3, ProgressFrame DEF UAcquire, engine, timer, disk, jobs, threads, client, wire,
       bounds
<1>4. CASE UStart
  <2>1. /\ upc' = "sent" /\ state' = "RUNNING" /\ active' = ufile /\ sequence' = sequence + 1
        /\ ufile \in Files /\ ThreadHolds /\ state = "IDLE" /\ UNCHANGED <<remaining, summed>>
    BY <1>4 DEF UStart, ThreadsOK, ThreadHolds
  <2>2. ~Started(ufile) /\ sequence = 0
    BY <2>1 DEF PlaceInv, ThreadAlone, Started, Phase, Resting
  <2>3. Untouched'
    BY <2>1, StartedStays DEF Progress, Untouched
  <2>4. remaining[ufile] = Plan[ufile] /\ summed[ufile] = {}
    BY <2>1, <2>2 DEF Progress, Untouched
  <2>5. Reading'
    <3>1. sequence' - 1 = 0 /\ active' = ufile /\ remaining' = remaining /\ summed' = summed
      BY <2>1, <2>2
    <3> QED
      BY <2>1, <2>4, <3>1, NotRead DEF Reading
  <2>6. Carrying' /\ Closing' /\ Canceling'
    BY <2>1 DEF Carrying, Closing, Canceling
  <2> QED
    BY <2>3, <2>5, <2>6 DEF Progress
<1>5. CASE USent
  <2>1. /\ upc = "sent" /\ upc' = "wait" /\ expected' = ret
        /\ UNCHANGED <<state, active, sequence, tpc, rpc, fstate, remaining, summed, link,
                       hands, fsw>>
    BY <1>5 DEF USent, Expect, disk, wire
  <2>2. state = "RUNNING" /\ ret = StartPacket(0, Source[active]) /\ sequence = 1 /\ hands = <<>> /\ rpc = "idle"
    BY <2>1 DEF Phase, Opening
  <2>3. Untouched' /\ Closing' /\ Canceling'
    BY <2>1, <2>2 DEF Progress, Untouched, Started, Closing, Canceling
  <2>4. Reading'
    BY <2>1 DEF Progress, Reading, Sending
  <2>5. Carrying'
    BY <2>1, <2>2 DEF Carrying, Nth
  <2> QED
    BY <2>3, <2>4, <2>5 DEF Progress
<1>6. CASE UWait
  BY <1>6, ProgressFrame DEF UWait, engine, timer, disk, jobs, threads, client, wire, bounds
<1>7. CASE REnd
  <2>1. state' = "IDLE" /\ UNCHANGED <<remaining, summed>>
    BY <1>7 DEF REnd
  <2> QED
    BY <2>1, StartedStays, ProgressRests
<1>8. CASE RStopTimer
  BY <1>8, ProgressFrame DEF RStopTimer, engine, timer, disk, jobs, threads, client, wire,
       bounds
<1>9. CASE RCancel
  <2>1. /\ state = "CANCELED" /\ state' = "END_WAIT" /\ expected' = CancelPacket(sequence)
        /\ UNCHANGED <<active, fstate, remaining, summed>>
    BY <1>9 DEF RCancel, Close, Expect
  <2>2. Untouched'
    BY <2>1 DEF Progress, Untouched, Started
  <2>3. Canceling'
    BY <2>1 DEF Progress, Canceling
  <2>4. Reading' /\ Carrying' /\ Closing'
    BY <2>1, PacketFields DEF Reading, Carrying, Closing, Sending
  <2> QED
    BY <2>2, <2>3, <2>4 DEF Progress
<1>10. CASE RNext
  <2>1. hands # <<>> /\ link = <<>> /\ upc # "sent" /\ tpc = "idle" /\ state = "RUNNING"
    BY <1>10, HandsExpected DEF RNext, Take, Calm, Gentle
  <2>2. /\ hands' = <<>> /\ rpc' = "read"
        /\ UNCHANGED <<state, active, sequence, expected, tpc, fstate, remaining, summed,
                       link, fsw, upc>>
    BY <1>10, <2>1, HandsExpected DEF RNext, Take, Calm, Gentle, engine, timer, disk
  <2>3. Untouched' /\ Closing' /\ Canceling'
    BY <2>1, <2>2 DEF Progress, Untouched, Started, Closing, Canceling
  <2>4. Reading'
    BY <2>2 DEF Progress, Reading, Sending
  <2>5. Carrying'
    BY <2>1, <2>2 DEF Progress, Carrying, Sending
  <2> QED
    BY <2>3, <2>4, <2>5 DEF Progress
<1>11. CASE RData
  <2>1. /\ Sending /\ upc # "sent" /\ rpc = "read" /\ link = <<>> /\ hands = <<>>
        /\ active \in Files
        /\ sequence \in Nat /\ sequence >= 1
    <3>1. Sending /\ upc # "sent" /\ rpc = "read" /\ link = <<>> /\ hands = <<>> /\ active \in Files
      BY <1>11, OutOfWindows DEF RData, Calm, Gentle, Phase, Threads, Under, Waits, Silent,
         Sending
    <3> QED
      BY <3>1, FromExpected
  <2> DEFINE k == Head(remaining[active])
             p == DataPacket(sequence, Source[active], k)
  <2>2. /\ remaining[active] # <<>> /\ k \in 1 .. Size[active] /\ sequence' = sequence + 1
        /\ rpc' = "idle" /\ expected' = p
        /\ remaining' = [remaining EXCEPT ![active] = Tail(@)]
        /\ summed' = [summed EXCEPT ![active] = @ \cup {k}]
        /\ UNCHANGED <<state, active, tpc, fstate, hands, fsw, upc>>
    BY <1>11 DEF RData, Push, Expect, Eof
  <2>3. /\ Advanced(active, sequence - 1, remaining[active], summed[active])
        /\ Arrived(fsw, active, sequence - 1, Len(fsw)) /\ remaining[active] \in Seq(Nat)
    BY <2>1 DEF Progress, Reading, Carrying, DiskOK
  <2>4. k = Plan[active][(sequence - 1) + 1]
        /\ Advanced(active, (sequence - 1) + 1, Tail(remaining[active]), summed[active] \cup {k})
    BY <2>1, <2>2, <2>3, ReadFurther
  <2>5. /\ (sequence - 1) + 1 = sequence /\ sequence' - 1 = sequence
        /\ sequence' - 2 = sequence - 1
        /\ remaining'[active] = Tail(remaining[active])
        /\ summed'[active] = summed[active] \cup {k}
    BY <2>1, <2>2 DEF DiskOK
  <2> HIDE DEF k, p
  <2>6. Untouched'
    <3>1. \A f \in Files : ~Started(f)' => f # active /\ ~Started(f)
      BY <2>1, <2>2, ConstantsAssumption DEF Started, PlaceInv, ActiveStarted
    <3>2. \A f \in Files : f # active => remaining'[f] = remaining[f] /\ summed'[f] = summed[f]
      BY <2>2 DEF DiskOK
    <3> QED
      BY <3>1, <3>2 DEF Progress, Untouched
  <2>7. Reading'
    BY <2>2, <2>4, <2>5 DEF Reading
  <2>8. Carrying'
    <3>1. p = Nth(active, sequence)
      BY <2>1, <2>4, <2>5 DEF p, Nth
    <3> QED
      BY <2>1, <2>2, <2>3, <2>5, <3>1 DEF Carrying, Nth
  <2>9. Closing' /\ Canceling'
    BY <2>1, <2>2 DEF Closing, Progress, Canceling, Sending
  <2> QED
    BY <2>6, <2>7, <2>8, <2>9 DEF Progress
<1>12. CASE REof
  <2>1. /\ Sending /\ upc # "sent" /\ rpc = "read" /\ hands = <<>> /\ active \in Files
    BY <1>12, OutOfWindows DEF REof, Calm, Gentle, Phase, Threads, Under, Waits, Silent, Sending
  <2>2. /\ Eof(active) /\ state' = "END_WAIT" /\ hands' = <<>>
        /\ expected' = EndPacket(sequence, Source[active], summed[active])
        /\ \A f \in Files : f # active => remaining'[f] = remaining[f]
        /\ UNCHANGED <<active, fstate, summed, fsw>>
    BY <1>12, <2>1 DEF REof, Push, Expect, Close, DiskOK
  <2>3. /\ Advanced(active, sequence - 1, remaining[active], summed[active])
        /\ Arrived(fsw, active, sequence - 1, Len(fsw)) /\ remaining[active] \in Seq(Nat)
    BY <2>1 DEF Progress, Reading, Carrying, DiskOK
  <2>4. sequence - 1 = Planned(active)
    BY <2>1, <2>2, <2>3, ReadToEnd DEF Eof
  <2>5. summed[active] = ReadTo(active, Planned(active)) /\ Arrived(fsw, active, Planned(active), Len(fsw))
    BY <2>3, <2>4 DEF Advanced
  <2>6. Closing'
    BY <2>2, <2>5, PacketFields DEF Closing
  <2>7. Untouched'
    <3>1. \A f \in Files : ~Started(f)' => f # active /\ ~Started(f)
      BY <2>1, <2>2, ConstantsAssumption DEF Started, PlaceInv, ActiveStarted
    <3> QED
      BY <2>2, <3>1 DEF Progress, Untouched
  <2>8. Reading' /\ Carrying' /\ Canceling'
    BY <2>2, PacketFields DEF Reading, Carrying, Canceling, Sending
  <2> QED
    BY <2>6, <2>7, <2>8 DEF Progress
<1>13. CASE TFire
  BY <1>13, ProgressFrame DEF TFire, engine, timer, disk, jobs, threads, client, wire, bounds
<1>14. CASE TFinish
  <2>1. state' = "END_WAIT" /\ UNCHANGED <<fstate, remaining, summed>> /\ tpc' # "idle"
    BY <1>14 DEF TFinish, Close, Phase, Threads, Sources, Live, Sending
  <2> QED
    BY <2>1, StartedStays, ProgressRests
<1>15. CASE TRelease
  <2>1. state' = "IDLE" /\ UNCHANGED <<remaining, summed>>
    BY <1>15 DEF TRelease, disk
  <2> QED
    BY <2>1, StartedStays, ProgressRests
<1>16. CASE TMark
  <2>1. state' = "IDLE" /\ UNCHANGED <<remaining, summed>>
    BY <1>16 DEF TMark, engine, Phase, Threads
  <2> QED
    BY <2>1, StartedStays, ProgressRests
<1>17. CASE Deliver
  <2>1. /\ upc # "sent" /\ tpc = "idle" /\ link # <<>> /\ fsw' = Append(fsw, Head(link))
        /\ link' = Tail(link)
        /\ UNCHANGED <<state, active, sequence, expected, tpc, fstate, remaining, summed,
                       upc, rpc>>
    BY <1>17, OutOfWindows DEF Deliver, Calm, Gentle, engine, timer, disk, threads
  <2>2. state # "IDLE" /\ link = <<expected>>
    BY <2>1 DEF Phase, Resting, Ending, Under, Waits, Silent, OnItsWay, Echoed, Lost,
         Sending, EngineOK
  <2>3. link' = <<>> /\ fsw' = Append(fsw, expected) /\ Head(link) = expected /\ expected \in Packets
    <3>1. Head(<<expected>>) = expected /\ Tail(<<expected>>) = <<>> /\ Head(link) \in Packets
      BY <2>1 DEF WireOK
    <3> QED
      BY <2>1, <2>2, <3>1
  <2>4. active \in Files
    BY <2>2 DEF Phase, Threads
  <2>5. Untouched' /\ Canceling'
    BY <2>1 DEF Progress, Untouched, Started, Canceling
  <2>6. Reading'
    BY <2>1 DEF Progress, Reading, Sending
  <2>7. Carrying'
    <3> SUFFICES ASSUME Sending PROVE Carrying'
      BY <2>1 DEF Carrying, Sending
    <3> DEFINE n == sequence - 1
    <3>1. /\ expected = Nth(active, n) /\ n \in Nat /\ n - 1 = sequence - 2
          /\ n > 0 => Arrived(fsw, active, n - 1, Len(fsw))
      BY <2>1, FromExpected DEF Progress, Carrying
    <3> HIDE DEF n
    <3>2. Arrived(fsw', active, n, Len(fsw) + 1) /\ Len(fsw') = Len(fsw) + 1
      BY <2>3, <2>4, <3>1, ChunkArrives, AppendFacts DEF WireOK
    <3> QED
      BY <2>1, <2>3, <3>1, <3>2 DEF Carrying, n
  <2>8. Closing'
    <3> SUFFICES ASSUME state = "END_WAIT", expected.type = "END" PROVE Closing'
      BY <2>1 DEF Closing
    <3> DEFINE e == Len(fsw)
    <3>1. /\ expected.path = Source[active] /\ expected.body = ReadTo(active, Planned(active))
          /\ Arrived(fsw, active, Planned(active), e)
      BY <2>1 DEF Progress, Closing
    <3>2. /\ e \in 0 .. Len(fsw) /\ Len(fsw') = e + 1 /\ fsw'[e + 1] = expected
          /\ (e + 1) - 1 = e
          /\ Planned(active) \in Nat
      BY <2>3, <2>4, AppendFacts, PlannedFacts, PlanType DEF WireOK
    <3>3. Arrived(fsw', active, Planned(active), e)
      BY <2>3, <2>4, <3>1, <3>2, ArrivedKept DEF WireOK
    <3> HIDE DEF e
    <3>4. Completed(fsw', active, e + 1)
      BY <3>1, <3>2, <3>3 DEF Completed
    <3> QED
      BY <2>1, <2>3, <3>1, <3>2, <3>4 DEF Closing
  <2> QED
    BY <2>5, <2>6, <2>7, <2>8 DEF Progress
<1>18. CASE Lose
  <2>1. /\ link' = <<>>
        /\ UNCHANGED <<state, active, sequence, expected, tpc, fstate, remaining, summed,
                                        upc, rpc, hands, fsw>>
    BY <1>18, OneUnderWay DEF Lose, StopAndWait, WireOK, engine, timer, disk, threads
  <2>2. Untouched' /\ Canceling'
    BY <2>1 DEF Progress, Untouched, Started, Canceling
  <2>3. Reading'
    BY <2>1 DEF Progress, Reading, Sending
  <2>4. Carrying' /\ Closing'
    BY <2>1 DEF Progress, Carrying, Closing, Sending
  <2> QED
    BY <2>2, <2>3, <2>4 DEF Progress
<1>19. ASSUME NEW c \in Clients, NEW f \in Files, CEnqueue(c, f) PROVE Progress'
  <2>1. /\ fstate[f] = "NEW" /\ fstate' = [fstate EXCEPT ![f] = "QUEUED"]
        /\ UNCHANGED <<state, active, sequence, expected, tpc, remaining, summed, upc, rpc,
                       link, hands, fsw>>
    BY <1>19 DEF CEnqueue, engine, timer, threads, wire
  <2>2. Untouched' /\ Canceling'
    BY <2>1, StartedStays DEF Progress, Untouched, Canceling, DiskOK
  <2>3. Reading'
    BY <2>1 DEF Progress, Reading, Sending
  <2>4. Carrying' /\ Closing'
    BY <2>1 DEF Progress, Carrying, Closing, Sending
  <2> QED
    BY <2>2, <2>3, <2>4 DEF Progress
<1>20. ASSUME NEW c \in Clients, NEW p \in Paths, CCancelRemove(c, p) PROVE Progress'
  BY <1>20, ProgressFrame DEF CCancelRemove, Calls, Enter, Goto, engine, timer, disk, jobs,
       threads, client, wire, bounds
<1>21. ASSUME NEW c \in Clients, CPause(c) PROVE Progress'
  BY <1>21, ProgressFrame DEF CPause, Calls, Enter, Goto, engine, timer, disk, jobs, threads,
       client, wire, bounds
<1>22. ASSUME NEW c \in Clients, CUnpause(c) PROVE Progress'
  BY <1>22, ProgressFrame DEF CUnpause, Calls, Goto, engine, timer, disk, jobs, threads,
       client, wire, bounds
<1>23. ASSUME NEW c \in Clients, CAppend(c) PROVE Progress'
  BY <1>23, ProgressFrame DEF CAppend, Return, Enter, Goto, engine, timer, disk, jobs,
       threads, client, wire, bounds
<1>24. ASSUME NEW c \in Clients, CCancel(c) PROVE Progress'
  BY <1>24, ProgressFrame DEF CCancel, Goto, engine, timer, disk, jobs, threads, client,
       wire, bounds
<1>25. ASSUME NEW c \in Clients, CSetCanceled(c) PROVE Progress'
  <2>1. /\ state = "RUNNING" /\ active \in Files /\ state' = "CANCELED"
        /\ fstate' = [fstate EXCEPT ![active] = "CANCELED"]
        /\ UNCHANGED <<active, sequence, expected, tpc, remaining, summed, upc, rpc, link,
                       hands, fsw>>
    BY <1>25 DEF CSetCanceled, Phase, Threads, timer, threads, wire
  <2>2. Untouched' /\ Canceling'
    BY <2>1, StartedStays DEF Progress, Untouched, Canceling, DiskOK
  <2>3. Reading'
    BY <2>1 DEF Progress, Reading, Sending
  <2>4. Carrying' /\ Closing'
    BY <2>1 DEF Progress, Carrying, Closing, Sending
  <2> QED
    BY <2>2, <2>3, <2>4 DEF Progress
<1>26. ASSUME NEW c \in Clients, CPauseQueue(c) PROVE Progress'
  BY <1>26, ProgressFrame DEF CPauseQueue, Enter, Goto, engine, timer, disk, jobs, threads,
       client, wire, bounds
<1>27. ASSUME NEW c \in Clients, CHold(c) PROVE Progress'
  BY <1>27, ProgressFrame DEF CHold, Goto, engine, timer, disk, jobs, threads, client, wire,
       bounds
<1>28. ASSUME NEW c \in Clients, CResume(c) PROVE Progress'
  BY <1>28, ProgressFrame DEF CResume, Goto, engine, timer, disk, jobs, threads, client,
       wire, bounds
<1>29. ASSUME NEW c \in Clients, CScanEnd(c) PROVE Progress'
  BY <1>29, ProgressFrame DEF CScanEnd, Return, Enter, Goto, engine, timer, disk, jobs,
       threads, client, wire, bounds
<1>30. ASSUME NEW c \in Clients, CScanDrop(c) PROVE Progress'
  BY <1>30, ProgressFrame DEF CScanDrop, Return, Enter, Goto, engine, timer, disk, jobs,
       threads, client, wire, bounds
<1>31. ASSUME NEW c \in Clients, CScanTake(c) PROVE Progress'
  BY <1>31, ProgressFrame DEF CScanTake, Goto, engine, timer, disk, jobs, threads, client,
       wire, bounds
<1>32. ASSUME NEW c \in Clients, CReplace(c) PROVE Progress'
  BY <1>32, ProgressFrame DEF CReplace, Goto, engine, timer, disk, jobs, threads, client,
       wire, bounds
<1>33. CASE UNCHANGED vars
  BY <1>33, ProgressFrame DEF vars, engine, timer, disk, jobs, threads, client, wire, bounds
<1> QED
  BY Moves, <1>1, <1>2, <1>3, <1>4, <1>5, <1>6, <1>7, <1>8, <1>9, <1>10, <1>11, <1>12, <1>13,
     <1>14, <1>15, <1>16, <1>17, <1>18, <1>19, <1>20, <1>21, <1>22, <1>23, <1>24, <1>25, <1>26,
     <1>27, <1>28, <1>29, <1>30, <1>31, <1>32, <1>33

-----------------------------------------------------------------------------
(* OutcomesTrue, of the stream as it is.                                    *)
EndsComplete ==
    \A e \in 1 .. Len(fsw) : fsw[e].type = "END" =>
        \E f \in Files : Source[f] = fsw[e].path /\ Completed(fsw, f, e)
Told == \A f \in Files : fstate[f] = "FINISHED" =>
            \E e \in 1 .. Len(fsw) : fsw[e].type = "END" /\ Completed(fsw, f, e)
Outcomes == EndsComplete /\ Told /\ TimeoutMeansLoss

LEMMA OutcomesAgree == ASSUME TypeOK, Outcomes PROVE OutcomesTrue
<1>1. DOMAIN fsw = 1 .. Len(fsw)
  BY DEF TypeOK, WireOK
<1>2. \A f \in Files, e \in 1 .. Len(fsw) : Completed(fsw, f, e) => Delivered(f, e)
  BY DEF Completed, Arrived, Delivered, Chunks, ReadTo
<1>3. EndMeansComplete
  BY <1>1, <1>2 DEF Outcomes, EndsComplete, EndMeansComplete
<1>4. FinishedMeansDelivered
  BY <1>1, <1>2 DEF Outcomes, Told, FinishedMeansDelivered
<1> QED
  BY <1>3, <1>4 DEF OutcomesTrue, Outcomes

(* No file is newly said to be finished, nor timed out without a loss.      *)
LEMMA OutcomesFrame ==
    ASSUME Outcomes, UNCHANGED fsw, losses > 0 => losses' > 0,
           \A f \in Files : fstate'[f] = "FINISHED" => fstate[f] = "FINISHED",
           \A f \in Files : fstate'[f] = "TIMEOUT" => fstate[f] = "TIMEOUT" \/ losses' > 0
    PROVE  Outcomes'
BY DEF Outcomes, EndsComplete, Told, TimeoutMeansLoss

(* What is said of a transfer is what happened to it.                      *)
LEMMA OutcomesStep ==
    ASSUME Calm, TypeOK, PlaceInv, Phase, Token, Excluded, Sources, Progress, Outcomes, [Next]_vars
    PROVE  Outcomes'
<1> USE DEF TypeOK
<1>1. CASE UOuter
  BY <1>1, OutcomesFrame DEF UOuter, disk, wire, bounds
<1>2. CASE UGet
  BY <1>2, OutcomesFrame DEF UGet, disk, wire, bounds
<1>3. CASE UAcquire
  BY <1>3, OutcomesFrame DEF UAcquire, disk, wire, bounds
<1>4. CASE UStart
  <2>1. UNCHANGED <<fsw, losses>> /\ fstate' = [fstate EXCEPT ![ufile] = "TRANSMITTING"]
    BY <1>4 DEF UStart, Push, bounds
  <2> QED
    BY <2>1, OutcomesFrame DEF DiskOK
<1>5. CASE USent
  BY <1>5, OutcomesFrame DEF USent, disk, wire, bounds
<1>6. CASE UWait
  BY <1>6, OutcomesFrame DEF UWait, disk, wire, bounds
<1>7. CASE REnd
  <2>1. /\ hands # <<>> /\ tpc = "idle" /\ state = "END_WAIT" /\ Answered /\ active \in Files
        /\ expected.type \in {"END", "CANCEL"}
    BY <1>7, HandsExpected DEF REnd, Take, Calm, Gentle, Phase, Ending, Threads
  <2>2. UNCHANGED <<fsw, losses>> /\ fstate' = [fstate EXCEPT ![active] = EndMark(@)]
    BY <1>7 DEF REnd, bounds
  <2>3. TimeoutMeansLoss'
    <3>1. \A f \in Files : fstate'[f] = "TIMEOUT" => fstate[f] = "TIMEOUT"
      BY <2>1, <2>2 DEF EndMark, DiskOK
    <3> QED
      BY <2>2, <3>1 DEF Outcomes, TimeoutMeansLoss
  <2>4. CASE expected.type = "END"
    <3> DEFINE e == Len(fsw)
    <3>1. fsw[e].type = "END" /\ Completed(fsw, active, e) /\ e \in 1 .. Len(fsw)
      BY <2>1, <2>4 DEF Answered, Progress, Closing, WireOK
    <3>2. \A f \in Files : f # active => fstate'[f] = fstate[f]
      BY <2>2 DEF DiskOK
    <3> QED
      BY <2>2, <2>3, <3>1, <3>2 DEF Outcomes, EndsComplete, Told
  <2>5. CASE expected.type = "CANCEL"
    <3>1. fstate[active] = "CANCELED"
      BY <2>1, <2>5 DEF Progress, Canceling
    <3>2. fstate' = fstate
      BY <2>1, <2>2, <3>1 DEF EndMark, DiskOK
    <3> QED
      BY <2>2, <3>2, OutcomesFrame
  <2> QED
    BY <2>1, <2>4, <2>5
<1>8. CASE RStopTimer
  BY <1>8, OutcomesFrame DEF RStopTimer, disk, wire, bounds
<1>9. CASE RCancel
  BY <1>9, OutcomesFrame DEF RCancel, disk, wire, bounds, Close
<1>10. CASE RNext
  BY <1>10, OutcomesFrame DEF RNext, disk, wire, bounds, Take
<1>11. CASE RData
  BY <1>11, OutcomesFrame DEF RData, disk, wire, bounds, Push
<1>12. CASE REof
  BY <1>12, OutcomesFrame DEF REof, disk, wire, bounds, Close, Push
<1>13. CASE TFire
  BY <1>13, OutcomesFrame DEF TFire, disk, wire, bounds
<1>14. CASE TFinish
  BY <1>14, OutcomesFrame DEF TFinish, disk, wire, bounds, Close
<1>15. CASE TRelease
  BY <1>15, OutcomesFrame DEF TRelease, disk, wire, bounds
<1>16. CASE TMark
  <2>1. UNCHANGED <<fsw,
                    losses>> /\ fstate' = [fstate EXCEPT ![active] = "TIMEOUT"] /\ losses > 0
    BY <1>16 DEF TMark, wire, bounds, Phase, Threads
  <2> QED
    BY <2>1, OutcomesFrame DEF DiskOK
<1>17. CASE Deliver
  <2>1. /\ upc # "sent" /\ tpc = "idle" /\ link # <<>> /\ fsw' = Append(fsw, Head(link))
        /\ UNCHANGED <<fstate, losses>> /\ Head(link) \in Packets
    BY <1>17, OutOfWindows DEF Deliver, Calm, Gentle, disk, bounds, WireOK
  <2>2. state # "IDLE" /\ link = <<expected>>
    BY <2>1 DEF Phase, Resting, Ending, Under, Waits, Silent, OnItsWay, Echoed, Lost,
         Sending, EngineOK
  <2>3. Head(link) = expected /\ active \in Files
    BY <2>2 DEF Phase, Threads
  <2> DEFINE e == Len(fsw)
  <2>4. /\ e \in Nat /\ Len(fsw') = e + 1 /\ fsw'[e + 1] = expected
        /\ \A i \in 1 .. e : fsw'[i] = fsw[i]
    BY <2>1, <2>3, AppendFacts DEF WireOK
  <2>5. \A i \in 1 .. e, f \in Files : Completed(fsw, f, i) => Completed(fsw', f, i)
    BY <2>1, CompletedKept DEF WireOK
  <2>6. ASSUME expected.type = "END"
        PROVE  Source[active] = expected.path /\ Completed(fsw', active, e + 1)
    <3>1. state = "END_WAIT"
      BY <2>1, <2>2, <2>6 DEF Phase, Under, Sending, EngineOK
    <3>2. /\ expected.path = Source[active] /\ expected.body = ReadTo(active, Planned(active))
          /\ Arrived(fsw, active, Planned(active), e)
      BY <2>1, <2>6, <3>1 DEF Progress, Closing
    <3>3. (e + 1) - 1 = e /\ e \in 0 .. Len(fsw) /\ Planned(active) \in Nat
      BY <2>3, <2>4, PlannedFacts, PlanType
    <3>4. Arrived(fsw', active, Planned(active), e)
      BY <2>1, <2>3, <3>2, <3>3, ArrivedKept DEF WireOK
    <3> HIDE DEF e
    <3> QED
      BY <2>4, <3>2, <3>3, <3>4 DEF Completed
  <2> HIDE DEF e
  <2>7. EndsComplete'
    <3>1. ASSUME NEW i \in 1 .. e + 1, fsw'[i].type = "END"
          PROVE  \E f \in Files : Source[f] = fsw'[i].path /\ Completed(fsw', f, i)
      <4>1. CASE i = e + 1
        BY <2>3, <2>4, <2>6, <3>1, <4>1
      <4>2. CASE i \in 1 .. e
        BY <2>4, <2>5, <3>1, <4>2 DEF Outcomes, EndsComplete, e
      <4> QED
        BY <2>4, <4>1, <4>2
    <3> QED
      BY <2>4, <3>1 DEF EndsComplete
  <2>8. Told'
    <3>1. ASSUME NEW f \in Files, fstate'[f] = "FINISHED"
          PROVE  \E i \in 1 .. Len(fsw') : fsw'[i].type = "END" /\ Completed(fsw', f, i)
      <4>1. PICK i \in 1 .. e : fsw[i].type = "END" /\ Completed(fsw, f, i)
        BY <2>1, <3>1 DEF Outcomes, Told, e
      <4> QED
        BY <2>4, <2>5, <4>1
    <3> QED
      BY <3>1 DEF Told
  <2> QED
    BY <2>1, <2>7, <2>8 DEF Outcomes, TimeoutMeansLoss
<1>18. CASE Lose
  <2>1. UNCHANGED <<fsw, fstate>> /\ losses' = losses + 1
    BY <1>18 DEF Lose, disk
  <2> QED
    BY <2>1, OutcomesFrame DEF BoundsOK
<1>19. ASSUME NEW c \in Clients, NEW f \in Files, CEnqueue(c, f) PROVE Outcomes'
  <2>1. UNCHANGED <<fsw, losses>> /\ fstate' = [fstate EXCEPT ![f] = "QUEUED"]
    BY <1>19 DEF CEnqueue, wire, bounds
  <2> QED
    BY <2>1, OutcomesFrame DEF DiskOK
<1>20. ASSUME NEW c \in Clients, NEW p \in Paths, CCancelRemove(c, p) PROVE Outcomes'
  BY <1>20, OutcomesFrame DEF CCancelRemove, disk, wire, bounds
<1>21. ASSUME NEW c \in Clients, CPause(c) PROVE Outcomes'
  BY <1>21, OutcomesFrame DEF CPause, disk, wire, bounds
<1>22. ASSUME NEW c \in Clients, CUnpause(c) PROVE Outcomes'
  BY <1>22, OutcomesFrame DEF CUnpause, disk, wire, bounds
<1>23. ASSUME NEW c \in Clients, CAppend(c) PROVE Outcomes'
  BY <1>23, OutcomesFrame DEF CAppend, disk, wire, bounds
<1>24. ASSUME NEW c \in Clients, CCancel(c) PROVE Outcomes'
  BY <1>24, OutcomesFrame DEF CCancel, disk, wire, bounds
<1>25. ASSUME NEW c \in Clients, CSetCanceled(c) PROVE Outcomes'
  <2>1. UNCHANGED <<fsw, losses>> /\ fstate' = [fstate EXCEPT ![active] = "CANCELED"]
    BY <1>25 DEF CSetCanceled, wire, bounds
  <2> QED
    BY <2>1, OutcomesFrame DEF DiskOK
<1>26. ASSUME NEW c \in Clients, CPauseQueue(c) PROVE Outcomes'
  BY <1>26, OutcomesFrame DEF CPauseQueue, disk, wire, bounds
<1>27. ASSUME NEW c \in Clients, CHold(c) PROVE Outcomes'
  BY <1>27, OutcomesFrame DEF CHold, disk, wire, bounds
<1>28. ASSUME NEW c \in Clients, CResume(c) PROVE Outcomes'
  BY <1>28, OutcomesFrame DEF CResume, disk, wire, bounds
<1>29. ASSUME NEW c \in Clients, CScanEnd(c) PROVE Outcomes'
  BY <1>29, OutcomesFrame DEF CScanEnd, disk, wire, bounds
<1>30. ASSUME NEW c \in Clients, CScanDrop(c) PROVE Outcomes'
  BY <1>30, OutcomesFrame DEF CScanDrop, disk, wire, bounds
<1>31. ASSUME NEW c \in Clients, CScanTake(c) PROVE Outcomes'
  BY <1>31, OutcomesFrame DEF CScanTake, disk, wire, bounds
<1>32. ASSUME NEW c \in Clients, CReplace(c) PROVE Outcomes'
  BY <1>32, OutcomesFrame DEF CReplace, disk, wire, bounds
<1>33. CASE UNCHANGED vars
  BY <1>33, OutcomesFrame DEF vars, disk, wire, bounds
<1> QED
  BY Moves, <1>1, <1>2, <1>3, <1>4, <1>5, <1>6, <1>7, <1>8, <1>9, <1>10, <1>11, <1>12, <1>13,
     <1>14, <1>15, <1>16, <1>17, <1>18, <1>19, <1>20, <1>21, <1>22, <1>23, <1>24, <1>25, <1>26,
     <1>27, <1>28, <1>29, <1>30, <1>31, <1>32, <1>33

-----------------------------------------------------------------------------
(* As long as no call takes the queue apart, the queue is the end of the    *)
(* list of uploads that has not been started.                               *)
Taken(n) == \A i \in 1 .. n : Started(store[i]) \/ (i = n /\ ThreadHolds /\ ufile = store[n])
Queued(n) ==
    /\ \A i \in 1 .. Len(store) - n : queue[i] = store[n + i]
    /\ \/ Len(queue) = Len(store) - n /\ \A c \in Clients : cpc[c] = "idle"
       \/ /\ Len(queue) = (Len(store) - n) + 1
          /\ \E c \in Clients : /\ cpc[c] = "append" /\ call[c].found = queue[Len(queue)]
                                /\ \A d \in Clients : d # c => cpc[d] = "idle"
InOrder == ops = 0 => running /\ \E n \in 0 .. Len(store) : Taken(n) /\ Queued(n)

LEMMA ClientsAsleep ==
    ASSUME InOrder, ops = 0, NEW c \in Clients
    PROVE  cpc[c] \in {"idle", "append"}
BY DEF InOrder, Queued

LEMMA OrderFrame ==
    ASSUME TypeOK, InOrder, UNCHANGED <<queue, store, running, cpc, call, ops>>,
           ThreadHolds => (ThreadHolds' /\ ufile' = ufile) \/ Started(ufile)',
           \A f \in Files : Started(f) => Started(f)', UNCHANGED ufile
    PROVE  InOrder'
<1> SUFFICES ASSUME ops = 0 PROVE InOrder'
  BY DEF InOrder
<1>1. PICK n \in 0 .. Len(store) : Taken(n) /\ Queued(n)
  BY DEF InOrder
<1>2. store \in Seq(Files) /\ \A i \in 1 .. n : store[i] \in Files
  BY DEF TypeOK, JobsOK
<1>3. \A f \in Files : Started(f) => fstate'[f] \notin {"NEW", "QUEUED"}
  BY DEF Started
<1>4. \A i \in 1 .. n : fstate'[store[i]] \notin {"NEW", "QUEUED"}
                       \/ (i = n /\ ThreadHolds' /\ ufile = store[n])
  BY <1>1, <1>2, <1>3 DEF Taken, Started
<1>5. running /\ Taken(n)' /\ Queued(n)'
  BY <1>1, <1>4 DEF Taken, Queued, InOrder, Started
<1> QED
  BY <1>1, <1>5 DEF InOrder

(* The queue is taken from its head only.                                  *)
LEMMA OrderStep ==
    ASSUME Calm, TypeOK, PlaceInv, Phase, Token, Excluded, Sources, InOrder, [Next]_vars
    PROVE  InOrder'
<1> USE DEF TypeOK
<1>1. CASE UOuter
  BY <1>1, StartedStays, OrderFrame DEF UOuter, jobs, threads, client, bounds, ThreadHolds
<1>2. CASE UGet
  <2> SUFFICES ASSUME ops = 0 PROVE InOrder'
    BY <1>2 DEF UGet, InOrder, bounds
  <2>1. PICK n \in 0 .. Len(store) : Taken(n) /\ Queued(n)
    BY DEF InOrder
  <2>2. /\ running /\ upc = "get" /\ ClientsSlow /\ queue # <<>> /\ Head(queue) # NoFile
        /\ UNCHANGED <<running, store, cpc, call, fstate>>
    <3>1. running
      BY DEF InOrder
    <3>2. ClientsSlow /\ queue # <<>> /\ upc = "get" /\ UNCHANGED <<running, store, cpc,
                                                                    call, fstate>>
      BY <1>2, OutOfWindows DEF UGet, Calm, Gentle, disk, client
    <3>3. Head(queue) # NoFile
      BY <3>2, TailFacts DEF Excluded, JobsOK
    <3> QED
      BY <3>1, <3>2, <3>3
  <2>3. queue' = Tail(queue) /\ ufile' = Head(queue) /\ upc' = "acquire"
    BY <1>2, <2>2 DEF UGet, Rest
  <2>4. Len(queue) = Len(store) - n /\ \A c \in Clients : cpc[c] = "idle"
    BY <2>1, <2>2 DEF Queued, ClientsSlow, Quick
  <2>5. /\ Len(queue) >= 1 /\ Head(queue) = queue[1] /\ Len(queue') = Len(queue) - 1
        /\ \A i \in 1 .. Len(queue) - 1 : queue'[i] = queue[i + 1]
    BY <2>2, <2>3, TailFacts DEF JobsOK
  <2> DEFINE L == Len(store)
             m == n + 1
  <2>6. L \in Nat /\ m \in 1 .. L /\ Len(queue') = L - m
    BY <2>4, <2>5 DEF JobsOK
  <2>7. \A i \in 1 .. L - n : queue[i] = store[n + i]
    BY <2>1 DEF Queued
  <2>8. ufile' = store[m]
    BY <2>3, <2>4, <2>5, <2>6, <2>7
  <2>9. \A i \in 1 .. L - m : queue'[i] = store[m + i]
    <3>1. \A i \in 1 .. L - m : i + 1 \in 1 .. L - n /\ n + (i + 1) = m + i /\ i \in 1 .. Len(queue) - 1
      BY <2>4, <2>6
    <3> QED
      BY <2>5, <2>7, <3>1
  <2>10. \A i \in 1 .. n : fstate[store[i]] \notin {"NEW", "QUEUED"}
    BY <2>1, <2>2 DEF Taken, ThreadHolds, Started
  <2>11. Taken(m)'
    <3>1. \A i \in 1 .. m : i = m \/ i \in 1 .. n
      OBVIOUS
    <3> HIDE DEF m
    <3>2. ThreadHolds'
      BY <2>3 DEF ThreadHolds
    <3> QED
      BY <2>2, <2>8, <2>10, <3>1, <3>2 DEF Taken, Started
  <2>12. Queued(m)'
    BY <2>2, <2>4, <2>6, <2>9 DEF Queued
  <2> QED
    BY <2>2, <2>6, <2>11, <2>12 DEF InOrder
<1>3. CASE UAcquire
  BY <1>3, StartedStays, OrderFrame DEF UAcquire, jobs, threads, client, bounds, ThreadHolds
<1>4. CASE UStart
  <2>1. ufile \in Files /\ UNCHANGED <<queue, store, running, cpc, call, ops, ufile>>
        /\ fstate' = [fstate EXCEPT ![ufile] = "TRANSMITTING"]
    BY <1>4 DEF UStart, jobs, client, bounds, ThreadsOK
  <2>2. Started(ufile)'
    BY <2>1 DEF Started, DiskOK
  <2> QED
    BY <2>1, <2>2, StartedStays, OrderFrame
<1>5. CASE USent
  BY <1>5, StartedStays, OrderFrame DEF USent, jobs, threads, client, bounds, ThreadHolds
<1>6. CASE UWait
  BY <1>6, StartedStays, OrderFrame DEF UWait, jobs, threads, client, bounds, ThreadHolds
<1>7. CASE REnd
  BY <1>7, StartedStays, OrderFrame DEF REnd, jobs, threads, client, bounds, ThreadHolds
<1>8. CASE RStopTimer
  BY <1>8, StartedStays, OrderFrame DEF RStopTimer, jobs, threads, client, bounds, ThreadHolds
<1>9. CASE RCancel
  BY <1>9, StartedStays, OrderFrame DEF RCancel, jobs, threads, client, bounds, ThreadHolds
<1>10. CASE RNext
  BY <1>10, StartedStays, OrderFrame DEF RNext, jobs, threads, client, bounds, ThreadHolds
<1>11. CASE RData
  BY <1>11, StartedStays, OrderFrame DEF RData, jobs, threads, client, bounds, ThreadHolds
<1>12. CASE REof
  BY <1>12, StartedStays, OrderFrame DEF REof, jobs, threads, client, bounds, ThreadHolds
<1>13. CASE TFire
  BY <1>13, StartedStays, OrderFrame DEF TFire, jobs, threads, client, bounds, ThreadHolds
<1>14. CASE TFinish
  BY <1>14, StartedStays, OrderFrame DEF TFinish, jobs, threads, client, bounds, ThreadHolds
<1>15. CASE TRelease
  BY <1>15, StartedStays, OrderFrame DEF TRelease, jobs, threads, client, bounds, ThreadHolds
<1>16. CASE TMark
  BY <1>16, StartedStays, OrderFrame DEF TMark, jobs, threads, client, bounds, ThreadHolds
<1>17. CASE Deliver
  BY <1>17, StartedStays, OrderFrame DEF Deliver, jobs, threads, client, bounds, ThreadHolds
<1>18. CASE Lose
  BY <1>18, StartedStays, OrderFrame DEF Lose, jobs, threads, client, bounds, ThreadHolds
<1>19. ASSUME NEW c \in Clients, NEW f \in Files, CEnqueue(c, f) PROVE InOrder'
  <2> SUFFICES ASSUME ops = 0 PROVE InOrder'
    BY <1>19 DEF CEnqueue, InOrder, bounds
  <2>1. PICK n \in 0 .. Len(store) : Taken(n) /\ Queued(n)
    BY DEF InOrder
  <2>2. /\ ClientsSlow /\ queue' = Append(queue, f) /\ cpc'[c] = "append"
        /\ call'[c].found = f
        /\ \A d \in Clients : d # c => cpc'[d] = cpc[d]
        /\ fstate[f] = "NEW" /\ fstate' = [fstate EXCEPT ![f] = "QUEUED"]
        /\ UNCHANGED <<running, store, upc, ufile>>
    BY <1>19, OutOfWindows DEF CEnqueue, Calm, Gentle, Put, Enter, Goto, IdleCall, threads,
       ClientOK
  <2>3. Len(queue) = Len(store) - n /\ \A d \in Clients : cpc[d] = "idle"
    BY <2>1, <2>2 DEF Queued, ClientsSlow, Quick
  <2>4. /\ Len(queue') = Len(queue) + 1 /\ queue'[Len(queue) + 1] = f
        /\ \A i \in 1 .. Len(queue) : queue'[i] = queue[i]
    BY <2>2, AppendFacts, ConstantsAssumption DEF JobsOK
  <2>5. Queued(n)'
    <3>1. \A i \in 1 .. Len(store') - n : queue'[i] = store'[n + i]
      BY <2>1, <2>2, <2>3, <2>4 DEF Queued
    <3>2. Len(queue') = (Len(store') - n) + 1 /\ call'[c].found = queue'[Len(queue')]
      BY <2>2, <2>3, <2>4
    <3>3. \A d \in Clients : d # c => cpc'[d] = "idle"
      BY <2>2, <2>3
    <3> QED
      BY <2>2, <3>1, <3>2, <3>3 DEF Queued
  <2>6. Taken(n)'
    <3>1. \A g \in Files : Started(g) => fstate'[g] \notin {"NEW", "QUEUED"}
      BY <2>2 DEF Started, DiskOK
    <3>2. \A i \in 1 .. n : store[i] \in Files
      BY DEF JobsOK
    <3> QED
      BY <2>1, <2>2, <3>1, <3>2 DEF Taken, Started, ThreadHolds
  <2> QED
    BY <2>1, <2>2, <2>5, <2>6 DEF InOrder
<1>20. ASSUME NEW c \in Clients, NEW p \in Paths, CCancelRemove(c, p) PROVE InOrder'
  BY <1>20 DEF CCancelRemove, Calls, InOrder, BoundsOK
<1>21. ASSUME NEW c \in Clients, CPause(c) PROVE InOrder'
  BY <1>21 DEF CPause, Calls, InOrder, BoundsOK
<1>22. ASSUME NEW c \in Clients, CUnpause(c) PROVE InOrder'
  BY <1>22 DEF CUnpause, Calls, InOrder, BoundsOK
<1>23. ASSUME NEW c \in Clients, CAppend(c) PROVE InOrder'
  <2> SUFFICES ASSUME ops = 0 PROVE InOrder'
    BY <1>23 DEF CAppend, InOrder, bounds
  <2>1. PICK n \in 0 .. Len(store) : Taken(n) /\ Queued(n)
    BY DEF InOrder
  <2>2. /\ cpc[c] = "append" /\ store' = Append(store, call[c].found)
        /\ call[c].found \in Files
        /\ cpc'[c] = "idle" /\ \A d \in Clients : d # c => cpc'[d] = cpc[d]
        /\ UNCHANGED <<running, queue, fstate, upc, ufile>>
    BY <1>23 DEF CAppend, Return, Enter, Goto, disk, threads, ClientOK
  <2>3. /\ Len(queue) = (Len(store) - n) + 1 /\ call[c].found = queue[Len(queue)]
        /\ \A d \in Clients : d # c => cpc[d] = "idle"
    BY <2>1, <2>2 DEF Queued
  <2>4. /\ Len(store') = Len(store) + 1 /\ store'[Len(store) + 1] = call[c].found
        /\ \A i \in 1 .. Len(store) : store'[i] = store[i]
        /\ Len(store) \in Nat
    BY <2>2, AppendFacts DEF JobsOK
  <2>5. Queued(n)'
    <3>1. ASSUME NEW i \in 1 .. Len(store') - n
          PROVE  queue'[i] = store'[n + i]
      <4>1. CASE i = (Len(store) - n) + 1
        <5>1. n + i = Len(store) + 1 /\ i = Len(queue)
          BY <2>3, <2>4, <4>1
        <5> QED
          BY <2>2, <2>3, <2>4, <5>1
      <4>2. CASE i \in 1 .. Len(store) - n
        BY <2>1, <2>2, <2>4, <4>2 DEF Queued
      <4> QED
        BY <2>4, <4>1, <4>2
    <3>2. Len(queue') = Len(store') - n /\ \A d \in Clients : cpc'[d] = "idle"
      BY <2>2, <2>3, <2>4
    <3> QED
      BY <3>1, <3>2 DEF Queued
  <2>6. Taken(n)'
    BY <2>1, <2>2, <2>4 DEF Taken, Started, ThreadHolds
  <2> QED
    BY <2>1, <2>2, <2>4, <2>5, <2>6 DEF InOrder
<1>24. ASSUME NEW c \in Clients, CCancel(c) PROVE InOrder'
  BY <1>24, ClientsAsleep DEF CCancel, InOrder, bounds
<1>25. ASSUME NEW c \in Clients, CSetCanceled(c) PROVE InOrder'
  BY <1>25, ClientsAsleep DEF CSetCanceled, InOrder, bounds
<1>26. ASSUME NEW c \in Clients, CPauseQueue(c) PROVE InOrder'
  BY <1>26, ClientsAsleep DEF CPauseQueue, InOrder, bounds
<1>27. ASSUME NEW c \in Clients, CHold(c) PROVE InOrder'
  BY <1>27, ClientsAsleep DEF CHold, InOrder, bounds
<1>28. ASSUME NEW c \in Clients, CResume(c) PROVE InOrder'
  BY <1>28, ClientsAsleep DEF CResume, InOrder, bounds
<1>29. ASSUME NEW c \in Clients, CScanEnd(c) PROVE InOrder'
  BY <1>29, ClientsAsleep DEF CScanEnd, InOrder, bounds
<1>30. ASSUME NEW c \in Clients, CScanDrop(c) PROVE InOrder'
  BY <1>30, ClientsAsleep DEF CScanDrop, InOrder, bounds
<1>31. ASSUME NEW c \in Clients, CScanTake(c) PROVE InOrder'
  BY <1>31, ClientsAsleep DEF CScanTake, InOrder, bounds
<1>32. ASSUME NEW c \in Clients, CReplace(c) PROVE InOrder'
  BY <1>32, ClientsAsleep DEF CReplace, InOrder, bounds
<1>33. CASE UNCHANGED vars
  BY <1>33, StartedStays, OrderFrame DEF vars, disk, jobs, threads, client, bounds,
       ThreadHolds
<1> QED
  BY Moves, <1>1, <1>2, <1>3, <1>4, <1>5, <1>6, <1>7, <1>8, <1>9, <1>10, <1>11, <1>12, <1>13,
     <1>14, <1>15, <1>16, <1>17, <1>18, <1>19, <1>20, <1>21, <1>22, <1>23, <1>24, <1>25, <1>26,
     <1>27, <1>28, <1>29, <1>30, <1>31, <1>32, <1>33

-----------------------------------------------------------------------------
CalmInv == /\ TypeOK /\ PlaceInv /\ OneWindow /\ Flow /\ Phase /\ Token /\ Excluded
           /\ Sources /\ Wire /\ Progress /\ Outcomes /\ InOrder

LEMMA CalmInit == ASSUME Calm, Init PROVE CalmInv
<1>1. TypeOK /\ PlaceInv
  BY TypeInit, PlaceInit
<1>2. OneWindow /\ Phase /\ Flow
  BY DEF Init, OneWindow, ClientsSlow, Quick, Phase, Opening, Resting, Ending, Under, Threads,
         Sending, Silent, Flow
<1>3. Token
  BY DEF Init, Token, One, Transferring, Holds, Resumes
<1>4. Excluded
  BY DEF Init, Excluded, IdleCall
<1>5. Sources
  BY DEF Init, Sources, Live, InQueue, ThreadHolds, Sending
<1>6. Wire /\ Outcomes
  BY DEF Init, Wire, StreamWellFormed, NextFits, Outcomes, EndsComplete, Told,
       TimeoutMeansLoss
<1>7. Progress
  BY DEF Init, Progress, Untouched, Reading, Carrying, Closing, Canceling, Sending
<1>8. InOrder
  <2>1. Taken(0) /\ Queued(0) /\ running /\ 0 \in 0 .. Len(store)
    BY DEF Init, Taken, Queued
  <2> QED
    BY <2>1 DEF InOrder
<1> QED
  BY <1>1, <1>2, <1>3, <1>4, <1>5, <1>6, <1>7, <1>8 DEF CalmInv

LEMMA CalmStep == ASSUME Calm, CalmInv, [Next]_vars PROVE CalmInv'
<1> USE DEF CalmInv
<1>1. TypeOK' /\ PlaceInv'
  BY TypeStep, PlaceStep
<1>2. OneWindow'
  BY OneWindowStep DEF Calm, Gentle
<1>3. Phase' /\ Flow' /\ Token'
  <2>1. Unpaused /\ ~exiting'
    BY ExcludedStep DEF Excluded, Unpaused
  <2> QED
    BY <2>1, PhaseStep, FlowStep, TokenStep DEF Calm
<1>4. Excluded' /\ Sources'
  BY ExcludedStep, SourcesStep
<1>5. Wire' /\ Progress' /\ Outcomes'
  BY WireStep, ProgressStep, OutcomesStep
<1>6. InOrder'
  BY OrderStep
<1> QED
  BY <1>1, <1>2, <1>3, <1>4, <1>5, <1>6

LEMMA CalmAlways == ASSUME Calm PROVE Spec => []CalmInv
<1>1. Init => CalmInv
  BY CalmInit
<1>2. CalmInv /\ [Next]_vars => CalmInv'
  BY CalmStep
<1> QED
  BY <1>1, <1>2, PTL DEF Spec

(* The UplinkerThread never finds the uplinker busy or a source missing,    *)
(* what waits has its source on disk, and uploads start in their order      *)
(* (UplinkQueue.run, FileUplinker.start, finish).                           *)
THEOREM QueueIsKept == ASSUME Calm PROVE Spec => []QueueKept
<1>1. ASSUME CalmInv
      PROVE  QueueKept
  <2>1. ThreadSurvives
    BY <1>1 DEF CalmInv, Excluded, ThreadSurvives
  <2>2. DOMAIN queue = 1 .. Len(queue) /\ DOMAIN store = 1 .. Len(store) /\ Len(store) \in Nat
    BY <1>1 DEF CalmInv, TypeOK, JobsOK
  <2>3. QueuedOnDisk
    BY <1>1, <2>2 DEF CalmInv, Sources, Live, InQueue, ThreadHolds, QueuedOnDisk, Waiting
  <2>4. StartedInOrder
    <3> SUFFICES ASSUME ops = 0, NEW i \in 1 .. Len(store), NEW j \in 1 .. Len(store),
                        i < j, fstate[store[i]] = "QUEUED"
                 PROVE  fstate[store[j]] = "QUEUED"
      BY <2>2 DEF StartedInOrder
    <3>1. PICK n \in 0 .. Len(store) : Taken(n) /\ Queued(n)
      BY <1>1 DEF CalmInv, InOrder
    <3>2. i >= n
      BY <3>1 DEF Taken, Started
    <3> DEFINE k == j - n
    <3>3. k \in 1 .. Len(store) - n /\ n + k = j
      BY <2>2, <3>2
    <3>4. Len(queue) >= Len(store) - n /\ Len(queue) \in Nat
      <4>1. Len(queue) \in Nat
        BY <1>1 DEF CalmInv, TypeOK, JobsOK
      <4>2. Len(queue) = Len(store) - n \/ Len(queue) = (Len(store) - n) + 1
        BY <3>1 DEF Queued
      <4>3. Len(store) \in Nat /\ n \in Nat
        BY <2>2
      <4> QED
        BY <4>1, <4>2, <4>3
    <3>5. k \in 1 .. Len(queue)
      BY <2>2, <3>3, <3>4
    <3> HIDE DEF k
    <3>6. queue[k] = store[j] /\ queue[k] # NoFile
      BY <1>1, <3>1, <3>3, <3>5 DEF Queued, CalmInv, Excluded
    <3> QED
      BY <1>1, <3>5, <3>6 DEF CalmInv, PlaceInv, QueueWaits
  <2> QED
    BY <2>1, <2>3, <2>4 DEF QueueKept
<1> QED
  BY <1>1, CalmAlways, PTL

(* One packet is under way at a time, and what arrives is a sequence of     *)
(* transfers numbered without a gap (send, data_callback, timeout).         *)
THEOREM WireProtocolKept == ASSUME Calm PROVE Spec => []WireProtocol
<1>1. CalmInv => WireProtocol
  BY OneUnderWay DEF CalmInv, Wire, WireProtocol
<1> QED
  BY <1>1, CalmAlways, PTL

(* An END packet arrives after exactly the planned chunks, a file shown as  *)
(* FINISHED has arrived whole, and only a loss makes one time out           *)
(* (TransmitFile.read, data_callback, timeout).                             *)
THEOREM OutcomesAreTrue == ASSUME Calm PROVE Spec => []OutcomesTrue
<1>1. CalmInv => OutcomesTrue
  BY OutcomesAgree DEF CalmInv
<1> QED
  BY <1>1, CalmAlways, PTL
=============================================================================
