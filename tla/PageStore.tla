------------------------------ MODULE PageStore ------------------------------
(* The copy of the histories that a web page keeps (js/datastore.js), fed by  *)
(* the answers of one polled endpoint, with the bookkeeping around each       *)
(* answer (js/validate.js): counts, errors, timing.  Items are numbered in    *)
(* the order they arrive.                                                     *)
EXTENDS Integers, Sequences, SequencesExt, FiniteSets, FiniteSetsExt

CONSTANTS MaxStored,
          MaxStoreTime,   \* for each endpoint, how long a run may last
          DataTimeout, BehindTime, ErrorLimit

Endpoints == {"events", "channels", "upfiles"}

ASSUME StoreAssumption ==
  /\ MaxStored \in Nat /\ MaxStoreTime \in [Endpoints -> Nat]
  /\ DataTimeout \in Nat /\ BehindTime \in Nat \ {0} /\ ErrorLimit \in Nat

Ids == {1, 2}
Times == {1, 2}
Unset == [id |-> 0, time |-> 0, n |-> 0]

VARIABLES endpoint,      \* the endpoint this page polls
          list,          \* ListHistory's and FullListHistory's store
          map,           \* MappedHistory's store
          counter,       \* items received; the next incremental id
          bufferLimit, lastReceived,   \* the settings, changed at any time
          broken,        \* a consumer that throws is registered
          flag, timer,   \* the activity flag, and when its timeout is due
          storeTime,
          severe,        \* the page's count of severe events
          gdsErrors, errorLog,         \* all errors, and the window of them
          goodAt         \* falling_behind: the last good answer or report
VARIABLES received,      \* ghost: every item since the last clear
          wanted,        \* ghost: the settings under which the list was kept
          arrivedAt,     \* ghost: when the last items came
          lastGood, reports  \* ghost: the last good answer, reports since then
storeVars == <<endpoint, list, map, counter, bufferLimit, lastReceived, broken, flag, timer,
               storeTime, severe, gdsErrors, errorLog, goodAt, received, wanted, arrivedAt,
               lastGood, reports>>
settings == <<endpoint, bufferLimit, lastReceived, broken>>
activity == <<flag, timer, arrivedAt>>
timing == <<goodAt, lastGood, reports>>
contents == <<list, map, counter, severe, received, wanted>>

StoreInit ==
  /\ endpoint \in Endpoints
  /\ list = <<>> /\ map = [id \in Ids |-> Unset] /\ counter = 0
  /\ bufferLimit = 0 /\ lastReceived = TRUE /\ broken = FALSE
  /\ flag = FALSE /\ timer = -1 /\ storeTime = 0
  /\ severe = 0 /\ gdsErrors = 0 /\ errorLog = <<>>
  /\ goodAt = -1 /\ received = <<>> /\ wanted = {} /\ arrivedAt = -1
  /\ lastGood = -1 /\ reports = 0
----------------------------------------------------------------------------
(* ListHistory.send; a limit of 0 or less means no limit.                     *)
LastOf(s, n) == SubSeq(s, Len(s) - n + 1, Len(s))
Trim(s) == IF bufferLimit > 0 /\ Len(s) > bufferLimit THEN LastOf(s, bufferLimit) ELSE s

(* FullListHistory.send: replaced when it differs in length or in an item.    *)
FullList(items) ==
  IF Len(list) # Len(items) \/ \E i \in DOMAIN list : list[i] # items[i] THEN items ELSE list

(* MappedHistory.send: every item is compared with the store, not with the    *)
(* items before it in the same answer; the last one that passes is kept.      *)
Passes(item) == lastReceived \/ map[item.id].time <= item.time
BugAnyTime(items) ==
  [id \in Ids |-> LET seen == {i \in DOMAIN items : items[i].id = id}
                  IN IF seen = {} THEN map[id] ELSE items[Max(seen)]]
Merged(items) ==
  [id \in Ids |->
     LET passing == {i \in DOMAIN items : items[i].id = id /\ Passes(items[i])}
     IN IF passing = {} THEN map[id] ELSE items[Max(passing)]]

(* updateErrors: every error is counted, the window keeps the last ones.      *)
Logged(n) ==
  LET all == errorLog \o [i \in 1 .. n |-> gdsErrors + i]
  IN IF Len(all) > ErrorLimit THEN LastOf(all, ErrorLimit) ELSE all
AddErrors(n) == gdsErrors' = gdsErrors + n /\ errorLog' = Logged(n)

(* updateTiming: an answer within the polling interval is good; otherwise an  *)
(* error is due every BehindTime, counted from the last good answer or report *)
(* -- and never, as long as there was no good answer at all.                  *)
Behind(slow) == slow /\ goodAt # -1 /\ storeTime - goodAt >= BehindTime
UpdateTiming(slow) ==
  /\ goodAt' = IF ~slow \/ Behind(slow) THEN storeTime ELSE goodAt
  /\ lastGood' = IF slow THEN lastGood ELSE storeTime
  /\ reports' = IF ~slow THEN 0 ELSE IF Behind(slow) THEN reports + 1 ELSE reports
ReportOf(slow) == IF Behind(slow) THEN 1 ELSE 0
----------------------------------------------------------------------------
(* HistoryHelper.update: an empty answer changes nothing; otherwise the items *)
(* are numbered, every consumer gets them (the store itself is one; one that  *)
(* throws is an error and stops none of the others), and the activity flag is *)
(* set until DataTimeout after the last such answer.                          *)
Restarted == storeTime + DataTimeout
Update(items) ==
  IF items = <<>> THEN UNCHANGED <<contents, activity>>
  ELSE /\ counter' = counter + Len(items)
       /\ received' = received \o items
       /\ list' = CASE endpoint = "events" -> Trim(list \o items)
                    [] endpoint = "upfiles" -> FullList(items)
                    [] OTHER -> list
       /\ wanted' = IF bufferLimit > 0 THEN wanted \cup {bufferLimit} ELSE wanted
       /\ map' = IF endpoint = "channels" THEN Merged(items) ELSE map
       /\ arrivedAt' = storeTime
       /\ flag' = TRUE /\ timer' = Restarted

(* wrapFieldCounter: severe events are counted before the store sees them.    *)
Severe(items) == Cardinality({i \in DOMAIN items : items[i].id = 1})

Batches ==
  {[i \in DOMAIN b |-> [id |-> b[i][1], time |-> b[i][2], n |-> counter + i]] :
     b \in UNION {[1 .. k -> Ids \X (IF endpoint = "channels" THEN Times ELSE {1})] : k \in 0 .. 2}}

(* An answer with items, and an answer that is an error, each slow or not.    *)
Answered(items, slow) ==
  /\ counter + Len(items) <= MaxStored
  /\ Update(items)
  /\ severe' = IF endpoint = "events" THEN severe + Severe(items) ELSE severe
  /\ UpdateTiming(slow)
  /\ AddErrors(ReportOf(slow) + IF broken /\ items # <<>> THEN 1 ELSE 0)
  /\ UNCHANGED <<settings, storeTime>>
Failed(slow) ==
  /\ gdsErrors < MaxStored
  /\ UpdateTiming(slow)
  /\ AddErrors(ReportOf(slow) + 1)
  /\ UNCHANGED <<settings, storeTime, contents, activity>>

(* The timeout of the activity flag runs when it is due.                      *)
TimeOut ==
  /\ timer # -1 /\ timer <= storeTime
  /\ flag' = FALSE /\ timer' = -1
  /\ UNCHANGED <<settings, contents, storeTime, gdsErrors, errorLog, timing, arrivedAt>>

(* clearEvents and clearChannels.                                             *)
ClearStore ==
  /\ received # <<>>
  /\ list' = IF endpoint = "events" THEN <<>> ELSE list
  /\ map' = [id \in Ids |-> Unset]
  /\ received' = <<>> /\ wanted' = {}
  /\ endpoint # "upfiles"
  /\ UNCHANGED <<settings, counter, severe, activity, storeTime, gdsErrors, errorLog, timing>>

(* The user changes a setting that this endpoint reads; a consumer that throws*)
(* (a table that is no longer on the page) comes or goes.                     *)
Configure ==
  /\ CASE endpoint = "events" ->
            /\ bufferLimit' \in {0, 1, 2} /\ broken' \in BOOLEAN /\ UNCHANGED lastReceived
       [] endpoint = "channels" ->
            lastReceived' = ~lastReceived /\ UNCHANGED <<bufferLimit, broken>>
       [] OTHER -> FALSE
  /\ UNCHANGED <<endpoint, contents, activity, storeTime, gdsErrors, errorLog, timing>>

(* Time passes; a timeout that is due comes first.                            *)
Passing ==
  /\ storeTime < MaxStoreTime[endpoint]
  /\ ~(timer # -1 /\ timer <= storeTime)
  /\ storeTime' = storeTime + 1
  /\ UNCHANGED <<settings, contents, activity, gdsErrors, errorLog, timing>>

StoreNext ==
  \/ \E slow \in BOOLEAN : Failed(slow) \/ \E items \in Batches : Answered(items, slow)
  \/ TimeOut \/ ClearStore \/ Configure \/ Passing

StoreSpec == StoreInit /\ [][StoreNext]_storeVars
----------------------------------------------------------------------------
StoreTypeOK ==
  /\ endpoint \in Endpoints
  /\ \A i \in DOMAIN list : list[i].id \in Ids /\ list[i].n \in 1 .. counter
  /\ \A id \in Ids : map[id] # Unset => map[id].id = id
  /\ counter \in 0 .. MaxStored /\ severe \in 0 .. counter
  /\ flag \in BOOLEAN /\ timer \in -1 .. storeTime + DataTimeout
  /\ Len(errorLog) <= ErrorLimit

(* The events shown are the last ones received, without a gap, a repetition   *)
(* or a reordering, and with the buffer limited no more than the smallest     *)
(* limit since the last clear are missing: datastore.js:105.                  *)
NewestKept ==
  endpoint = "events" =>
    /\ Len(list) <= Len(received) /\ list = LastOf(received, Len(list))
    /\ Len(list) >= Min({Len(received)} \cup wanted)
    /\ \A i, j \in DOMAIN list : i < j => list[i].n < list[j].n

(* A list that is loaded whole is always the last one that was not empty.     *)
WholeList ==
  endpoint = "upfiles" /\ received # <<>> =>
    \E k \in DOMAIN list : list = LastOf(received, Len(list))
                           /\ LastOf(received, 1) = LastOf(list, 1)

(* Channels that show the newest time never go back in time between answers   *)
(* (datastore.js:169); those that show the last received show exactly it.     *)
LatestOf(id) ==
  LET seen == {i \in DOMAIN received : received[i].id = id}
  IN IF seen = {} THEN Unset ELSE received[Max(seen)]
MapForward ==
  [][\A id \in Ids :
       \/ received' = <<>>
       \/ ~lastReceived /\ map'[id].time >= map[id].time
       \/ lastReceived /\ map'[id] \in {map[id], LatestOf(id)'}]_storeVars

(* The activity flag tells whether items came within the last DataTimeout: no *)
(* older timeout cuts it short and none is forgotten (datastore.js:76).       *)
ActiveWhileFed ==
  /\ flag => arrivedAt # -1 /\ storeTime <= arrivedAt + DataTimeout
  /\ ~flag /\ arrivedAt # -1 => storeTime >= arrivedAt + DataTimeout

(* Errors are counted once each, whatever the window still shows: it holds    *)
(* the last ErrorLimit of them in order.                                      *)
ErrorsCounted ==
  errorLog = [i \in 1 .. Min({gdsErrors, ErrorLimit}) |-> gdsErrors - Min({gdsErrors, ErrorLimit}) + i]

(* A stall is reported again and again while it lasts, and not more often     *)
(* than every BehindTime (validate.js:274), once there was a good answer.     *)
StallReported ==
  lastGood # -1 =>
    /\ reports * BehindTime <= storeTime - lastGood
    /\ goodAt >= lastGood
    /\ reports > 0 => goodAt - lastGood >= reports * BehindTime
StallRepeats ==
  [][(gdsErrors' > gdsErrors /\ lastGood = lastGood' /\ lastGood # -1 /\ Failed(TRUE))
       => storeTime - goodAt' < BehindTime]_storeVars

(* The stores of a page follow the server: nothing kept is too old or too     *)
(* much, the lights and warnings go on when the data stops and never before,  *)
(* and every error is counted (datastore.js, validate.js).                    *)
StoresCurrent ==
  /\ []StoreTypeOK /\ []NewestKept /\ []WholeList /\ []ActiveWhileFed /\ []ErrorsCounted /\ []StallReported
  /\ MapForward /\ StallRepeats
=============================================================================
