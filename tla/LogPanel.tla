------------------------------ MODULE LogPanel ------------------------------
(* The log viewer of the web pages (vue-support/log.js): once a second, and   *)
(* without waiting for the last answer, it asks for the log that is selected  *)
(* and shows it.  The server (flask/logs.py) answers with the log's present   *)
(* content under the log's name, or with nothing when there is no such log.   *)
EXTENDS Naturals, FiniteSets

CONSTANTS Logs,         \* the logs of the server
          MaxLogLength, \* bound on their growth
          MaxAsked      \* bound on the requests under way

ASSUME LogAssumption == MaxLogLength \in Nat /\ MaxAsked \in Nat

NoLog == "none"         \* the initial selection: nothing is asked
NothingChosen == "null"       \* the selection after it was cleared: a log of that name is asked for
Blank == [log |-> NoLog, length |-> 0]

VARIABLES logLength,    \* content of each log, as its length
          selectedLog,
          asked,        \* the requests under way, and the answers of the server
          logText,      \* what is shown: a log and how much of it
          logError
VARIABLES shownSince    \* ghost: answers were shown since the selection changed
logVars == <<logLength, selectedLog, asked, logText, logError, shownSince>>

LogInit ==
  /\ logLength = [l \in Logs |-> 0]
  /\ selectedLog = NoLog /\ asked = {} /\ logText = Blank /\ logError = FALSE
  /\ shownSince = FALSE

LogGrows(l) ==
  /\ logLength[l] < MaxLogLength
  /\ logLength' = [logLength EXCEPT ![l] = @ + 1]
  /\ UNCHANGED <<selectedLog, asked, logText, logError, shownSince>>
SelectLog(l) ==
  /\ l # selectedLog
  /\ selectedLog' = l /\ shownSince' = FALSE
  /\ UNCHANGED <<logLength, asked, logText, logError>>

(* LogFile.get.                                                               *)
Content(l) == IF l \in Logs THEN [log |-> l, length |-> logLength[l]] ELSE Blank
(* update, once a second.                                                     *)
Unasked == {NoLog}
AskLog ==
  /\ selectedLog \notin Unasked /\ Cardinality(asked) < MaxAsked
  /\ asked' = asked \cup {[log |-> selectedLog, at |-> Content(selectedLog).length, answer |-> Blank, stage |-> "sent"]}
  /\ UNCHANGED <<logLength, selectedLog, logText, logError, shownSince>>

AnswerLog(r) ==
  /\ r \in asked /\ r.stage = "sent"
  /\ asked' = (asked \ {r}) \cup {[r EXCEPT !.stage = "ok", !.answer = Content(r.log)]}
  /\ UNCHANGED <<logLength, selectedLog, logText, logError, shownSince>>
LoseLog(r) ==
  /\ r \in asked /\ r.stage = "sent"
  /\ asked' = (asked \ {r}) \cup {[r EXCEPT !.stage = "failed"]}
  /\ UNCHANGED <<logLength, selectedLog, logText, logError, shownSince>>

(* The answer is looked up under the name that is selected when it comes.     *)
Looked(answer) == IF answer.log = selectedLog THEN answer ELSE Blank
ShowLog(r) ==
  /\ r \in asked /\ r.stage = "ok"
  /\ asked' = asked \ {r}
  /\ logText' = Looked(r.answer) /\ logError' = FALSE /\ shownSince' = TRUE
  /\ UNCHANGED <<logLength, selectedLog>>
BugErrorBlanks == Blank
TextOnError == logText
ShowLogError(r) ==
  /\ r \in asked /\ r.stage = "failed"
  /\ asked' = asked \ {r} /\ logError' = TRUE /\ logText' = TextOnError
  /\ UNCHANGED <<logLength, selectedLog, shownSince>>

LogNext ==
  \/ \E l \in Logs : LogGrows(l)
  \/ \E l \in Logs \cup {NothingChosen} : SelectLog(l)
  \/ AskLog
  \/ \E r \in asked : AnswerLog(r) \/ LoseLog(r) \/ ShowLog(r) \/ ShowLogError(r)
LogSpec == LogInit /\ [][LogNext]_logVars
----------------------------------------------------------------------------
LogTypeOK ==
  /\ logLength \in [Logs -> 0 .. MaxLogLength] /\ logError \in BOOLEAN
  /\ selectedLog \in Logs \cup {NoLog, NothingChosen} /\ Cardinality(asked) <= MaxAsked
  /\ logText.log \in Logs \cup {NoLog}

(* Once an answer was shown since the selection changed, no text of another   *)
(* log is on the screen, whatever answers are still to come (update).         *)
OwnText == shownSince => logText.log \in {NoLog, selectedLog}

(* The text on the screen was the log's at some time since it was asked for;  *)
(* it goes blank only by an answer to a request for another log or for none,  *)
(* and an error leaves it as it was.                                          *)
TextFromLog ==
  [][logText' # logText =>
       \E r \in asked \ asked' :
         \/ logText'.log = r.log /\ r.log = selectedLog
            /\ logText'.length \in r.at .. logLength[r.log]
         \/ logText' = Blank /\ (r.log # selectedLog \/ r.log \notin Logs)]_logVars

(* What the viewer shows is the selected log, as it was (log.js, update).     *)
OwnLogShown == []LogTypeOK /\ []OwnText /\ TextFromLog
=============================================================================
