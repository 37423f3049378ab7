---------------------------- MODULE WebPagesProofs ----------------------------
(***************************************************************************)
(* Theorems about the sequence panel, the log viewer, the uplink panel,    *)
(* the data store, the tables and the rows of the channels of the web      *)
(* pages, for all texts, names and folders, all logs, pages and files, all *)
(* items, filters, views, orders, bounds and time-outs, and however many   *)
(* requests there are.                                                     *)
(***************************************************************************)
EXTENDS SequencerPanel, LogPanel, UploadPanel, PageStore, FpTable, ChannelRows,
        ChartProofs

Documents == [text : Texts, version : 0 .. MaxVersions]
Jobs == [kind : {"uplink", "run"}, path : Paths \cup {NoPath}, text : Texts \cup {NoneYet},
         answer : {"none", "ok", "bare", "error", "validation"}]

(* What has not to do with the linter.                                     *)
PanelOK ==
  /\ code \in Documents /\ seqBox \in Paths /\ lastUplinked \in Paths \cup {NoPath} /\ uplinkedPaths \subseteq Paths
  /\ seqActive \in BOOLEAN /\ lastVerified \in BOOLEAN
  /\ sequenceJob \in Jobs \cup {NoJob}
  /\ sequenceJob.kind = "uplink" => sequenceJob.path \in Paths

(* A job that was answered well put its file in the queue of the uplinker. *)
OkEnqueued ==
  sequenceJob.kind = "uplink" /\ sequenceJob.answer = "ok" => sequenceJob.path \in uplinkedPaths

PanelInv == PanelOK /\ OkEnqueued /\ LockHeld /\ RunsUplinked
-----------------------------------------------------------------------------
LEMMA NoJobIs ==
  /\ NoJob.kind = NoneYet /\ NoJob.answer = NoneYet
  /\ NoneYet \notin {"uplink", "run", "none"}
BY DEF NoJob, NoneYet

LEMMA JobsAre == \A j \in Jobs : j # NoJob /\ j.kind \in {"uplink", "run"}
BY NoJobIs DEF Jobs

LEMMA NewJob ==
  ASSUME NEW k \in {"uplink", "run"}, NEW p \in Paths \cup {NoPath}, NEW t \in Texts \cup {NoneYet}
  PROVE  [kind |-> k, path |-> p, text |-> t, answer |-> "none"] \in Jobs
BY DEF Jobs

LEMMA AnsweredJob ==
  ASSUME NEW j \in Jobs, NEW a \in {"none", "ok", "bare", "error", "validation"}
  PROVE  LET k == [j EXCEPT !.answer = a]
         IN  k \in Jobs /\ k.kind = j.kind /\ k.path = j.path /\ k.answer = a
BY DEF Jobs

LEMMA PanelInit == SequencerInit => PanelInv
<1> SUFFICES ASSUME SequencerInit PROVE PanelInv
  OBVIOUS
<1>1. sequenceJob = NoJob /\ lastUplinked = NoPath /\ uplinkedPaths = {} /\ seqActive = FALSE /\ lastVerified = FALSE
  BY DEF SequencerInit
<1>2. seqBox \in Paths /\ code \in Documents
  BY TextAssumption DEF SequencerInit, Paths, Documents
<1> QED
  BY <1>1, <1>2, NoJobIs DEF PanelInv, PanelOK, OkEnqueued, LockHeld, RunsUplinked

LEMMA ChangedCode ==
  ASSUME code \in Documents, NEW t \in Texts, Changed(t)
  PROVE  /\ code' \in Documents /\ code'.text = t /\ code'.version = code.version + 1
BY TextAssumption DEF Documents, Changed

(* The buttons and boxes; the actions of the linter leave them alone.      *)
LEMMA PanelStep == PanelInv /\ [SequencerNext]_sequencerVars => PanelInv'
<1> SUFFICES ASSUME PanelInv, [SequencerNext]_sequencerVars PROVE PanelInv'
  OBVIOUS
<1> USE DEF PanelInv, PanelOK, OkEnqueued, LockHeld, RunsUplinked
<1> USE NoJobIs, JobsAre
<1>1. ASSUME UNCHANGED panelVars, code' \in Documents PROVE PanelInv'
  BY <1>1 DEF panelVars
<1>2. ASSUME NEW n \in GoodNames, NEW t \in Texts, SetSequence(n, t) PROVE PanelInv'
  <2>1. n \in SeqNames
    BY TextAssumption
  <2>2. seqBox' \in Paths
    BY <1>2, <2>1 DEF SetSequence, Paths
  <2>3. code' \in Documents
    BY <1>2, ChangedCode DEF SetSequence
  <2> QED
    BY <1>2, <2>2, <2>3 DEF SetSequence
<1>3. ASSUME NEW box \in Paths, FillBox(box) PROVE PanelInv'
  BY <1>3 DEF FillBox
<1>4. CASE SendSequence
  <2>1. code.text \in Texts
    BY DEF Documents
  <2>2. sequenceJob' \in Jobs /\ sequenceJob'.answer = "none" /\ sequenceJob'.path = seqBox
    BY <1>4, <2>1, NewJob DEF SendSequence
  <2> QED
    BY <1>4, <2>2 DEF SendSequence
<1>5. CASE ServeUplink
  <2> DEFINE a == Verdict(sequenceJob)
  <2>1. a \in {"error", "validation", "ok"}
    BY DEF Verdict
  <2>2. sequenceJob \in Jobs
    BY <1>5 DEF ServeUplink
  <2>3. sequenceJob' = [sequenceJob EXCEPT !.answer = a] /\ sequenceJob.kind = "uplink"
    BY <1>5 DEF ServeUplink
  <2> HIDE DEF a
  <2>4. /\ sequenceJob' \in Jobs /\ sequenceJob'.kind = "uplink"
        /\ sequenceJob'.path = sequenceJob.path /\ sequenceJob'.answer = a
    BY <2>1, <2>2, <2>3 DEF Jobs
  <2>5. uplinkedPaths' = IF a = "ok" THEN uplinkedPaths \cup {sequenceJob.path} ELSE uplinkedPaths
    BY <1>5 DEF ServeUplink, a
  <2> QED
    BY <1>5, <2>2, <2>4, <2>5 DEF ServeUplink
<1>6. CASE ServeNothing
  <2>1. sequenceJob \in Jobs
    BY <1>6 DEF ServeNothing
  <2>2. /\ sequenceJob' \in Jobs /\ sequenceJob'.kind = sequenceJob.kind
        /\ sequenceJob'.path = sequenceJob.path /\ sequenceJob'.answer = "bare"
    BY <1>6, <2>1, AnsweredJob DEF ServeNothing
  <2> QED
    BY <1>6, <2>1, <2>2 DEF ServeNothing
<1>7. CASE SendAnswer
  <2>1. sequenceJob.path \in Paths /\ sequenceJob' = NoJob /\ seqActive' = FALSE
    BY <1>7 DEF SendAnswer
  <2>2. CASE TakenAsUplinked(sequenceJob.answer)
    <3>1. lastUplinked' = [name |-> seqBox.name, folder |-> sequenceJob.path.folder]
      BY <1>7, <2>2 DEF SendAnswer
    <3>2. lastVerified' = (sequenceJob.answer # "bare" /\ seqBox.name = sequenceJob.path.name)
      BY <1>7, <2>2 DEF SendAnswer
    <3>3. lastUplinked' \in Paths
      BY <2>1, <3>1 DEF Paths
    <3>4. lastVerified' => lastUplinked' = sequenceJob.path /\ sequenceJob.answer = "ok"
      BY <2>1, <2>2, <3>1, <3>2 DEF Paths, TakenAsUplinked
    <3>5. lastVerified' \in BOOLEAN
      BY <3>2
    <3> QED
      BY <1>7, <2>1, <3>3, <3>4, <3>5 DEF SendAnswer
  <2>3. CASE ~TakenAsUplinked(sequenceJob.answer)
    BY <1>7, <2>1, <2>3 DEF SendAnswer
  <2> QED
    BY <2>2, <2>3
<1>8. CASE RunSequence
  <2>1. /\ sequenceJob' \in Jobs /\ sequenceJob'.answer = "none" /\ sequenceJob'.kind = "run"
    BY <1>8, NewJob DEF RunSequence
  <2> QED
    BY <1>8, <2>1 DEF RunSequence, Locked
<1>9. CASE ServeRun
  <2>1. sequenceJob \in Jobs
    BY <1>9 DEF ServeRun
  <2>2. sequenceJob' \in Jobs /\ sequenceJob'.kind = "run"
    BY <1>9, <2>1, AnsweredJob DEF ServeRun
  <2> QED
    BY <1>9, <2>1, <2>2 DEF ServeRun
<1>10. CASE RunAnswer
  BY <1>10 DEF RunAnswer
<1> QED
  <2>1. CASE Edits
    <3>1. ASSUME NEW t \in Texts, EditText(t) PROVE PanelInv'
      BY <1>1, <3>1, ChangedCode DEF EditText
    <3> QED
      BY <1>2, <2>1, <3>1 DEF Edits
  <2>2. CASE LintNext
    BY <1>1, <2>2 DEF LintNext, RunLinter, WriteTemp, Compile, RemoveTemp, NoVerdict, LintAnswer
  <2>3. CASE PanelNext
    BY <1>3, <1>4, <1>5, <1>6, <1>7, <1>8, <1>9, <1>10, <2>3 DEF PanelNext, Paths
  <2>4. CASE UNCHANGED sequencerVars
    BY <1>1, <2>4 DEF sequencerVars, panelVars
  <2> QED
    BY <2>1, <2>2, <2>3, <2>4 DEF SequencerNext
-----------------------------------------------------------------------------
Checks == [sent : Documents, stage : {"sent", "written", "compiled", "answered"}, found : SUBSET Nat]

(* The documents of the checks: of each version there is one text.         *)
LintOK ==
  /\ code \in Documents
  /\ lintTimer \in BOOLEAN /\ spoiled \in BOOLEAN /\ marked \subseteq Nat
  /\ tempFile \in Texts \cup {NoneYet} /\ checks \subseteq Checks
  /\ \A c \in checks : /\ c.sent.version <= code.version
                       /\ c.sent.version = code.version => c.sent = code

(* As long as no check met another one at the file, one check at most is   *)
(* between its write and its removal, and what it finds is about its text. *)
AtFile(c) == c.stage \in {"written", "compiled"}
OneAtFile == ~spoiled => \A c \in checks, d \in checks : AtFile(c) /\ AtFile(d) => c = d
FoundOwn ==
  ~spoiled => \A c \in checks : /\ c.stage = "written" => tempFile = c.sent.text
                                /\ c.stage \in {"compiled", "answered"} => c.found = Errors(c.sent.text)

(* Unless the linter is still to run, the present text has been checked or *)
(* is being checked.                                                       *)
BeingChecked ==
  ~spoiled /\ ~lintTimer => \/ \E c \in checks : c.sent.version = code.version
                            \/ marked = Errors(code.text)

LintInv == LintOK /\ OneAtFile /\ FoundOwn /\ BeingChecked

LEMMA LintInit == SequencerInit => LintInv
<1> SUFFICES ASSUME SequencerInit PROVE LintInv
  OBVIOUS
<1>1. /\ lintTimer = TRUE /\ checks = {} /\ marked = {} /\ tempFile = NoneYet /\ spoiled = FALSE
      /\ code \in Documents
  BY TextAssumption DEF SequencerInit, Documents
<1> QED
  BY <1>1 DEF LintInv, LintOK, OneAtFile, FoundOwn, BeingChecked

(* An error is on a line of its text.                                      *)
LEMMA ErrorsAreLines ==
  ASSUME NEW t \in Texts
  PROVE  Errors(t) \subseteq Nat /\ \A l \in Errors(t) : ~(l > LineCount[t])
BY TextAssumption DEF Errors

LEMMA ErrorsAreNumbers ==
  ASSUME NEW t \in Texts \cup {NoneYet} PROVE Errors(t) \subseteq Nat
BY TextAssumption DEF Errors

(* One check going on to a stage.                                          *)
LEMMA StagedOK ==
  ASSUME LintOK, NEW c \in checks, NEW stage \in {"written", "compiled", "answered"},
         NEW found \in SUBSET Nat, checks' = Staged(c, stage, found),
         UNCHANGED code
  PROVE  \E d \in Checks : /\ d.sent = c.sent /\ d.stage = stage /\ d.found = found
                           /\ checks' = (checks \ {c}) \cup {d}
<1> DEFINE d == [c EXCEPT !.stage = stage, !.found = found]
<1>1. c \in Checks
  BY DEF LintOK
<1>2. d \in Checks /\ d.sent = c.sent /\ d.stage = stage /\ d.found = found
  BY <1>1 DEF Checks
<1>3. checks' = (checks \ {c}) \cup {d}
  BY DEF Staged
<1> HIDE DEF d
<1> QED
  BY <1>2, <1>3

(* What is left alone when a check goes on; who is at the file is another  *)
(* matter.                                                                 *)
LEMMA StagedInv ==
  ASSUME LintInv, NEW c \in checks, NEW d \in Checks, d.sent = c.sent,
         checks' = (checks \ {c}) \cup {d},
         UNCHANGED <<code, lintTimer, marked>>, tempFile' \in Texts \cup {NoneYet},
         spoiled' \in BOOLEAN, spoiled => spoiled'
  PROVE  LintOK' /\ BeingChecked'
<1>1. LintOK'
  BY DEF LintInv, LintOK
<1>2. BeingChecked'
  <2> SUFFICES ASSUME ~spoiled', ~lintTimer', marked' # Errors(code'.text)
               PROVE  \E x \in checks' : x.sent.version = code'.version
    BY DEF BeingChecked
  <2>1. PICK x \in checks : x.sent.version = code.version
    BY DEF LintInv, BeingChecked
  <2>2. CASE x = c
    BY <2>1, <2>2
  <2>3. CASE x # c
    BY <2>1, <2>3
  <2> QED
    BY <2>2, <2>3
<1> QED
  BY <1>1, <1>2

LEMMA WriteInv == ASSUME LintInv, NEW c \in checks, WriteTemp(c) PROVE LintInv'
<1>1. PICK d \in Checks : /\ d.sent = c.sent /\ d.stage = "written" /\ d.found = {}
                          /\ checks' = (checks \ {c}) \cup {d}
  BY StagedOK DEF WriteTemp, LintInv
<1>2. c \in Checks /\ tempFile' = c.sent.text /\ c.sent.text \in Texts
  BY DEF WriteTemp, LintInv, LintOK, Checks, Documents
<1>3. /\ UNCHANGED <<code, lintTimer, marked>> /\ spoiled \in BOOLEAN
      /\ spoiled' = (spoiled \/ Shared(c))
  BY DEF WriteTemp, LintInv, LintOK
<1>4. LintOK' /\ BeingChecked'
  BY <1>1, <1>2, <1>3, StagedInv
<1>5. ~spoiled' => /\ ~spoiled
                   /\ \A x \in checks' : x = d \/ (x \in checks /\ ~AtFile(x))
  BY <1>1, <1>3 DEF Shared, AtFile
<1>6. OneAtFile'
  BY <1>5 DEF OneAtFile, AtFile
<1>7. FoundOwn'
  BY <1>1, <1>2, <1>5 DEF LintInv, FoundOwn, AtFile
<1> QED
  BY <1>4, <1>6, <1>7 DEF LintInv

LEMMA CompileInv == ASSUME LintInv, NEW c \in checks, Compile(c) PROVE LintInv'
<1>1. Errors(tempFile) \in SUBSET Nat
  BY ErrorsAreNumbers DEF LintInv, LintOK
<1>2. PICK d \in Checks : /\ d.sent = c.sent /\ d.stage = "compiled" /\ d.found = Errors(tempFile)
                          /\ checks' = (checks \ {c}) \cup {d}
  BY <1>1, StagedOK DEF Compile, LintInv
<1>3. /\ UNCHANGED <<code, lintTimer, marked, tempFile, spoiled>> /\ c.stage = "written"
      /\ spoiled \in BOOLEAN /\ tempFile \in Texts \cup {NoneYet}
  BY DEF Compile, LintInv, LintOK
<1>4. LintOK' /\ BeingChecked'
  BY <1>2, <1>3, StagedInv
<1>5. ~spoiled' => /\ ~spoiled
                   /\ \A x \in checks' : x = d \/ (x \in checks /\ ~AtFile(x))
  BY <1>2, <1>3 DEF LintInv, OneAtFile, AtFile
<1>6. OneAtFile'
  BY <1>5 DEF OneAtFile, AtFile
<1>7. FoundOwn'
  BY <1>2, <1>3, <1>5 DEF LintInv, FoundOwn, AtFile
<1> QED
  BY <1>4, <1>6, <1>7 DEF LintInv

LEMMA RemoveInv == ASSUME LintInv, NEW c \in checks, RemoveTemp(c) PROVE LintInv'
<1>1. c \in Checks /\ c.found \in SUBSET Nat
  BY DEF LintInv, LintOK, Checks
<1>2. PICK d \in Checks : /\ d.sent = c.sent /\ d.stage = "answered" /\ d.found = c.found
                          /\ checks' = (checks \ {c}) \cup {d}
  BY <1>1, StagedOK DEF RemoveTemp, LintInv
<1>3. /\ UNCHANGED <<code, lintTimer, marked, spoiled>> /\ c.stage = "compiled"
      /\ spoiled \in BOOLEAN /\ tempFile' \in Texts \cup {NoneYet}
  BY DEF RemoveTemp, LintInv, LintOK
<1>4. LintOK' /\ BeingChecked'
  BY <1>2, <1>3, StagedInv
<1>5. ~spoiled' => /\ ~spoiled
                   /\ \A x \in checks' : x = d \/ (x \in checks /\ ~AtFile(x))
  BY <1>2, <1>3 DEF LintInv, OneAtFile, AtFile
<1>6. OneAtFile'
  BY <1>2, <1>5 DEF OneAtFile, AtFile
<1>7. FoundOwn'
  BY <1>2, <1>3, <1>5 DEF LintInv, FoundOwn, AtFile
<1> QED
  BY <1>4, <1>6, <1>7 DEF LintInv

LEMMA NoVerdictInv == ASSUME LintInv, NEW c \in checks, NoVerdict(c) PROVE LintInv'
<1>1. PICK d \in Checks : d.sent = c.sent /\ checks' = (checks \ {c}) \cup {d}
  BY StagedOK DEF NoVerdict, LintInv
<1>2. /\ UNCHANGED <<code, lintTimer, marked>> /\ spoiled' = TRUE
      /\ tempFile' \in Texts \cup {NoneYet}
  BY DEF NoVerdict, LintInv, LintOK
<1> QED
  BY <1>1, <1>2, StagedInv DEF LintInv, OneAtFile, FoundOwn

LEMMA AnswerInv == ASSUME LintInv, NEW c \in checks, LintAnswer(c) PROVE LintInv'
<1>1. /\ UNCHANGED <<code, lintTimer, tempFile, spoiled>> /\ checks' = checks \ {c}
      /\ c.stage = "answered" /\ marked' = IF StillShown(c) THEN Localized(c.found) ELSE marked
  BY DEF LintAnswer
<1>2. c \in Checks /\ c.found \subseteq Nat /\ code.text \in Texts
  BY DEF LintInv, LintOK, Checks, Documents
<1>3. LintOK'
  BY <1>1, <1>2 DEF LintInv, LintOK, Localized
<1>4. OneAtFile' /\ FoundOwn'
  BY <1>1 DEF LintInv, OneAtFile, FoundOwn, AtFile
<1>5. BeingChecked'
  <2>1. CASE StillShown(c)
    <3>1. c.sent = code
      BY <2>1 DEF StillShown, LintInv, LintOK
    <3>2. ~spoiled => c.found = Errors(code.text)
      BY <1>1, <3>1 DEF LintInv, FoundOwn
    <3>3. ~spoiled => marked' = Errors(code.text)
      BY <1>1, <1>2, <2>1, <3>2, ErrorsAreLines DEF Localized
    <3> QED
      BY <1>1, <3>3 DEF BeingChecked
  <2>2. CASE ~StillShown(c)
    BY <1>1, <2>2 DEF LintInv, BeingChecked, StillShown
  <2> QED
    BY <2>1, <2>2
<1> QED
  BY <1>3, <1>4, <1>5 DEF LintInv

(* A new text: no check is about it, and the linter is to run.             *)
LEMMA ChangedInv == ASSUME LintInv, NEW t \in Texts, Changed(t) PROVE LintInv'
<1>1. code \in Documents
  BY DEF LintInv, LintOK
<1>2. code' \in Documents /\ code'.version = code.version + 1 /\ code.version \in Nat
  BY <1>1, ChangedCode, TextAssumption DEF Documents
<1>3. UNCHANGED <<checks, marked, tempFile, spoiled>> /\ lintTimer' = TRUE
  BY DEF Changed, Relint
<1>4. \A x \in checks : x.sent.version \in Nat
  BY TextAssumption DEF LintInv, LintOK, Checks, Documents
<1>5. LintOK'
  BY <1>2, <1>3, <1>4 DEF LintInv, LintOK
<1> QED
  BY <1>3, <1>5 DEF LintInv, OneAtFile, FoundOwn, BeingChecked, AtFile

LEMMA RunLinterInv == ASSUME LintInv, RunLinter PROVE LintInv'
<1> DEFINE new == [sent |-> code, stage |-> "sent", found |-> {}]
<1>1. checks' = checks \cup {new} /\ lintTimer' = FALSE /\ UNCHANGED <<code, marked, tempFile, spoiled>>
  BY DEF RunLinter
<1>2. code \in Documents
  BY DEF LintInv, LintOK
<1>3. new \in Checks /\ new.sent = code /\ new.stage = "sent"
  BY <1>2 DEF Checks
<1> HIDE DEF new
<1>4. code.version \in Nat
  BY <1>2, TextAssumption DEF Documents
<1>5. LintOK'
  <2>1. checks' \subseteq Checks
    BY <1>1, <1>3 DEF LintInv, LintOK
  <2>2. \A c \in checks' : /\ c.sent.version <= code.version
                           /\ c.sent.version = code.version => c.sent = code
    BY <1>1, <1>3, <1>4 DEF LintInv, LintOK
  <2> QED
    BY <1>1, <2>1, <2>2 DEF LintInv, LintOK
<1>6. OneAtFile' /\ FoundOwn' /\ BeingChecked'
  BY <1>1, <1>3 DEF LintInv, OneAtFile, FoundOwn, BeingChecked, AtFile
<1> QED
  BY <1>5, <1>6 DEF LintInv

LEMMA LintStep == LintInv /\ [SequencerNext]_sequencerVars => LintInv'
<1> SUFFICES ASSUME LintInv, [SequencerNext]_sequencerVars PROVE LintInv'
  OBVIOUS
<1>1. ASSUME UNCHANGED <<code, lintVars>> PROVE LintInv'
  BY <1>1 DEF lintVars, LintInv, LintOK, OneAtFile, FoundOwn, BeingChecked, AtFile
<1>2. CASE Edits
  BY <1>2, ChangedInv DEF Edits, EditText, SetSequence
<1>3. CASE LintNext
  BY <1>3, RunLinterInv, WriteInv, CompileInv, RemoveInv, NoVerdictInv, AnswerInv DEF LintNext
<1>4. CASE PanelNext
  BY <1>1, <1>4 DEF PanelNext, FillBox, SendSequence, ServeUplink, ServeNothing, SendAnswer,
                    RunSequence, ServeRun, RunAnswer
<1>5. CASE UNCHANGED sequencerVars
  BY <1>1, <1>5 DEF sequencerVars, lintVars
<1> QED
  BY <1>2, <1>3, <1>4, <1>5 DEF SequencerNext

(* What the panel marks, sends and runs is the sequence that is on it: the *)
(* lock is held exactly during a request, the marks that settle are those  *)
(* of the text, and what Run sends has been enqueued (sequencer/addon.js). *)
THEOREM PanelShowsItsSequence == SequencerSpec => []SequenceAsShown
<1>1. SequencerInit => PanelInv /\ LintInv
  BY PanelInit, LintInit
<1>2. PanelInv /\ LintInv /\ [SequencerNext]_sequencerVars => (PanelInv /\ LintInv)'
  BY PanelStep, LintStep
<1>3. PanelInv /\ LintInv => SequenceAsShown
  <2> SUFFICES ASSUME PanelInv, LintInv PROVE SequenceAsShown
    OBVIOUS
  <2>1. SequencerTypeOK
    BY DEF SequencerTypeOK, PanelInv, PanelOK, LintInv, LintOK, Documents
  <2>2. MarksSettle
    BY DEF MarksSettle, LintInv, BeingChecked
  <2> QED
    BY <2>1, <2>2 DEF SequenceAsShown, PanelInv
<1> QED
  BY <1>1, <1>2, <1>3, PTL DEF SequencerSpec
-----------------------------------------------------------------------------
Answers == [log : Logs \cup {NoLog}, length : Nat]
Requests == [log : Logs \cup {NothingChosen}, at : Nat, answer : Answers, stage : {"sent", "ok", "failed"}]

(* An answer under way is of the log that was asked for, as long as it was *)
(* at some time since.                                                     *)
AnswerOf(r) == IF r.log \in Logs THEN r.answer.log = r.log /\ r.answer.length \in r.at .. logLength[r.log]
               ELSE r.answer = Blank
LogInv ==
  /\ LogTypeOK /\ OwnText /\ shownSince \in BOOLEAN /\ IsFiniteSet(asked) /\ asked \subseteq Requests
  /\ \A r \in asked : /\ r.log \in Logs => r.at <= logLength[r.log]
                      /\ r.stage = "ok" => AnswerOf(r)

LEMMA LogInitInv == LogInit => LogInv
<1> SUFFICES ASSUME LogInit PROVE LogInv
  OBVIOUS
<1>1. IsFiniteSet(asked) /\ Cardinality(asked) = 0 /\ asked = {}
  BY FS_EmptySet DEF LogInit
<1>2. logText.log = NoLog /\ shownSince = FALSE /\ logError = FALSE /\ selectedLog = NoLog
  BY DEF LogInit, Blank
<1>3. logLength \in [Logs -> 0 .. MaxLogLength]
  BY LogAssumption DEF LogInit
<1>4. Cardinality(asked) <= MaxAsked
  BY <1>1, LogAssumption
<1>5. LogTypeOK /\ OwnText
  BY <1>2, <1>3, <1>4 DEF LogTypeOK, OwnText
<1> QED
  BY <1>1, <1>2, <1>5 DEF LogInv

(* A request is changed or taken: no more of them are under way.           *)
LEMMA FewerAsked ==
  ASSUME IsFiniteSet(asked), Cardinality(asked) <= MaxAsked, NEW r \in asked
  PROVE  /\ IsFiniteSet(asked \ {r}) /\ Cardinality(asked \ {r}) <= MaxAsked
         /\ \A x : IsFiniteSet((asked \ {r}) \cup {x}) /\ Cardinality((asked \ {r}) \cup {x}) <= MaxAsked
<1>1. IsFiniteSet(asked \ {r}) /\ Cardinality(asked \ {r}) = Cardinality(asked) - 1
  BY FS_RemoveElement
<1>2. Cardinality(asked) \in Nat /\ Cardinality(asked \ {r}) \in Nat
  BY <1>1, FS_CardinalityType
<1>3. Cardinality(asked \ {r}) + 1 <= MaxAsked /\ Cardinality(asked \ {r}) <= MaxAsked
  BY <1>1, <1>2, LogAssumption
<1>4. ASSUME NEW x
      PROVE  IsFiniteSet((asked \ {r}) \cup {x}) /\ Cardinality((asked \ {r}) \cup {x}) <= MaxAsked
  <2>1. /\ IsFiniteSet((asked \ {r}) \cup {x})
        /\ \/ Cardinality((asked \ {r}) \cup {x}) = Cardinality(asked \ {r})
           \/ Cardinality((asked \ {r}) \cup {x}) = Cardinality(asked \ {r}) + 1
    BY <1>1, FS_AddElement
  <2> QED
    BY <1>3, <2>1
<1> QED
  BY <1>1, <1>3, <1>4

LEMMA ContentIs ==
  ASSUME LogInv, NEW l \in Logs \cup {NothingChosen}
  PROVE  /\ Content(l) \in Answers
         /\ l \in Logs => Content(l).log = l /\ Content(l).length = logLength[l] /\ logLength[l] \in Nat
         /\ l \notin Logs => Content(l) = Blank
BY LogAssumption DEF Content, Answers, Blank, LogInv, LogTypeOK

LEMMA AskInv == LogInv /\ AskLog => LogInv'
<1> SUFFICES ASSUME LogInv, AskLog PROVE LogInv'
  OBVIOUS
<1> DEFINE new == [log |-> selectedLog, at |-> Content(selectedLog).length, answer |-> Blank, stage |-> "sent"]
<1>1. asked' = asked \cup {new} /\ UNCHANGED <<logLength, selectedLog, logText, logError, shownSince>>
  BY DEF AskLog
<1>2. selectedLog \in Logs \cup {NothingChosen}
  BY DEF AskLog, Unasked, LogInv, LogTypeOK
<1>3. new \in Requests /\ new.stage = "sent" /\ new.log = selectedLog /\ new.at = Content(selectedLog).length
  BY <1>2, ContentIs DEF Requests, Answers, Blank
<1>4. new.log \in Logs => new.at <= logLength[new.log]
  BY <1>2, <1>3, ContentIs
<1> HIDE DEF new
<1>5. IsFiniteSet(asked') /\ Cardinality(asked') \in {Cardinality(asked), Cardinality(asked) + 1}
  BY <1>1, FS_AddElement DEF LogInv
<1>6. Cardinality(asked) \in Nat /\ Cardinality(asked) < MaxAsked
  BY FS_CardinalityType DEF LogInv, AskLog
<1>7. Cardinality(asked') <= MaxAsked
  BY <1>5, <1>6, LogAssumption
<1>8. LogTypeOK' /\ OwnText'
  BY <1>1, <1>7 DEF LogInv, LogTypeOK, OwnText
<1> QED
  BY <1>1, <1>3, <1>4, <1>5, <1>8 DEF LogInv, AnswerOf

(* A request goes on to a stage, answered if that is "ok".                 *)
LEMMA StagedAnswer ==
  ASSUME LogInv, NEW r \in asked, NEW x \in Requests, asked' = (asked \ {r}) \cup {x},
         x.log = r.log, x.at = r.at, x.stage = "ok" => AnswerOf(x),
         UNCHANGED <<logLength, selectedLog, logText, logError, shownSince>>
  PROVE  LogInv'
<1>1. LogTypeOK' /\ OwnText' /\ IsFiniteSet(asked')
  BY FewerAsked DEF LogInv, LogTypeOK, OwnText
<1> QED
  BY <1>1 DEF LogInv, AnswerOf

LEMMA ServedInv == ASSUME LogInv, NEW r \in asked, AnswerLog(r) \/ LoseLog(r) PROVE LogInv'
<1>1. r \in Requests /\ r.log \in Logs \cup {NothingChosen} /\ r.at \in Nat
  BY DEF LogInv, Requests
<1>2. CASE AnswerLog(r)
  <2> DEFINE x == [r EXCEPT !.stage = "ok", !.answer = Content(r.log)]
  <2>1. Content(r.log) \in Answers
    BY <1>1, ContentIs
  <2>2. x \in Requests /\ x.log = r.log /\ x.at = r.at /\ x.answer = Content(r.log)
    BY <1>1, <2>1 DEF Requests
  <2>3. AnswerOf(x)
    BY <1>1, <2>2, ContentIs DEF AnswerOf, LogInv
  <2>4. asked' = (asked \ {r}) \cup {x} /\ UNCHANGED <<logLength, selectedLog, logText, logError, shownSince>>
    BY <1>2 DEF AnswerLog
  <2> HIDE DEF x
  <2> QED
    BY <2>2, <2>3, <2>4, StagedAnswer
<1>3. CASE LoseLog(r)
  <2> DEFINE x == [r EXCEPT !.stage = "failed"]
  <2>1. x \in Requests /\ x.log = r.log /\ x.at = r.at /\ x.stage = "failed"
    BY <1>1 DEF Requests
  <2>2. asked' = (asked \ {r}) \cup {x} /\ UNCHANGED <<logLength, selectedLog, logText, logError, shownSince>>
    BY <1>3 DEF LoseLog
  <2> HIDE DEF x
  <2> QED
    BY <2>1, <2>2, StagedAnswer
<1> QED
  BY <1>2, <1>3

LEMMA ShownInv == ASSUME LogInv, NEW r \in asked, ShowLog(r) \/ ShowLogError(r) PROVE LogInv'
<1>1. r.answer \in Answers
  BY DEF LogInv, Requests
<1>2. asked' = asked \ {r} /\ UNCHANGED <<logLength, selectedLog>> /\ logError' \in BOOLEAN
  BY DEF ShowLog, ShowLogError
<1>3. IsFiniteSet(asked') /\ Cardinality(asked') <= MaxAsked
  BY <1>2, FewerAsked DEF LogInv, LogTypeOK
<1>4. /\ logText'.log \in Logs \cup {NoLog} /\ shownSince' \in BOOLEAN
      /\ shownSince' => logText'.log \in {NoLog, selectedLog}
  <2>1. CASE ShowLog(r)
    <3>1. logText' = Looked(r.answer) /\ shownSince' = TRUE
      BY <2>1 DEF ShowLog
    <3>2. r.answer.log \in Logs \cup {NoLog}
      BY <1>1 DEF Answers
    <3> QED
      BY <3>1, <3>2 DEF Looked, Blank
  <2>2. CASE ShowLogError(r)
    BY <2>2 DEF ShowLogError, TextOnError, LogInv, LogTypeOK, OwnText
  <2> QED
    BY <2>1, <2>2
<1> QED
  BY <1>2, <1>3, <1>4 DEF LogInv, LogTypeOK, OwnText, AnswerOf

LEMMA LogStep == LogInv /\ [LogNext]_logVars => LogInv'
<1> SUFFICES ASSUME LogInv, [LogNext]_logVars PROVE LogInv'
  OBVIOUS
<1>1. ASSUME NEW l \in Logs, LogGrows(l) PROVE LogInv'
  <2>1. /\ logLength' \in [Logs -> 0 .. MaxLogLength]
        /\ \A k \in Logs : logLength[k] \in Nat /\ logLength'[k] \in Nat /\ logLength[k] <= logLength'[k]
    BY <1>1, LogAssumption DEF LogGrows, LogInv, LogTypeOK
  <2>2. UNCHANGED <<selectedLog, asked, logText, logError, shownSince>>
    BY <1>1 DEF LogGrows
  <2>3. ASSUME NEW r \in asked
        PROVE  /\ r.log \in Logs => r.at <= logLength'[r.log]
               /\ r.stage = "ok" => IF r.log \in Logs
                                    THEN r.answer.log = r.log /\ r.answer.length \in r.at .. logLength'[r.log]
                                    ELSE r.answer = Blank
    <3>1. r.at \in Nat /\ r.answer.length \in Nat
      BY DEF LogInv, Requests, Answers
    <3>2. r.log \in Logs => r.at <= logLength[r.log]
      BY DEF LogInv
    <3>3. r.stage = "ok" => IF r.log \in Logs
                            THEN r.answer.log = r.log /\ r.answer.length \in r.at .. logLength[r.log]
                            ELSE r.answer = Blank
      BY DEF LogInv, AnswerOf
    <3> QED
      BY <2>1, <3>1, <3>2, <3>3
  <2>4. LogTypeOK' /\ OwnText'
    BY <2>1, <2>2 DEF LogInv, LogTypeOK, OwnText
  <2>5. shownSince' \in BOOLEAN /\ IsFiniteSet(asked') /\ asked' \subseteq Requests
    BY <2>2 DEF LogInv
  <2> QED
    BY <2>2, <2>3, <2>4, <2>5 DEF LogInv, AnswerOf
<1>2. ASSUME NEW l \in Logs \cup {NothingChosen}, SelectLog(l) PROVE LogInv'
  BY <1>2 DEF SelectLog, LogInv, LogTypeOK, OwnText, AnswerOf
<1>3. CASE UNCHANGED logVars
  BY <1>3 DEF logVars, LogInv, LogTypeOK, OwnText, AnswerOf
<1> QED
  BY <1>1, <1>2, <1>3, AskInv, ServedInv, ShownInv DEF LogNext

(* A step that changes the text shows an answer to a request.              *)
LEMMA ShownText ==
  ASSUME LogInv, NEW r \in asked, ShowLog(r)
  PROVE  /\ r \in asked \ asked'
         /\ \/ logText'.log = r.log /\ r.log = selectedLog
               /\ logText'.length \in r.at .. logLength[r.log]
            \/ logText' = Blank /\ (r.log # selectedLog \/ r.log \notin Logs)
<1>1. AnswerOf(r) /\ asked' = asked \ {r} /\ logText' = Looked(r.answer)
  BY DEF LogInv, ShowLog
<1> QED
  BY <1>1 DEF AnswerOf, Looked

(* The viewer shows the selected log, as long as the log was at some time  *)
(* since it was asked for, and an answer that comes late, for a log that   *)
(* was selected before, is never shown (vue-support/log.js, update).       *)
THEOREM ViewerShowsItsLog == LogSpec => OwnLogShown
<1>1. LogInv /\ [LogNext]_logVars =>
        [logText' # logText =>
          \E r \in asked \ asked' :
            \/ logText'.log = r.log /\ r.log = selectedLog
               /\ logText'.length \in r.at .. logLength[r.log]
            \/ logText' = Blank /\ (r.log # selectedLog \/ r.log \notin Logs)]_logVars
  <2> SUFFICES ASSUME LogInv, LogNext, logText' # logText
               PROVE  \E r \in asked \ asked' :
                        \/ logText'.log = r.log /\ r.log = selectedLog
                           /\ logText'.length \in r.at .. logLength[r.log]
                        \/ logText' = Blank /\ (r.log # selectedLog \/ r.log \notin Logs)
    BY DEF logVars
  <2>1. PICK r \in asked : ShowLog(r)
    BY DEF LogNext, LogGrows, SelectLog, AskLog, AnswerLog, LoseLog, ShowLogError, TextOnError
  <2> QED
    BY <2>1, ShownText
<1>2. LogSpec => []LogInv
  BY LogInitInv, LogStep, PTL DEF LogSpec
<1>3. LogInv => LogTypeOK /\ OwnText
  BY DEF LogInv
<1> QED
  BY <1>1, <1>2, <1>3, PTL DEF LogSpec, OwnLogShown, TextFromLog
-----------------------------------------------------------------------------
(* Files that are all different, wherever they are listed.                  *)
AllDifferent(s) == \A i, j \in DOMAIN s : s[i] = s[j] => i = j
Plans == UNION {[D -> SUBSET {1}] : D \in SUBSET Files}
Uploads == [page : UploadPages, files : Seq(Files), folder : Folders,
            stage : {"put", "answered", "post"}, clean : BOOLEAN, meant : Plans]
Uplinks == [file : Files, folder : Folders, packets : SUBSET {1},
            asked : Folders, meant : SUBSET {1}, clean : BOOLEAN]

UploadOK ==
  /\ curated \in [UploadPages -> Seq(Files)]
  /\ editFile \in [UploadPages -> Files \cup {NoFile}]
  /\ packets \in [Files -> SUBSET {1}]
  /\ folder \in [UploadPages -> Folders] /\ serverFolder \in Folders
  /\ uploads \subseteq Uploads /\ uplinks \in Seq(Uplinks)

(* Wherever a file is, it is nowhere else.                                   *)
OncePerPage == \A p \in UploadPages : AllDifferent(curated[p])
OncePerUpload == \A u \in uploads : u.files # <<>> /\ AllDifferent(u.files)
OnceQueued == \A i, j \in DOMAIN uplinks : uplinks[i].file = uplinks[j].file => i = j
PagesApart == \A p, q \in UploadPages : p # q => FilesOf(curated[p]) \cap FilesOf(curated[q]) = {}
UploadsApart == \A u, v \in uploads : u # v => FilesOf(u.files) \cap FilesOf(v.files) = {}
Curated == UNION {FilesOf(curated[p]) : p \in UploadPages}
StagesApart ==
  /\ Curated \cap (InFlight \cup Enqueued \cup lost) = {}
  /\ InFlight \cap (Enqueued \cup lost) = {}
  /\ Enqueued \cap lost = {}
Separate == OncePerPage /\ OncePerUpload /\ OnceQueued /\ PagesApart /\ UploadsApart /\ StagesApart

(* The packets of a file are chosen while it is curated, and an upload that  *)
(* set the folder and met no other one at the server finds it as it was set. *)
EditsCurated == \A p \in UploadPages : editFile[p] # NoFile => editFile[p] \in FilesOf(curated[p])
MeantKept == \A u \in uploads : \A f \in FilesOf(u.files) : u.meant[f] = packets[f]
FolderKept == \A u \in uploads : u.clean /\ u.stage # "put" => serverFolder = u.folder
Faithful == EditsCurated /\ MeantKept /\ FolderKept /\ AsChosen

UploadInv == UploadOK /\ Separate /\ Faithful
-----------------------------------------------------------------------------
LEMMA FilesOfSeq == ASSUME NEW s \in Seq(Files) PROVE FilesOf(s) = {s[i] : i \in 1 .. Len(s)} /\ FilesOf(s) \subseteq Files
BY DEF FilesOf, ToSet

LEMMA EmptyFiles == /\ <<>> \in Seq(Files) /\ FilesOf(<<>>) = {} /\ AllDifferent(<<>>)
BY DEF FilesOf, ToSet, AllDifferent

LEMMA SomeFile == ASSUME NEW s \in Seq(Files), s # <<>> PROVE FilesOf(s) # {}
<1>1. Len(s) # 0
  BY EmptySeq
<1>2. s[1] \in FilesOf(s)
  BY <1>1, FilesOfSeq
<1> QED
  BY <1>2

LEMMA AppendFile ==
  ASSUME NEW s \in Seq(Files), AllDifferent(s), NEW f \in Files, f \notin FilesOf(s)
  PROVE  /\ Append(s, f) \in Seq(Files) /\ AllDifferent(Append(s, f))
         /\ FilesOf(Append(s, f)) = FilesOf(s) \cup {f}
<1> DEFINE t == Append(s, f)
<1>1. t \in Seq(Files) /\ Len(t) = Len(s) + 1
  OBVIOUS
<1>2. \A i \in 1 .. Len(s) + 1 : t[i] = IF i = Len(s) + 1 THEN f ELSE s[i]
  OBVIOUS
<1> HIDE DEF t
<1>3. AllDifferent(t)
  <2> SUFFICES ASSUME NEW i \in 1 .. Len(s) + 1, NEW j \in 1 .. Len(s) + 1, t[i] = t[j]
               PROVE  i = j
    BY <1>1 DEF AllDifferent
  <2> QED
    BY <1>2, FilesOfSeq DEF AllDifferent
<1>4. FilesOf(t) = FilesOf(s) \cup {f}
  <2>1. FilesOf(t) = {t[i] : i \in 1 .. Len(s) + 1}
    BY <1>1, FilesOfSeq
  <2>2. t[Len(s) + 1] = f /\ \A i \in 1 .. Len(s) : t[i] = s[i]
    BY <1>2
  <2> QED
    BY <2>1, <2>2, FilesOfSeq
<1> QED
  BY <1>1, <1>3, <1>4 DEF t

LEMMA RemoveAtFile ==
  ASSUME NEW s \in Seq(Files), AllDifferent(s), NEW k \in DOMAIN s
  PROVE  /\ RemoveAt(s, k) \in Seq(Files) /\ AllDifferent(RemoveAt(s, k))
         /\ FilesOf(RemoveAt(s, k)) = FilesOf(s) \ {s[k]}
<1> DEFINE t == RemoveAt(s, k)
           old(i) == IF i < k THEN i ELSE i + 1
<1>1. k \in 1 .. Len(s) /\ Len(s) \in Nat
  OBVIOUS
<1>4. /\ t \in Seq(Files) /\ Len(t) = Len(s) - 1
      /\ \A i \in 1 .. Len(s) - 1 : t[i] = s[old(i)]
  BY RemovedAt
<1> HIDE DEF t
<1>5. AllDifferent(t)
  <2> SUFFICES ASSUME NEW i \in 1 .. Len(s) - 1, NEW j \in 1 .. Len(s) - 1, t[i] = t[j]
               PROVE  i = j
    BY <1>4 DEF AllDifferent
  <2>1. old(i) \in 1 .. Len(s) /\ old(j) \in 1 .. Len(s)
    BY <1>1
  <2>2. s[old(i)] = s[old(j)]
    BY <1>4
  <2> HIDE DEF old
  <2>3. old(i) = old(j)
    BY <2>1, <2>2 DEF AllDifferent
  <2> USE DEF old
  <2> QED
    BY <1>1, <2>3
<1>6. FilesOf(t) = FilesOf(s) \ {s[k]}
  <2>1. \A i \in 1 .. Len(s) - 1 : t[i] \in FilesOf(s) /\ t[i] # s[k]
    <3> SUFFICES ASSUME NEW i \in 1 .. Len(s) - 1 PROVE t[i] \in FilesOf(s) /\ t[i] # s[k]
      OBVIOUS
    <3>1. old(i) \in 1 .. Len(s) /\ old(i) # k
      BY <1>1
    <3>2. t[i] = s[old(i)]
      BY <1>4
    <3> HIDE DEF old
    <3>3. s[old(i)] # s[k]
      BY <1>1, <3>1 DEF AllDifferent
    <3>4. s[old(i)] \in FilesOf(s)
      BY <3>1, FilesOfSeq
    <3> QED
      BY <3>2, <3>3, <3>4
  <2>2. \A j \in 1 .. Len(s) : j # k => \E i \in 1 .. Len(s) - 1 : t[i] = s[j]
    <3> SUFFICES ASSUME NEW j \in 1 .. Len(s), j # k PROVE \E i \in 1 .. Len(s) - 1 : t[i] = s[j]
      OBVIOUS
    <3>1. CASE j < k
      <4>1. j \in 1 .. Len(s) - 1 /\ old(j) = j
        BY <1>1, <3>1
      <4> QED
        BY <1>4, <4>1
    <3>2. CASE j > k
      <4>1. j - 1 \in 1 .. Len(s) - 1 /\ old(j - 1) = j
        BY <1>1, <3>2
      <4> QED
        BY <1>4, <4>1
    <3> QED
      BY <1>1, <3>1, <3>2
  <2>3. FilesOf(t) = {t[i] : i \in 1 .. Len(s) - 1} /\ FilesOf(s) = {s[i] : i \in 1 .. Len(s)}
    BY <1>4, FilesOfSeq
  <2> QED
    BY <2>1, <2>2, <2>3
<1> QED
  BY <1>4, <1>5, <1>6 DEF t

LEMMA UploadFiles ==
  ASSUME UploadOK, NEW u \in uploads
  PROVE  u.files \in Seq(Files) /\ FilesOf(u.files) \subseteq Files /\ FilesOf(u.files) \subseteq InFlight
BY FilesOfSeq DEF UploadOK, Uploads, InFlight

LEMMA UploadStart == UploadInit => UploadInv
<1> SUFFICES ASSUME UploadInit PROVE UploadInv
  OBVIOUS
<1>1. UploadOK
  BY EmptyFiles DEF UploadInit, UploadOK
<1>2. Curated = {} /\ InFlight = {} /\ Enqueued = {}
  BY EmptyFiles DEF UploadInit, Curated, InFlight, Enqueued
<1>3. Separate
  BY <1>2, EmptyFiles DEF UploadInit, Separate, OncePerPage, OncePerUpload, OnceQueued, PagesApart,
     UploadsApart, StagesApart
<1>4. Faithful
  BY DEF UploadInit, Faithful, EditsCurated, MeantKept, FolderKept, AsChosen
<1> QED
  BY <1>1, <1>3, <1>4 DEF UploadInv
-----------------------------------------------------------------------------
(* A page changes its list: it loses files, or gets new ones.                *)
LEMMA ListChanges ==
  ASSUME UploadInv, NEW p \in UploadPages, NEW s \in Seq(Files), AllDifferent(s), NEW fresh,
         fresh \cap Handled = {}, FilesOf(s) \subseteq FilesOf(curated[p]) \cup fresh,
         curated' = [curated EXCEPT ![p] = s], UNCHANGED <<uploads, uplinks, lost>>
  PROVE  Separate'
<1>1. /\ curated'[p] = s /\ \A q \in UploadPages : q # p => curated'[q] = curated[q]
      /\ \A q \in UploadPages : FilesOf(curated[q]) \cap fresh = {}
      /\ fresh \cap (InFlight \cup Enqueued \cup lost) = {}
  <2>1. curated'[p] = s /\ \A q \in UploadPages : q # p => curated'[q] = curated[q]
    BY DEF UploadInv, UploadOK
  <2>2. \A q \in UploadPages : FilesOf(curated[q]) \subseteq Handled
    BY DEF Handled
  <2>3. (InFlight \cup Enqueued \cup lost) \subseteq Handled
    <3>1. Handled = Curated \cup InFlight \cup Enqueued \cup lost
      BY DEF Handled, Curated
    <3> QED
      BY <3>1
  <2> QED
    BY <2>1, <2>2, <2>3
<1>2. OncePerPage'
  BY <1>1 DEF UploadInv, Separate, OncePerPage
<1>3. OncePerUpload' /\ OnceQueued' /\ UploadsApart'
  BY DEF UploadInv, Separate, OncePerUpload, OnceQueued, UploadsApart
<1>4. PagesApart'
  <2> SUFFICES ASSUME NEW q \in UploadPages, NEW r \in UploadPages, q # r
               PROVE  FilesOf(curated'[q]) \cap FilesOf(curated'[r]) = {}
    BY DEF PagesApart
  <2>1. FilesOf(curated[q]) \cap FilesOf(curated[r]) = {}
    BY DEF UploadInv, Separate, PagesApart
  <2>2. CASE q = p
    BY <1>1, <2>1, <2>2
  <2>3. CASE r = p
    BY <1>1, <2>1, <2>3
  <2>4. CASE q # p /\ r # p
    BY <1>1, <2>1, <2>4
  <2> QED
    BY <2>2, <2>3, <2>4
<1>5. StagesApart'
  <2>1. InFlight' = InFlight /\ Enqueued' = Enqueued /\ lost' = lost
    BY DEF InFlight, Enqueued
  <2>2. Curated' \subseteq Curated \cup fresh
    BY <1>1 DEF Curated
  <2> QED
    BY <1>1, <2>1, <2>2 DEF UploadInv, Separate, StagesApart
<1> QED
  BY <1>2, <1>3, <1>4, <1>5 DEF Separate

LEMMA SameUploads ==
  ASSUME UploadInv, UNCHANGED <<curated, uploads, uplinks, lost>>
  PROVE  Separate'
<1>1. Curated' = Curated /\ InFlight' = InFlight /\ Enqueued' = Enqueued
  BY DEF Curated, InFlight, Enqueued
<1>2. StagesApart'
  BY <1>1 DEF UploadInv, Separate, StagesApart
<1>3. OncePerPage' /\ OncePerUpload' /\ OnceQueued' /\ PagesApart' /\ UploadsApart'
  BY DEF UploadInv, Separate, OncePerPage, OncePerUpload, OnceQueued, PagesApart, UploadsApart
<1> QED
  BY <1>2, <1>3 DEF Separate

LEMMA HandleFileStep ==
  ASSUME UploadInv, NEW p \in UploadPages, NEW f \in Files, HandleFile(p, f)
  PROVE  UploadInv'
<1> DEFINE s == Append(curated[p], f)
<1>1. curated[p] \in Seq(Files) /\ AllDifferent(curated[p]) /\ f \notin FilesOf(curated[p])
  BY DEF UploadInv, UploadOK, Separate, OncePerPage, HandleFile, Handled
<1>2. s \in Seq(Files) /\ AllDifferent(s) /\ FilesOf(s) = FilesOf(curated[p]) \cup {f}
  BY <1>1, AppendFile
<1>3. curated' = [curated EXCEPT ![p] = s] /\ {f} \cap Handled = {} /\ UNCHANGED <<uploads, uplinks, lost>>
  BY DEF HandleFile
<1> HIDE DEF s
<1>4. Separate'
  BY <1>2, <1>3, ListChanges
<1>5. UploadOK'
  BY <1>2, <1>3 DEF UploadInv, UploadOK, HandleFile
<1>6. EditsCurated'
  BY <1>2, <1>3 DEF UploadInv, UploadOK, Faithful, EditsCurated, HandleFile
<1>7. Faithful'
  BY <1>6 DEF UploadInv, Faithful, MeantKept, FolderKept, AsChosen, HandleFile
<1> QED
  BY <1>4, <1>5, <1>7 DEF UploadInv

LEMMA RemoveFileStep ==
  ASSUME UploadInv, NEW p \in UploadPages, NEW f \in Files, RemoveFile(p, f)
  PROVE  UploadInv'
<1>1. PICK i \in DOMAIN curated[p] : curated[p][i] = f /\ curated' = [curated EXCEPT ![p] = RemoveAt(@, i)]
  BY DEF RemoveFile
<1> DEFINE s == RemoveAt(curated[p], i)
<1>2. curated[p] \in Seq(Files) /\ AllDifferent(curated[p])
  BY DEF UploadInv, UploadOK, Separate, OncePerPage
<1>3. s \in Seq(Files) /\ AllDifferent(s) /\ FilesOf(s) = FilesOf(curated[p]) \ {f}
  BY <1>1, <1>2, RemoveAtFile
<1>4. curated' = [curated EXCEPT ![p] = s] /\ UNCHANGED <<uploads, uplinks, lost>>
  BY <1>1 DEF RemoveFile
<1> HIDE DEF s
<1>5. Separate'
  <2>1. {} \cap Handled = {} /\ FilesOf(s) \subseteq FilesOf(curated[p]) \cup {}
    BY <1>3
  <2> QED
    BY <1>3, <1>4, <2>1, ListChanges
<1>6. UploadOK'
  BY <1>3, <1>4 DEF UploadInv, UploadOK, RemoveFile
<1>7. f \in FilesOf(curated[p]) /\ f \notin InFlight
  <2>1. f \in FilesOf(curated[p])
    BY <1>1 DEF FilesOf, ToSet
  <2> QED
    BY <2>1 DEF UploadInv, Separate, StagesApart, Curated
<1>8. EditsCurated'
  BY <1>3, <1>4, UploadAssumption DEF UploadInv, UploadOK, Faithful, EditsCurated, RemoveFile
<1>9. MeantKept'
  BY <1>7 DEF UploadInv, UploadOK, Faithful, MeantKept, RemoveFile, InFlight
<1>10. FolderKept' /\ AsChosen'
  BY DEF UploadInv, Faithful, FolderKept, AsChosen, RemoveFile
<1> QED
  BY <1>5, <1>6, <1>8, <1>9, <1>10 DEF UploadInv, Faithful

LEMMA SelectPacketsStep ==
  ASSUME UploadInv, NEW p \in UploadPages, NEW f \in Files, SelectPackets(p, f)
  PROVE  UploadInv'
<1>1. Separate'
  BY SameUploads DEF SelectPackets
<1>2. UploadOK'
  BY DEF UploadInv, UploadOK, SelectPackets
<1>3. EditsCurated'
  BY DEF UploadInv, UploadOK, Faithful, EditsCurated, SelectPackets
<1>4. MeantKept' /\ FolderKept' /\ AsChosen'
  BY DEF UploadInv, Faithful, MeantKept, FolderKept, AsChosen, SelectPackets
<1> QED
  BY <1>1, <1>2, <1>3, <1>4 DEF UploadInv, Faithful

LEMMA PacketsSelectedStep ==
  ASSUME UploadInv, NEW p \in UploadPages, NEW tokens \in {{1}, {0}}, PacketsSelected(p, tokens)
  PROVE  UploadInv'
<1>1. Separate'
  BY SameUploads DEF PacketsSelected
<1>2. tokens = {1} /\ editFile[p] \in Files /\ editFile[p] \in FilesOf(curated[p])
  BY DEF PacketsSelected, Numbers, UploadInv, UploadOK, Faithful, EditsCurated
<1>3. UploadOK'
  BY <1>2 DEF UploadInv, UploadOK, PacketsSelected
<1>4. EditsCurated'
  BY UploadAssumption DEF UploadInv, UploadOK, Faithful, EditsCurated, PacketsSelected
<1>5. editFile[p] \notin InFlight
  BY <1>2 DEF UploadInv, Separate, StagesApart, Curated
<1>6. MeantKept'
  BY <1>5 DEF UploadInv, UploadOK, Faithful, MeantKept, PacketsSelected, InFlight
<1>7. FolderKept' /\ AsChosen'
  BY DEF UploadInv, Faithful, FolderKept, AsChosen, PacketsSelected
<1> QED
  BY <1>1, <1>3, <1>4, <1>6, <1>7 DEF UploadInv, Faithful

LEMMA UplinkFilesStep ==
  ASSUME UploadInv, NEW p \in UploadPages, UplinkFiles(p)
  PROVE  UploadInv'
<1> DEFINE s == curated[p]
           m == [f \in FilesOf(s) |-> packets[f]]
           u == [page |-> p, files |-> s, folder |-> folder[p], stage |-> "put", clean |-> TRUE, meant |-> m]
<1>1. s \in Seq(Files) /\ s # <<>> /\ AllDifferent(s) /\ FilesOf(s) \subseteq Files
  BY FilesOfSeq DEF UploadInv, UploadOK, Separate, OncePerPage, UplinkFiles
<1>2. m \in Plans
  BY <1>1 DEF Plans, UploadInv, UploadOK
<1>3. /\ uploads' = uploads \cup {u} /\ curated' = [curated EXCEPT ![p] = <<>>]
      /\ editFile' = [editFile EXCEPT ![p] = NoFile]
      /\ UNCHANGED <<packets, folder, serverFolder, uplinks, lost>>
  BY DEF UplinkFiles, Emptied, EditClosed
<1>4. /\ u \in Uploads /\ u.files = s /\ u.stage = "put" /\ u.meant = m
  BY <1>1, <1>2 DEF Uploads, UploadInv, UploadOK
<1>5. \A f \in FilesOf(s) : m[f] = packets[f]
  OBVIOUS
<1> HIDE DEF u, m
<1>6. UploadOK'
  BY <1>3, <1>4, EmptyFiles DEF UploadInv, UploadOK
<1>7. /\ curated'[p] = <<>> /\ FilesOf(curated'[p]) = {}
      /\ \A q \in UploadPages : q # p => curated'[q] = curated[q]
  BY <1>3, EmptyFiles DEF UploadInv, UploadOK
<1>8. Separate'
  <2>1. OncePerPage' /\ PagesApart'
    BY <1>7, EmptyFiles DEF UploadInv, Separate, OncePerPage, PagesApart
  <2>2. OncePerUpload' /\ OnceQueued'
    BY <1>1, <1>3, <1>4 DEF UploadInv, Separate, OncePerUpload, OnceQueued
  <2>3. FilesOf(s) \subseteq Curated /\ FilesOf(s) \cap InFlight = {}
    BY DEF UploadInv, Separate, StagesApart, Curated
  <2>4. UploadsApart'
    <3> SUFFICES ASSUME NEW v \in uploads', NEW w \in uploads', v # w
                 PROVE  FilesOf(v.files) \cap FilesOf(w.files) = {}
      BY DEF UploadsApart
    <3>1. \A x \in uploads : FilesOf(x.files) \cap FilesOf(s) = {}
      BY <2>3 DEF InFlight
    <3>2. CASE v \in uploads /\ w \in uploads
      BY <3>2 DEF UploadInv, Separate, UploadsApart
    <3>3. CASE v = u /\ w \in uploads
      BY <1>4, <3>1, <3>3
    <3>4. CASE v \in uploads /\ w = u
      BY <1>4, <3>1, <3>4
    <3> QED
      BY <1>3, <3>2, <3>3, <3>4
  <2>5. Curated' = Curated \ FilesOf(s)
    BY <1>7 DEF Curated, UploadInv, Separate, PagesApart
  <2>6. InFlight' = InFlight \cup FilesOf(s) /\ Enqueued' = Enqueued /\ lost' = lost
    BY <1>3, <1>4 DEF InFlight, Enqueued
  <2>7. StagesApart'
    BY <2>3, <2>5, <2>6 DEF UploadInv, Separate, StagesApart
  <2> QED
    BY <2>1, <2>2, <2>4, <2>7 DEF Separate
<1>9. EditsCurated'
  BY <1>3, <1>7 DEF UploadInv, UploadOK, Faithful, EditsCurated
<1>10. MeantKept' /\ FolderKept' /\ AsChosen'
  BY <1>3, <1>4, <1>5 DEF UploadInv, Faithful, MeantKept, FolderKept, AsChosen
<1> QED
  BY <1>6, <1>8, <1>9, <1>10 DEF UploadInv, Faithful

-----------------------------------------------------------------------------
(* Uploads going on: what was asked for stays as it is, and no upload        *)
(* becomes two.                                                              *)
Same(u, v) == u.page = v.page /\ u.files = v.files /\ u.folder = v.folder /\ u.meant = v.meant

LEMMA UploadsGoOn ==
  ASSUME UploadInv, uploads' \subseteq Uploads,
         \A w \in uploads' : \E v \in uploads : Same(v, w),
         \A w, x \in uploads' : w.files = x.files => w = x,
         UNCHANGED <<curated, editFile, packets, folder, uplinks, lost>>, serverFolder' \in Folders,
         FolderKept'
  PROVE  UploadInv'
<1>1. UploadOK'
  BY DEF UploadInv, UploadOK
<1>2. OncePerPage' /\ PagesApart' /\ OnceQueued' /\ OncePerUpload'
  <2>1. OncePerUpload'
    <3> SUFFICES ASSUME NEW w \in uploads' PROVE w.files # <<>> /\ AllDifferent(w.files)
      BY DEF OncePerUpload
    <3>1. PICK v \in uploads : v.files = w.files
      BY DEF Same
    <3> QED
      BY <3>1 DEF UploadInv, Separate, OncePerUpload
  <2>2. OncePerPage' /\ PagesApart' /\ OnceQueued'
    BY DEF UploadInv, Separate, OncePerPage, PagesApart, OnceQueued
  <2> QED
    BY <2>1, <2>2
<1>3. UploadsApart'
  <2> SUFFICES ASSUME NEW w \in uploads', NEW x \in uploads', w # x
               PROVE  FilesOf(w.files) \cap FilesOf(x.files) = {}
    BY DEF UploadsApart
  <2>1. PICK v \in uploads : Same(v, w)
    OBVIOUS
  <2>2. PICK y \in uploads : Same(y, x)
    OBVIOUS
  <2>3. v # y
    BY <2>1, <2>2 DEF Same
  <2> QED
    BY <2>1, <2>2, <2>3 DEF UploadInv, Separate, UploadsApart, Same
<1>4. InFlight' \subseteq InFlight /\ Curated' = Curated /\ Enqueued' = Enqueued
  BY DEF InFlight, Curated, Enqueued, Same
<1>5. StagesApart'
  BY <1>4 DEF UploadInv, Separate, StagesApart
<1>6. EditsCurated' /\ MeantKept' /\ AsChosen'
  BY DEF UploadInv, Faithful, EditsCurated, MeantKept, AsChosen, Same
<1> QED
  BY <1>1, <1>2, <1>3, <1>5, <1>6 DEF UploadInv, Separate, Faithful

(* Two uploads of the same files are one.                                    *)
LEMMA OneOfFiles ==
  ASSUME UploadInv, NEW u \in uploads, NEW v \in uploads, u.files = v.files
  PROVE  u = v
<1>1. FilesOf(u.files) # {}
  BY UploadFiles, SomeFile DEF UploadInv, Separate, OncePerUpload
<1> QED
  BY <1>1 DEF UploadInv, Separate, UploadsApart

LEMMA SendFilesStep ==
  ASSUME UploadInv, NEW u \in uploads, SendFiles(u)
  PROVE  UploadInv'
<1> DEFINE w == [u EXCEPT !.stage = "post"]
<1>1. u \in Uploads /\ u.stage = "answered"
  BY DEF UploadInv, UploadOK, SendFiles, PostAfter
<1>2. w \in Uploads /\ Same(u, w) /\ w.clean = u.clean /\ w.folder = u.folder
  BY <1>1 DEF Uploads, Same
<1>3. uploads' = (uploads \ {u}) \cup {w}
  BY DEF SendFiles, Advance
<1> HIDE DEF w
<1>4. uploads' \subseteq Uploads
  BY <1>2, <1>3 DEF UploadInv, UploadOK
<1>5. \A x \in uploads' : \E v \in uploads : Same(v, x)
  BY <1>2, <1>3 DEF Same
<1>6. \A x, y \in uploads' : x.files = y.files => x = y
  BY <1>2, <1>3, OneOfFiles DEF Same
<1>7. FolderKept'
  BY <1>1, <1>2, <1>3 DEF UploadInv, Faithful, FolderKept, SendFiles
<1> QED
  BY <1>4, <1>5, <1>6, <1>7, UploadsGoOn DEF SendFiles, UploadInv, UploadOK

LEMMA ServeDestinationStep ==
  ASSUME UploadInv, NEW u \in uploads, ServeDestination(u)
  PROVE  UploadInv'
<1> DEFINE next(v) == IF v = u THEN [u EXCEPT !.stage = "answered"]
                      ELSE IF v.stage \in {"answered", "post"} THEN [v EXCEPT !.clean = FALSE] ELSE v
<1>1. uploads' = {next(v) : v \in uploads} /\ serverFolder' = u.folder
  BY DEF ServeDestination
<1>2. ASSUME NEW v \in uploads
      PROVE  /\ next(v) \in Uploads /\ Same(v, next(v))
             /\ next(v).clean /\ next(v).stage # "put" => next(v).folder = u.folder
  <2>1. v \in Uploads
    BY DEF UploadInv, UploadOK
  <2>2. CASE v = u
    BY <2>1, <2>2 DEF Uploads, Same
  <2>3. CASE v # u /\ v.stage \in {"answered", "post"}
    BY <2>1, <2>3 DEF Uploads, Same
  <2>4. CASE v # u /\ v.stage \notin {"answered", "post"}
    BY <2>1, <2>4 DEF Uploads, Same
  <2> QED
    BY <2>2, <2>3, <2>4
<1> HIDE DEF next
<1>3. uploads' \subseteq Uploads /\ \A x \in uploads' : \E v \in uploads : Same(v, x)
  BY <1>1, <1>2
<1>4. \A x, y \in uploads' : x.files = y.files => x = y
  <2> SUFFICES ASSUME NEW v \in uploads, NEW w \in uploads, next(v).files = next(w).files
               PROVE  next(v) = next(w)
    BY <1>1
  <2>1. v.files = w.files
    BY <1>2 DEF Same
  <2> QED
    BY <2>1, OneOfFiles
<1>5. FolderKept'
  BY <1>1, <1>2 DEF FolderKept
<1>6. serverFolder' \in Folders
  BY <1>1 DEF UploadInv, UploadOK, Uploads
<1> QED
  BY <1>3, <1>4, <1>5, <1>6, UploadsGoOn DEF ServeDestination

(* The server takes the files of an upload, in order.                        *)
LEMMA ServeFilesStep ==
  ASSUME UploadInv, NEW u \in uploads, ServeFiles(u)
  PROVE  UploadInv'
<1> DEFINE s == u.files
           added == [i \in DOMAIN s |-> [file |-> s[i], folder |-> serverFolder, packets |-> packets[s[i]],
                                         asked |-> u.folder, meant |-> u.meant[s[i]], clean |-> u.clean]]
           n == Len(uplinks)
<1>1. u \in Uploads /\ s \in Seq(Files) /\ AllDifferent(s) /\ u.stage = "post"
  BY DEF UploadInv, UploadOK, Uploads, Separate, OncePerUpload, ServeFiles
<1>2. \A i \in 1 .. Len(s) : s[i] \in FilesOf(s) /\ s[i] \in Files /\ u.meant[s[i]] = packets[s[i]]
  BY <1>1, FilesOfSeq DEF UploadInv, Faithful, MeantKept
<1>3. u.clean => serverFolder = u.folder
  BY <1>1 DEF UploadInv, Faithful, FolderKept
<1>4. /\ added \in Seq(Uplinks) /\ Len(added) = Len(s)
      /\ \A i \in 1 .. Len(s) : /\ added[i].file = s[i] /\ added[i].packets = added[i].meant
                                /\ added[i].clean => added[i].folder = added[i].asked
  <2>1. DOMAIN s = 1 .. Len(s) /\ Len(s) \in Nat
    BY <1>1
  <2>2. \A i \in 1 .. Len(s) : added[i] \in Uplinks
    BY <1>1, <1>2, <2>1 DEF Uplinks, Uploads, UploadInv, UploadOK
  <2>3. added \in Seq(Uplinks) /\ Len(added) = Len(s)
    <3>1. added \in [1 .. Len(s) -> Uplinks]
      BY <2>1, <2>2
    <3> HIDE DEF added
    <3>2. added \in Seq(Uplinks)
      BY <2>1, <3>1, SeqDef
    <3>3. Len(added) \in Nat /\ 1 .. Len(added) = 1 .. Len(s)
      BY <3>1, <3>2
    <3> QED
      BY <2>1, <3>2, <3>3
  <2>4. \A i \in 1 .. Len(s) : /\ added[i].file = s[i] /\ added[i].packets = added[i].meant
                               /\ added[i].clean => added[i].folder = added[i].asked
    BY <1>2, <1>3, <2>1
  <2> QED
    BY <2>3, <2>4
<1>5. uplinks' = uplinks \o added /\ uploads' = uploads \ {u}
      /\ UNCHANGED <<curated, editFile, packets, folder, serverFolder, lost>>
  BY DEF ServeFiles
<1> HIDE DEF added
<1>6. /\ uplinks' \in Seq(Uplinks) /\ Len(uplinks') = n + Len(s) /\ n \in Nat /\ Len(s) \in Nat
      /\ \A i \in 1 .. n + Len(s) : uplinks'[i] = IF i <= n THEN uplinks[i] ELSE added[i - n]
  BY <1>1, <1>4, <1>5, ConcatProperties DEF UploadInv, UploadOK
<1>7. \A i \in DOMAIN uplinks' :
        \/ i \in DOMAIN uplinks /\ uplinks'[i] = uplinks[i]
        \/ i \notin DOMAIN uplinks /\ i - n \in 1 .. Len(s) /\ uplinks'[i] = added[i - n]
  <2>1. DOMAIN uplinks = 1 .. n /\ DOMAIN uplinks' = 1 .. n + Len(s)
    BY <1>6 DEF UploadInv, UploadOK
  <2> QED
    BY <1>6, <2>1
<1>8. UploadOK'
  BY <1>5, <1>6 DEF UploadInv, UploadOK
<1>9. FilesOf(s) \subseteq InFlight /\ FilesOf(s) \cap InFlight' = {} /\ InFlight' \subseteq InFlight
  BY <1>5 DEF InFlight, UploadInv, Separate, UploadsApart
<1>10. Enqueued' \subseteq Enqueued \cup FilesOf(s)
  BY <1>2, <1>4, <1>7 DEF Enqueued
<1>11. OnceQueued'
  <2> SUFFICES ASSUME NEW i \in DOMAIN uplinks', NEW j \in DOMAIN uplinks', uplinks'[i].file = uplinks'[j].file
               PROVE  i = j
    BY DEF OnceQueued
  <2>1. CASE i \in DOMAIN uplinks /\ j \in DOMAIN uplinks
    BY <1>7, <2>1 DEF UploadInv, Separate, OnceQueued
  <2>2. CASE i \notin DOMAIN uplinks /\ j \notin DOMAIN uplinks
    <3>1. s[i - n] = s[j - n] /\ i - n \in DOMAIN s /\ j - n \in DOMAIN s
      BY <1>1, <1>4, <1>7, <2>2
    <3>2. i - n = j - n
      BY <1>1, <3>1 DEF AllDifferent
    <3>3. i \in Nat /\ j \in Nat
      BY <1>6
    <3> QED
      BY <1>6, <3>2, <3>3
  <2>3. ASSUME NEW k \in DOMAIN uplinks, NEW l \in 1 .. Len(s), uplinks[k].file = added[l].file
        PROVE  FALSE
    <3>1. uplinks[k].file \in Enqueued /\ added[l].file \in InFlight
      BY <1>2, <1>4, <1>9 DEF Enqueued
    <3> QED
      BY <2>3, <3>1 DEF UploadInv, Separate, StagesApart
  <2> QED
    BY <1>7, <2>1, <2>2, <2>3
<1>12. OncePerPage' /\ PagesApart' /\ OncePerUpload' /\ UploadsApart'
  BY <1>5 DEF UploadInv, Separate, OncePerPage, PagesApart, OncePerUpload, UploadsApart
<1>13. StagesApart'
  BY <1>5, <1>9, <1>10 DEF UploadInv, Separate, StagesApart, Curated
<1>14. EditsCurated' /\ MeantKept' /\ FolderKept'
  BY <1>5 DEF UploadInv, Faithful, EditsCurated, MeantKept, FolderKept
<1>15. AsChosen'
  BY <1>4, <1>7 DEF UploadInv, Faithful, AsChosen
<1> QED
  BY <1>8, <1>11, <1>12, <1>13, <1>14, <1>15 DEF UploadInv, Separate, Faithful

LEMMA RequestFailsStep ==
  ASSUME UploadInv, NEW u \in uploads, RequestFails(u)
  PROVE  UploadInv'
<1>1. /\ uploads' = uploads \ {u} /\ lost' = lost \cup FilesOf(u.files)
      /\ UNCHANGED <<curated, editFile, packets, folder, serverFolder, uplinks>>
  BY DEF RequestFails
<1>2. FilesOf(u.files) \subseteq InFlight /\ FilesOf(u.files) \cap InFlight' = {} /\ InFlight' \subseteq InFlight
  BY <1>1 DEF InFlight, UploadInv, Separate, UploadsApart
<1>3. Curated' = Curated /\ Enqueued' = Enqueued
  BY <1>1 DEF Curated, Enqueued
<1>4. StagesApart'
  BY <1>1, <1>2, <1>3 DEF UploadInv, Separate, StagesApart
<1>5. UploadOK'
  BY <1>1 DEF UploadInv, UploadOK
<1>6. OncePerPage' /\ PagesApart' /\ OncePerUpload' /\ UploadsApart' /\ OnceQueued'
  BY <1>1 DEF UploadInv, Separate, OncePerPage, PagesApart, OncePerUpload, UploadsApart, OnceQueued
<1>7. Faithful'
  BY <1>1 DEF UploadInv, Faithful, EditsCurated, MeantKept, FolderKept, AsChosen
<1> QED
  BY <1>4, <1>5, <1>6, <1>7 DEF UploadInv, Separate

LEMMA OtherUploadStep ==
  ASSUME UploadInv, UNCHANGED <<curated, editFile, packets, uploads, serverFolder, uplinks, lost>>,
         folder' \in [UploadPages -> Folders]
  PROVE  UploadInv'
<1>1. Separate'
  BY SameUploads
<1>2. UploadOK' /\ Faithful'
  BY DEF UploadInv, UploadOK, Faithful, EditsCurated, MeantKept, FolderKept, AsChosen
<1> QED
  BY <1>1, <1>2 DEF UploadInv

LEMMA UploadStep == UploadInv /\ [UploadNext]_uploadVars => UploadInv'
<1> SUFFICES ASSUME UploadInv, [UploadNext]_uploadVars PROVE UploadInv'
  OBVIOUS
<1>1. folder \in [UploadPages -> Folders]
  BY DEF UploadInv, UploadOK
<1>2. ASSUME NEW p \in UploadPages, NEW d \in Folders, TypeFolder(p, d)
      PROVE  UploadInv'
  BY <1>1, <1>2, OtherUploadStep DEF TypeFolder
<1>3. ASSUME NEW p \in UploadPages, DismissAlert(p)
      PROVE  UploadInv'
  BY <1>1, <1>3, OtherUploadStep DEF DismissAlert
<1>4. CASE UNCHANGED uploadVars
  BY <1>1, <1>4, OtherUploadStep DEF uploadVars
<1> QED
  BY <1>2, <1>3, <1>4, HandleFileStep, RemoveFileStep, SelectPacketsStep, PacketsSelectedStep,
     UplinkFilesStep, SendFilesStep, ServeDestinationStep, ServeFilesStep, RequestFailsStep DEF UploadNext

LEMMA UploadsKept == UploadSpec => []UploadInv
BY UploadStart, UploadStep, PTL DEF UploadSpec

-----------------------------------------------------------------------------
(* A set of at most one element has at most one.                             *)
LEMMA AtMostOne ==
  ASSUME NEW S, \A x, y \in S : x = y
  PROVE  Cardinality(S) = IF S = {} THEN 0 ELSE 1
<1>1. CASE S = {}
  BY <1>1, FS_EmptySet
<1>2. CASE S # {}
  <2>1. PICK x : S = {x}
    BY <1>2
  <2> QED
    BY <2>1, FS_Singleton
<1> QED
  BY <1>1, <1>2

LEMMA EachOnce == UploadInv => OnePlace
<1> SUFFICES ASSUME UploadInv, NEW f \in Files
             PROVE  Cardinality({p \in UploadPages : f \in FilesOf(curated[p])})
                    + Cardinality({u \in uploads : f \in FilesOf(u.files)})
                    + Cardinality({i \in DOMAIN uplinks : uplinks[i].file = f})
                    + (IF f \in lost THEN 1 ELSE 0) <= 1
  BY DEF OnePlace
<1> DEFINE P == {p \in UploadPages : f \in FilesOf(curated[p])}
           U == {u \in uploads : f \in FilesOf(u.files)}
           Q == {i \in DOMAIN uplinks : uplinks[i].file = f}
<1>1. Cardinality(P) = IF P = {} THEN 0 ELSE 1
  <2>1. \A x, y \in P : x = y
    BY DEF UploadInv, Separate, PagesApart
  <2> QED
    BY <2>1, AtMostOne
<1>2. Cardinality(U) = IF U = {} THEN 0 ELSE 1
  <2>1. \A x, y \in U : x = y
    BY DEF UploadInv, Separate, UploadsApart
  <2> QED
    BY <2>1, AtMostOne
<1>3. Cardinality(Q) = IF Q = {} THEN 0 ELSE 1
  <2>1. \A x, y \in Q : x = y
    BY DEF UploadInv, Separate, OnceQueued
  <2> QED
    BY <2>1, AtMostOne
<1>4. /\ P # {} => f \in Curated
      /\ U # {} => f \in InFlight
      /\ Q # {} => f \in Enqueued
  BY DEF Curated, InFlight, Enqueued
<1>5. /\ ~(f \in Curated /\ f \in InFlight) /\ ~(f \in Curated /\ f \in Enqueued) /\ ~(f \in Curated /\ f \in lost)
      /\ ~(f \in InFlight /\ f \in Enqueued) /\ ~(f \in InFlight /\ f \in lost) /\ ~(f \in Enqueued /\ f \in lost)
  BY DEF UploadInv, Separate, StagesApart
<1> HIDE DEF P, U, Q
<1>6. Cardinality(P) + Cardinality(U) + Cardinality(Q) + (IF f \in lost THEN 1 ELSE 0) <= 1
  BY <1>1, <1>2, <1>3, <1>4, <1>5
<1> QED
  BY <1>6 DEF P, U, Q

LEMMA FailureSeen ==
  ASSUME UploadInv, [UploadNext]_uploadVars, NEW u \in uploads, u.stage = "post", u \notin uploads',
         FilesOf(u.files) \subseteq lost'
  PROVE  u.page \in shown'
<1>1. PICK f \in FilesOf(u.files) : f \notin lost /\ f \in InFlight
  <2>1. FilesOf(u.files) # {} /\ FilesOf(u.files) \subseteq InFlight
    BY UploadFiles, SomeFile DEF UploadInv, Separate, OncePerUpload
  <2> QED
    BY <2>1 DEF UploadInv, Separate, StagesApart
<1>2. lost' # lost
  BY <1>1
<1>3. PICK v \in uploads : RequestFails(v)
  BY <1>2 DEF UploadNext, uploadVars, UplinkFiles, DismissAlert, HandleFile, RemoveFile, SelectPackets,
     TypeFolder, PacketsSelected, ServeDestination, SendFiles, ServeFiles
<1>4. v = u
  BY <1>3 DEF RequestFails
<1> QED
  BY <1>3, <1>4 DEF RequestFails, ErrorShown

(* However often the button is pressed on however many pages, whichever      *)
(* requests fail and in whatever order they are served: a file is in one     *)
(* place, goes to the uplinker with the packets chosen for it, to the folder *)
(* asked for unless another upload set it in between, and a page whose POST  *)
(* failed says so (uploader.js, uplink.js, flask/updown.py).                 *)
THEOREM FilesUploadedAsChosen == UploadSpec => UploadedAsChosen
<1>1. UploadInv => UploadTypeOK
  BY FilesOfSeq DEF UploadInv, UploadOK, Faithful, EditsCurated, UploadTypeOK, Uploads
<1>2. UploadInv => AsChosen
  BY DEF UploadInv, Faithful
<1>3. UploadInv /\ [UploadNext]_uploadVars
        => [\A u \in uploads : u.stage = "post" /\ u \notin uploads' /\ FilesOf(u.files) \subseteq lost'
              => u.page \in shown']_uploadVars
  BY FailureSeen
<1> QED
  BY <1>1, <1>2, <1>3, EachOnce, UploadsKept, PTL DEF UploadSpec, UploadedAsChosen, FailureShown
-----------------------------------------------------------------------------
Items == [id : Ids, time : Times, n : Nat]

(* The types of the store and of what is remembered about it.                *)
StoreOK ==
  /\ endpoint \in Endpoints
  /\ list \in Seq(Items) /\ received \in Seq(Items) /\ counter \in 0 .. MaxStored
  /\ map \in [Ids -> Items \cup {Unset}] /\ \A id \in Ids : map[id] # Unset => map[id].id = id
  /\ bufferLimit \in {0, 1, 2} /\ lastReceived \in BOOLEAN /\ broken \in BOOLEAN
  /\ wanted \subseteq {1, 2}
  /\ severe \in 0 .. counter /\ storeTime \in Nat

(* The items since the last clear are numbered in order.                     *)
ItemsInOrder ==
  /\ \A i \in 1 .. Len(received) : received[i].n \in 1 .. counter
  /\ \A i, j \in 1 .. Len(received) : i < j => received[i].n < received[j].n
TailHeld == Len(list) <= Len(received) /\ \A i \in 1 .. Len(list) : list[i] = received[Len(received) - Len(list) + i]
EventsKept ==
  endpoint = "events" => TailHeld /\ (Len(list) >= Len(received) \/ \E w \in wanted : Len(list) >= w)
WholeKept == endpoint = "upfiles" /\ received # <<>> => list # <<>> /\ TailHeld
ListOK == endpoint # "channels" => \A i \in 1 .. Len(list) : list[i].n \in 1 .. counter
NoList == endpoint = "channels" => list = <<>>

(* The flag is up exactly while its timeout is to come.                      *)
FlagTimed ==
  /\ flag \in BOOLEAN /\ arrivedAt \in Nat \cup {-1}
  /\ flag => arrivedAt # -1 /\ timer = arrivedAt + DataTimeout /\ storeTime <= timer
  /\ ~flag => timer = -1 /\ (arrivedAt # -1 => storeTime >= arrivedAt + DataTimeout)
  /\ arrivedAt # -1 => arrivedAt <= storeTime

Lesser(a, b) == IF a <= b THEN a ELSE b
ErrorsKept ==
  /\ gdsErrors \in Nat
  /\ errorLog = [i \in 1 .. Lesser(gdsErrors, ErrorLimit) |-> gdsErrors - Lesser(gdsErrors, ErrorLimit) + i]

(* Reports follow one another at least BehindTime apart.                     *)
StallKept ==
  /\ goodAt \in Nat \cup {-1} /\ lastGood \in Nat \cup {-1} /\ reports \in Nat
  /\ goodAt <= storeTime
  /\ lastGood # -1 => goodAt # -1 /\ goodAt - lastGood >= reports * BehindTime

StoreInv == StoreOK /\ ItemsInOrder /\ EventsKept /\ WholeKept /\ ListOK /\ NoList /\ FlagTimed /\ ErrorsKept /\ StallKept
-----------------------------------------------------------------------------
(* What the operators of the model return.                                   *)
LEMMA LastOfFacts ==
  ASSUME NEW S, NEW s \in Seq(S), NEW n \in 0 .. Len(s)
  PROVE  /\ LastOf(s, n) \in Seq(S) /\ Len(LastOf(s, n)) = n
         /\ \A i \in 1 .. n : LastOf(s, n)[i] = s[Len(s) - n + i]
<1>1. Len(s) \in Nat /\ n \in Nat /\ n <= Len(s)
  BY LenProperties
<1>2. \A i \in Len(s) - n + 1 .. Len(s) : s[i] \in S
  BY <1>1, ElementOfSeq
<1> DEFINE t == SubSeq(s, Len(s) - n + 1, Len(s))
<1>3. t \in Seq(S) /\ Len(t) = n /\ \A i \in 1 .. n : t[i] = s[Len(s) - n + i]
  BY <1>1, <1>2
<1> QED
  BY <1>3 DEF LastOf

LEMMA IsLastOf ==
  ASSUME NEW S, NEW s \in Seq(S), NEW t \in Seq(S), Len(t) <= Len(s),
         \A i \in 1 .. Len(t) : t[i] = s[Len(s) - Len(t) + i]
  PROVE  t = LastOf(s, Len(t))
<1>1. Len(t) \in 0 .. Len(s)
  BY LenProperties
<1> DEFINE u == LastOf(s, Len(t))
<1>2. u \in Seq(S) /\ Len(u) = Len(t) /\ \A i \in 1 .. Len(t) : u[i] = s[Len(s) - Len(t) + i]
  BY <1>1, LastOfFacts
<1> HIDE DEF u
<1>3. t = u
  BY <1>2, SeqEqual
<1> QED
  BY <1>3 DEF u

LEMMA MinOfTwo == \A a, b \in Int : Min({a, b}) = Lesser(a, b)
<1> SUFFICES ASSUME NEW a \in Int, NEW b \in Int PROVE Min({a, b}) = Lesser(a, b)
  OBVIOUS
<1> DEFINE m == Lesser(a, b)
<1>1. m \in {a, b} /\ \A x \in {a, b} : m <= x
  BY DEF Lesser
<1> HIDE DEF m
<1>2. {a, b} \in SUBSET Int
  OBVIOUS
<1>3. Min({a, b}) = m
  BY <1>1, <1>2, MinIs
<1> QED
  BY <1>3 DEF m

(* An answer: at most two items, numbered from the counter on.               *)
Answer(came) ==
  /\ came \in Seq(Items) /\ Len(came) <= 2
  /\ \A i \in 1 .. Len(came) : came[i].n = counter + i

LEMMA BatchesAre ==
  ASSUME StoreInv, NEW came \in Batches
  PROVE  Answer(came)
<1>1. PICK b \in UNION {[1 .. k -> Ids \X (IF endpoint = "channels" THEN Times ELSE {1})] : k \in 0 .. 2} :
        came = [i \in DOMAIN b |-> [id |-> b[i][1], time |-> b[i][2], n |-> counter + i]]
  BY DEF Batches
<1>2. PICK k \in 0 .. 2 : b \in [1 .. k -> Ids \X (IF endpoint = "channels" THEN Times ELSE {1})]
  BY <1>1
<1>3. \A i \in 1 .. k : b[i][1] \in Ids /\ b[i][2] \in Times
  BY <1>2 DEF Times
<1>4. counter \in Nat /\ DOMAIN b = 1 .. k
  BY <1>2, StoreAssumption DEF StoreInv, StoreOK
<1>5. \A i \in 1 .. k : came[i] \in Items /\ came[i].n = counter + i
  BY <1>1, <1>3, <1>4 DEF Items
<1>6. came \in [1 .. k -> Items]
  BY <1>1, <1>4, <1>5
<1>7. came \in Seq(Items) /\ Len(came) = k
  <2>1. came \in Seq(Items)
    BY <1>6, SeqDef
  <2>2. Len(came) \in Nat /\ 1 .. Len(came) = 1 .. k
    BY <1>6, <2>1
  <2> QED
    BY <2>1, <2>2
<1> QED
  BY <1>5, <1>7 DEF Answer

LEMMA StoreStart == StoreInit => StoreInv
<1> SUFFICES ASSUME StoreInit PROVE StoreInv
  OBVIOUS
<1>1. <<>> \in Seq(Items) /\ Len(<<>>) = 0
  BY EmptySeq
<1>2. StoreOK
  <2>1. map \in [Ids -> Items \cup {Unset}] /\ \A id \in Ids : map[id] = Unset
    BY DEF StoreInit
  <2>2. counter \in 0 .. MaxStored /\ severe \in 0 .. counter /\ storeTime \in Nat
    BY StoreAssumption DEF StoreInit
  <2>3. list \in Seq(Items) /\ received \in Seq(Items)
    BY <1>1 DEF StoreInit
  <2> QED
    BY <2>1, <2>2, <2>3 DEF StoreInit, StoreOK
<1>3. ItemsInOrder /\ EventsKept /\ WholeKept /\ ListOK /\ NoList
  BY <1>1 DEF StoreInit, ItemsInOrder, EventsKept, WholeKept, ListOK, NoList, TailHeld
<1>4. FlagTimed
  BY DEF StoreInit, FlagTimed
<1>5. ErrorsKept
  <2>1. Lesser(0, ErrorLimit) = 0
    BY StoreAssumption DEF Lesser
  <2>2. <<>> = [i \in 1 .. 0 |-> 0 - 0 + i]
    OBVIOUS
  <2> QED
    BY <2>1, <2>2 DEF StoreInit, ErrorsKept
<1>6. StallKept
  BY StoreAssumption DEF StoreInit, StallKept
<1> QED
  BY <1>2, <1>3, <1>4, <1>5, <1>6 DEF StoreInv

-----------------------------------------------------------------------------
(* The errors and the timing, in any answer.                                 *)
LEMMA ErrorsLogged ==
  ASSUME StoreInv, NEW k \in 0 .. 2, AddErrors(k)
  PROVE  ErrorsKept' /\ gdsErrors' = gdsErrors + k
<1> DEFINE g == gdsErrors
           m == Lesser(g, ErrorLimit)
           h == g + k
           l == Lesser(h, ErrorLimit)
           new == [i \in 1 .. k |-> g + i]
           all == errorLog \o new
<1>1. g \in Nat /\ ErrorLimit \in Nat /\ m \in Nat /\ m <= g /\ m <= ErrorLimit
  BY StoreAssumption DEF StoreInv, ErrorsKept, Lesser
<1>2. /\ errorLog = [i \in 1 .. m |-> g - m + i]
      /\ gdsErrors' = h /\ errorLog' = IF Len(all) > ErrorLimit THEN LastOf(all, ErrorLimit) ELSE all
  BY DEF StoreInv, ErrorsKept, AddErrors, Logged
<1>3. errorLog \in Seq(Nat) /\ Len(errorLog) = m /\ \A i \in 1 .. m : errorLog[i] = g - m + i
  <2>1. \A i \in 1 .. m : g - m + i \in Nat
    BY <1>1
  <2>2. errorLog \in [1 .. m -> Nat]
    BY <1>2, <2>1
  <2>3. errorLog \in Seq(Nat)
    BY <1>1, <2>2, SeqDef
  <2>4. Len(errorLog) \in Nat /\ 1 .. Len(errorLog) = 1 .. m
    BY <2>2, <2>3
  <2> QED
    BY <1>1, <1>2, <2>3, <2>4
<1>4. new \in Seq(Nat) /\ Len(new) = k /\ \A i \in 1 .. k : new[i] = g + i
  <2>1. new \in [1 .. k -> Nat]
    BY <1>1
  <2>2. \A i \in 1 .. k : new[i] = g + i
    OBVIOUS
  <2> HIDE DEF new
  <2>3. new \in Seq(Nat)
    BY <2>1, SeqDef
  <2>4. Len(new) \in Nat /\ 1 .. Len(new) = 1 .. k
    BY <2>1, <2>3
  <2> QED
    BY <2>2, <2>3, <2>4
<1> HIDE DEF new
<1>5. all \in Seq(Nat) /\ Len(all) = m + k /\ \A i \in 1 .. m + k : all[i] = g - m + i
  <2>1. /\ all \in Seq(Nat) /\ Len(all) = m + k
        /\ \A i \in 1 .. m + k : all[i] = IF i <= m THEN errorLog[i] ELSE new[i - m]
    BY <1>3, <1>4, ConcatProperties
  <2> HIDE DEF all
  <2>2. ASSUME NEW i \in 1 .. m + k PROVE all[i] = g - m + i
    <3>1. CASE i <= m
      <4>1. i \in 1 .. m
        BY <1>1, <3>1
      <4> QED
        BY <1>3, <2>1, <3>1, <4>1
    <3>2. CASE ~(i <= m)
      <4>1. i - m \in 1 .. k
        BY <1>1, <3>2
      <4>2. all[i] = g + (i - m)
        BY <1>4, <2>1, <3>2, <4>1
      <4> QED
        BY <1>1, <4>2
    <3> QED
      BY <3>1, <3>2
  <2> QED
    BY <2>1, <2>2
<1> HIDE DEF all
<1>6. /\ errorLog' \in Seq(Nat) /\ Len(errorLog') = l /\ l \in Nat
      /\ \A i \in 1 .. l : errorLog'[i] = h - l + i
  <2>1. CASE Len(all) > ErrorLimit
    <3>1. ErrorLimit \in 0 .. Len(all) /\ errorLog' = LastOf(all, ErrorLimit)
      BY <1>1, <1>2, <1>5, <2>1
    <3>2. /\ errorLog' \in Seq(Nat) /\ Len(errorLog') = ErrorLimit
          /\ \A i \in 1 .. ErrorLimit : errorLog'[i] = all[Len(all) - ErrorLimit + i]
      <4>1. all \in Seq(Nat)
        BY <1>5
      <4> HIDE DEF l
      <4> QED
        BY <3>1, <4>1, LastOfFacts
    <3>3. l = ErrorLimit
      BY <1>1, <1>5, <2>1 DEF Lesser
    <3>4. \A i \in 1 .. ErrorLimit : Len(all) - ErrorLimit + i \in 1 .. m + k
      <4>1. Len(all) = m + k /\ m \in Nat /\ ErrorLimit \in Nat /\ ErrorLimit < m + k
        BY <1>1, <1>5, <2>1
      <4> HIDE DEF m
      <4> QED
        BY <4>1
    <3>5. \A i \in 1 .. ErrorLimit : errorLog'[i] = g - m + (m + k - ErrorLimit + i)
      <4> SUFFICES ASSUME NEW i \in 1 .. ErrorLimit
                   PROVE  errorLog'[i] = g - m + (m + k - ErrorLimit + i)
        OBVIOUS
      <4>1. Len(all) - ErrorLimit + i \in 1 .. m + k
        BY <3>4
      <4>2. errorLog'[i] = g - m + (Len(all) - ErrorLimit + i)
        BY <1>5, <3>2, <4>1
      <4>3. Len(all) - ErrorLimit + i = m + k - ErrorLimit + i
        <5>1. Len(all) = m + k /\ m \in Int /\ k \in Int /\ ErrorLimit \in Int
          BY <1>1, <1>5
        <5> HIDE DEF m
        <5> QED
          BY <5>1
      <4> QED
        BY <4>2, <4>3, Zenon
    <3> QED
      BY <1>1, <3>2, <3>3, <3>5
  <2>2. CASE ~(Len(all) > ErrorLimit)
    <3>1. errorLog' = all /\ m + k <= ErrorLimit
      BY <1>1, <1>2, <1>5, <2>2
    <3>2. m = g \/ k = 0
      BY <1>1, <3>1 DEF Lesser
    <3>3. l = m + k /\ h - l = g - m
      BY <1>1, <3>1, <3>2 DEF Lesser
    <3> QED
      BY <1>1, <1>5, <3>1, <3>3
  <2> QED
    BY <2>1, <2>2
<1> HIDE DEF l, h
<1>7. errorLog' = [i \in 1 .. l |-> h - l + i]
  <2>1. DOMAIN errorLog' = 1 .. l /\ errorLog' = [i \in DOMAIN errorLog' |-> errorLog'[i]]
    BY <1>6
  <2> QED
    BY <1>6, <2>1
<1>8. gdsErrors' = h /\ h \in Nat
  BY <1>1, <1>2 DEF h
<1>9. l = Lesser(gdsErrors', ErrorLimit)
  BY <1>8 DEF l
<1>10. ErrorsKept'
  BY <1>7, <1>8, <1>9 DEF ErrorsKept, Lesser
<1> QED
  BY <1>8, <1>10 DEF h

LEMMA Timed ==
  ASSUME StoreInv, NEW slow \in BOOLEAN, UpdateTiming(slow), UNCHANGED storeTime
  PROVE  StallKept'
<1>1. storeTime \in Nat /\ BehindTime \in Nat \ {0}
  BY StoreAssumption DEF StoreInv, StoreOK
<1>2. \A r \in Nat : (r + 1) * BehindTime = r * BehindTime + BehindTime /\ 0 * BehindTime = 0 /\ r * BehindTime \in Nat
  BY <1>1
<1>3. CASE ~slow
  BY <1>1, <1>2, <1>3 DEF UpdateTiming, StoreInv, StallKept
<1>4. CASE slow /\ Behind(slow)
  <2>1. /\ goodAt' = storeTime /\ lastGood' = lastGood /\ reports' = reports + 1
        /\ goodAt # -1 /\ storeTime - goodAt >= BehindTime
    BY <1>4 DEF UpdateTiming, Behind
  <2>2. lastGood # -1 => goodAt - lastGood >= reports * BehindTime
    BY DEF StoreInv, StallKept
  <2>3. reports \in Nat /\ reports * BehindTime \in Nat /\ (reports + 1) * BehindTime = reports * BehindTime + BehindTime
    BY <1>2 DEF StoreInv, StallKept
  <2> DEFINE r == reports * BehindTime
             q == (reports + 1) * BehindTime
  <2>4. r \in Nat /\ q = r + BehindTime /\ (lastGood # -1 => goodAt - lastGood >= r)
    BY <2>2, <2>3
  <2> HIDE DEF r, q
  <2>5. lastGood # -1 => storeTime - lastGood >= q
    BY <1>1, <2>1, <2>4 DEF StoreInv, StallKept
  <2>6. lastGood # -1 => storeTime - lastGood >= (reports + 1) * BehindTime
    BY <2>5 DEF q
  <2> QED
    BY <1>1, <2>1, <2>6 DEF StoreInv, StallKept
<1>5. CASE slow /\ ~Behind(slow)
  BY <1>5 DEF UpdateTiming, StoreInv, StallKept
<1> QED
  BY <1>3, <1>4, <1>5

-----------------------------------------------------------------------------
(* The items of an answer reach the store.                                   *)
LEMMA Received ==
  ASSUME StoreInv, NEW came, Answer(came), came # <<>>, Update(came)
  PROVE  /\ Len(came) \in {1, 2} /\ received' \in Seq(Items) /\ Len(received') = Len(received) + Len(came)
         /\ \A i \in 1 .. Len(received) : received'[i] = received[i]
         /\ \A i \in 1 .. Len(came) : received'[Len(received) + i] = came[i]
         /\ counter' = counter + Len(came) /\ ItemsInOrder'
<1> DEFINE r == Len(received)
           k == Len(came)
           all == received \o came
<1>1. k \in {1, 2} /\ came \in Seq(Items) /\ received \in Seq(Items) /\ r \in Nat /\ counter \in Nat
  <2>1. came \in Seq(Items) /\ Len(came) <= 2 /\ received \in Seq(Items) /\ counter \in Nat
    BY StoreAssumption DEF Answer, StoreInv, StoreOK
  <2>2. k \in Nat /\ k # 0 /\ k <= 2 /\ r \in Nat
    BY <2>1, EmptySeq, LenProperties
  <2> HIDE DEF k, r
  <2>3. k \in {1, 2}
    BY <2>2
  <2> QED
    BY <2>1, <2>2, <2>3
<1>2. all \in Seq(Items) /\ Len(all) = r + k /\ \A i \in 1 .. r + k : all[i] = IF i <= r THEN received[i] ELSE came[i - r]
  BY <1>1, ConcatProperties
<1>3. received' = all /\ counter' = counter + k
  BY DEF Update
<1> HIDE DEF all
<1>4. \A i \in 1 .. r : all[i] = received[i]
  BY <1>1, <1>2
<1>5. \A i \in 1 .. k : all[r + i] = came[i]
  <2> SUFFICES ASSUME NEW i \in 1 .. k PROVE all[r + i] = came[i]
    OBVIOUS
  <2>1. r + i \in 1 .. r + k /\ ~(r + i <= r) /\ (r + i) - r = i
    BY <1>1
  <2> QED
    BY <1>2, <2>1
<1>6. \A i \in 1 .. r + k : i \in 1 .. r \/ (i - r \in 1 .. k /\ all[i] = came[i - r])
  BY <1>1, <1>2
<1>7. ItemsInOrder'
  <2>1. \A i \in 1 .. r + k : /\ i \in 1 .. r => all[i].n \in 1 .. counter
                              /\ i \notin 1 .. r => all[i].n = counter + (i - r)
    BY <1>4, <1>6 DEF Answer, StoreInv, ItemsInOrder
  <2>2. \A i \in 1 .. r + k : all[i].n \in 1 .. counter + k
    BY <1>1, <2>1
  <2>3. \A i, j \in 1 .. r + k : i < j => all[i].n < all[j].n
    <3> SUFFICES ASSUME NEW i \in 1 .. r + k, NEW j \in 1 .. r + k, i < j
                 PROVE  all[i].n < all[j].n
      OBVIOUS
    <3>1. CASE j \in 1 .. r
      BY <1>1, <1>4, <3>1 DEF StoreInv, ItemsInOrder
    <3>2. CASE i \in 1 .. r /\ j \notin 1 .. r
      <4>1. all[i].n \in 1 .. counter /\ all[j].n = counter + (j - r) /\ j - r > 0
        BY <1>1, <2>1, <3>2
      <4> QED
        BY <1>1, <4>1
    <3>3. CASE i \notin 1 .. r /\ j \notin 1 .. r
      <4>1. all[i].n = counter + (i - r) /\ all[j].n = counter + (j - r)
        BY <2>1, <3>3
      <4> QED
        BY <1>1, <4>1
    <3>4. j \in 1 .. r => i \in 1 .. r
      BY <1>1
    <3> QED
      BY <3>1, <3>2, <3>3, <3>4
  <2> QED
    BY <1>2, <1>3, <2>2, <2>3 DEF ItemsInOrder
<1> QED
  BY <1>1, <1>2, <1>3, <1>4, <1>5, <1>7

LEMMA EventsStep ==
  ASSUME StoreInv, NEW came, Answer(came), came # <<>>, Update(came), endpoint = "events"
  PROVE  /\ list' \in Seq(Items) /\ TailHeld'
         /\ Len(list') >= Len(received') \/ \E w \in wanted' : Len(list') >= w
<1> DEFINE r == Len(received)
           k == Len(came)
           l == Len(list)
           all == list \o came
<1>1. /\ k \in {1, 2} /\ r \in Nat /\ l \in Nat /\ l <= r
      /\ came \in Seq(Items) /\ list \in Seq(Items) /\ received \in Seq(Items)
  BY Received, LenProperties DEF Answer, StoreInv, StoreOK, EventsKept, TailHeld
<1>2. all \in Seq(Items) /\ Len(all) = l + k /\ \A i \in 1 .. l + k : all[i] = IF i <= l THEN list[i] ELSE came[i - l]
  BY <1>1, ConcatProperties
<1>3. list' = Trim(all)
  BY DEF Update
<1> HIDE DEF all
<1>4. \A i \in 1 .. l + k : all[i] = received'[r - l + i]
  <2> SUFFICES ASSUME NEW i \in 1 .. l + k PROVE all[i] = received'[r - l + i]
    OBVIOUS
  <2>1. CASE i <= l
    <3>1. i \in 1 .. l /\ r - l + i \in 1 .. r
      BY <1>1, <2>1
    <3>2. all[i] = list[i] /\ list[i] = received[r - l + i]
      BY <1>2, <2>1, <3>1 DEF StoreInv, EventsKept, TailHeld
    <3> QED
      BY <3>1, <3>2, Received
  <2>2. CASE ~(i <= l)
    <3>1. i - l \in 1 .. k /\ r - l + i = r + (i - l)
      BY <1>1, <2>2
    <3>2. all[i] = came[i - l]
      BY <1>2, <2>2
    <3>3. received'[r + (i - l)] = came[i - l]
      BY <3>1, Received
    <3> QED
      BY <3>1, <3>2, <3>3, Zenon
  <2> QED
    BY <2>1, <2>2
<1>5. Len(received') = r + k /\ bufferLimit \in {0, 1, 2}
  BY Received DEF StoreInv, StoreOK
<1>6. CASE bufferLimit > 0 /\ Len(all) > bufferLimit
  <2>1. bufferLimit \in 0 .. Len(all) /\ list' = LastOf(all, bufferLimit)
    BY <1>1, <1>2, <1>3, <1>5, <1>6 DEF Trim
  <2>2. /\ list' \in Seq(Items) /\ Len(list') = bufferLimit
        /\ \A i \in 1 .. bufferLimit : list'[i] = all[Len(all) - bufferLimit + i]
    BY <1>2, <2>1, LastOfFacts
  <2>3. \A i \in 1 .. bufferLimit : list'[i] = received'[Len(received') - bufferLimit + i]
    <3> SUFFICES ASSUME NEW i \in 1 .. bufferLimit
                 PROVE  list'[i] = received'[Len(received') - bufferLimit + i]
      OBVIOUS
    <3>1. l + k - bufferLimit + i \in 1 .. l + k /\ Len(all) = l + k
      BY <1>1, <1>2, <1>5, <1>6
    <3>2. list'[i] = received'[r - l + (l + k - bufferLimit + i)]
      <4> DEFINE j == l + k - bufferLimit + i
      <4>1. list'[i] = all[Len(all) - bufferLimit + i]
        BY <2>2
      <4>2. Len(all) - bufferLimit + i = j
        <5>1. Len(all) = l + k /\ l \in Int /\ k \in Int /\ bufferLimit \in Int
          BY <1>1, <1>5, <3>1
        <5> HIDE DEF l, k
        <5> QED
          BY <5>1
      <4>3. j \in 1 .. l + k
        BY <3>1
      <4> HIDE DEF j
      <4>4. all[j] = received'[r - l + j]
        BY <1>4, <4>3
      <4>5. list'[i] = received'[r - l + j]
        BY <4>1, <4>2, <4>4, Zenon
      <4> QED
        BY <4>5 DEF j
    <3>3. r - l + (l + k - bufferLimit + i) = Len(received') - bufferLimit + i
      BY <1>1, <1>5
    <3> QED
      BY <3>2, <3>3, Zenon
  <2>4. bufferLimit \in wanted'
    BY <1>6 DEF Update
  <2>5. Len(list') <= Len(received')
    BY <1>1, <1>2, <1>5, <1>6, <2>2
  <2> QED
    BY <1>5, <2>2, <2>3, <2>4, <2>5 DEF TailHeld
<1>7. CASE ~(bufferLimit > 0 /\ Len(all) > bufferLimit)
  <2>1. list' = all
    BY <1>3, <1>7 DEF Trim
  <2>2. TailHeld'
    <3>1. \A i \in 1 .. Len(all) : all[i] = received'[Len(received') - Len(all) + i]
      <4> SUFFICES ASSUME NEW i \in 1 .. Len(all) PROVE all[i] = received'[Len(received') - Len(all) + i]
        OBVIOUS
      <4>1. i \in 1 .. l + k /\ r - l + i = Len(received') - Len(all) + i
        BY <1>1, <1>2, <1>5
      <4> QED
        BY <1>4, <4>1, Zenon
    <3>2. Len(all) <= Len(received')
      BY <1>1, <1>2, <1>5
    <3> QED
      BY <2>1, <3>1, <3>2 DEF TailHeld
  <2>3. l >= r \/ \E w \in wanted : l >= w
    BY DEF StoreInv, EventsKept
  <2>4. wanted \subseteq wanted' /\ wanted \subseteq {1, 2}
    BY DEF Update, StoreInv, StoreOK
  <2>5. l + k >= r + k \/ \E w \in wanted' : l + k >= w
    BY <1>1, <2>3, <2>4
  <2> QED
    BY <1>2, <1>5, <2>1, <2>2, <2>5
<1> QED
  BY <1>6, <1>7

LEMMA WholeStep ==
  ASSUME StoreInv, NEW came, Answer(came), came # <<>>, Update(came), endpoint = "upfiles"
  PROVE  list' = came /\ list' \in Seq(Items) /\ list' # <<>> /\ TailHeld'
<1>1. list \in Seq(Items) /\ came \in Seq(Items)
  BY DEF StoreInv, StoreOK, Answer
<1>2. list' = came
  <2>1. list' = FullList(came)
    BY DEF Update
  <2>2. CASE Len(list) # Len(came) \/ \E i \in DOMAIN list : list[i] # came[i]
    BY <2>1, <2>2 DEF FullList
  <2>3. CASE ~(Len(list) # Len(came) \/ \E i \in DOMAIN list : list[i] # came[i])
    <3>1. Len(list) = Len(came) /\ \A i \in 1 .. Len(list) : list[i] = came[i]
      BY <1>1, <2>3, LenProperties
    <3>2. list = came
      BY <1>1, <3>1, SeqEqual
    <3> QED
      BY <2>1, <2>3, <3>2 DEF FullList
  <2> QED
    BY <2>2, <2>3
<1>3. /\ Len(came) \in {1, 2} /\ Len(received) \in Nat /\ Len(received') = Len(received) + Len(came)
      /\ \A i \in 1 .. Len(came) : received'[Len(received) + i] = came[i]
  BY Received, LenProperties DEF StoreInv, StoreOK
<1>4. Len(received') - Len(came) = Len(received) /\ Len(came) <= Len(received')
  BY <1>3
<1> QED
  BY <1>1, <1>2, <1>3, <1>4 DEF TailHeld

(* What an answer makes of a channel: the last of its items that pass.       *)
LEMMA MergedIs ==
  ASSUME StoreInv, NEW came, Answer(came), NEW id \in Ids
  PROVE  LET passing == {i \in 1 .. Len(came) : came[i].id = id /\ Passes(came[i])}
         IN  \/ passing = {} /\ Merged(came)[id] = map[id]
             \/ \E i \in passing : /\ \A j \in passing : j <= i
                                   /\ Merged(came)[id] = came[i]
<1> DEFINE passing == {i \in 1 .. Len(came) : came[i].id = id /\ Passes(came[i])}
<1>1. came \in Seq(Items) /\ Len(came) \in Nat /\ Len(came) <= 2 /\ DOMAIN came = 1 .. Len(came)
  BY LenProperties DEF Answer
<1>2. Merged(came)[id] = IF passing = {} THEN map[id] ELSE came[Max(passing)]
  BY <1>1 DEF Merged
<1>3. CASE passing = {}
  BY <1>2, <1>3
<1>4. CASE passing # {}
  <2>1. passing \subseteq {1, 2}
    BY <1>1
  <2>2. \E i \in passing : \A j \in passing : j <= i
    <3> HIDE DEF passing
    <3>1. CASE 2 \in passing
      BY <2>1, <3>1
    <3>2. CASE 2 \notin passing
      <4>1. passing = {1}
        BY <1>4, <2>1, <3>2
      <4> QED
        BY <4>1
    <3> QED
      BY <3>1, <3>2
  <2> HIDE DEF passing
  <2>3. PICK i \in passing : \A j \in passing : j <= i
    BY <2>2
  <2>4. passing \in SUBSET Int /\ \A j \in passing : i >= j
    BY <2>1, <2>3
  <2>5. Max(passing) = i
    BY <2>4, MaxIs
  <2> QED
    BY <1>2, <1>4, <2>3, <2>5 DEF passing
<1> QED
  BY <1>3, <1>4

LEMMA MapTyped ==
  ASSUME StoreInv, NEW came, Answer(came)
  PROVE  /\ Merged(came) \in [Ids -> Items \cup {Unset}]
         /\ \A id \in Ids : Merged(came)[id] # Unset => Merged(came)[id].id = id
<1>1. Merged(came) = [id \in Ids |-> Merged(came)[id]]
  BY DEF Merged
<1>2. ASSUME NEW id \in Ids
      PROVE  /\ Merged(came)[id] \in Items \cup {Unset}
             /\ Merged(came)[id] # Unset => Merged(came)[id].id = id
  <2>1. \A i \in 1 .. Len(came) : came[i] \in Items
    BY ElementOfSeq DEF Answer
  <2> QED
    BY <2>1, MergedIs DEF StoreInv, StoreOK
<1> HIDE DEF Merged
<1> QED
  BY <1>1, <1>2

LEMMA SevereIs == ASSUME NEW came, Answer(came) PROVE Severe(came) \in 0 .. Len(came)
<1>1. came \in Seq(Items) /\ Len(came) \in Nat /\ DOMAIN came = 1 .. Len(came)
  BY LenProperties DEF Answer
<1> DEFINE S == {i \in DOMAIN came : came[i].id = 1}
<1>2. IsFiniteSet(1 .. Len(came)) /\ Cardinality(1 .. Len(came)) = Len(came)
  <2> DEFINE k == Len(came)
  <2>1. k \in Nat
    BY <1>1
  <2> HIDE DEF k
  <2>2. IsFiniteSet(1 .. k) /\ Cardinality(1 .. k) = IF 1 > k THEN 0 ELSE k - 1 + 1
    BY <2>1, FS_Interval
  <2>3. Cardinality(1 .. k) = k
    BY <2>1, <2>2
  <2> QED
    BY <2>2, <2>3 DEF k
<1>3. S \in SUBSET (1 .. Len(came))
  BY <1>1
<1>4. IsFiniteSet(S) /\ Cardinality(S) <= Len(came)
  BY <1>2, <1>3, FS_Subset
<1>5. Cardinality(S) \in Nat
  BY <1>4, FS_CardinalityType
<1> QED
  BY <1>1, <1>4, <1>5 DEF Severe

LEMMA AnsweredStep ==
  ASSUME StoreInv, NEW came, Answer(came), NEW slow \in BOOLEAN, Answered(came, slow)
  PROVE  StoreInv'
<1>1. UNCHANGED <<endpoint, bufferLimit, lastReceived, broken, storeTime>> /\ storeTime \in Nat
  BY DEF Answered, settings, StoreInv, StoreOK
<1>2. ErrorsKept' /\ StallKept'
  <2>1. ReportOf(slow) + (IF broken /\ came # <<>> THEN 1 ELSE 0) \in 0 .. 2
    BY DEF ReportOf
  <2> QED
    BY <1>1, <2>1, ErrorsLogged, Timed DEF Answered
<1>3. CASE came = <<>>
  <2>1. Severe(came) = 0 /\ Len(came) = 0
    BY <1>3, SevereIs, EmptySeq
  <2>2. UNCHANGED <<contents, activity>>
    BY <1>3 DEF Answered, Update
  <2>3. UNCHANGED <<list, map, counter, severe, received, wanted, flag, timer, arrivedAt>>
    BY <2>2 DEF contents, activity
  <2> QED
    BY <1>1, <1>2, <2>3 DEF StoreInv, StoreOK, ItemsInOrder, EventsKept, WholeKept, ListOK, NoList, TailHeld, FlagTimed
<1>4. CASE came # <<>>
  <2>1. Update(came) /\ counter + Len(came) <= MaxStored
    BY DEF Answered
  <2>2. /\ Len(came) \in {1, 2} /\ received' \in Seq(Items) /\ ItemsInOrder'
        /\ counter' = counter + Len(came) /\ Len(received') \in Nat /\ received' # <<>>
    <3>1. /\ Len(came) \in {1, 2} /\ received' \in Seq(Items) /\ ItemsInOrder'
          /\ counter' = counter + Len(came) /\ Len(received') = Len(received) + Len(came)
      BY <1>4, <2>1, Received
    <3>2. Len(received) \in Nat
      BY LenProperties DEF StoreInv, StoreOK
    <3>5. Len(came) \in {1, 2} /\ Len(received') = Len(received) + Len(came)
      BY <3>1, Zenon
    <3>3. Len(received') \in Nat /\ Len(received') # 0
      BY <3>2, <3>5
    <3>4. received' # <<>>
      BY <3>3, EmptySeq
    <3> QED
      BY <3>1, <3>3, <3>4
  <2>3. counter \in Nat /\ counter' \in 0 .. MaxStored
    BY <2>1, <2>2, StoreAssumption DEF StoreInv, StoreOK
  <2>4. severe' \in 0 .. counter'
    BY <2>2, <2>3, SevereIs DEF Answered, StoreInv, StoreOK
  <2>5. map' \in [Ids -> Items \cup {Unset}] /\ \A id \in Ids : map'[id] # Unset => map'[id].id = id
    <3>1. map' = IF endpoint = "channels" THEN Merged(came) ELSE map
      BY <1>4, <2>1 DEF Update
    <3>2. CASE endpoint = "channels"
      BY <3>1, <3>2, MapTyped
    <3>3. CASE endpoint # "channels"
      BY <3>1, <3>3 DEF StoreInv, StoreOK
    <3> QED
      BY <3>2, <3>3
  <2>6. wanted' \subseteq {1, 2}
    BY <1>4, <2>1 DEF Update, StoreInv, StoreOK
  <2>7. list' \in Seq(Items) /\ EventsKept' /\ WholeKept' /\ NoList'
    <3>1. CASE endpoint = "events"
      BY <1>1, <1>4, <2>1, <3>1, EventsStep DEF EventsKept, WholeKept, NoList
    <3>2. CASE endpoint = "upfiles"
      BY <1>1, <1>4, <2>1, <3>2, WholeStep DEF EventsKept, WholeKept, NoList
    <3>3. CASE endpoint = "channels"
      <4>1. list' = list
        BY <1>4, <2>1, <3>3 DEF Update
      <4> QED
        BY <1>1, <3>3, <4>1 DEF EventsKept, WholeKept, NoList, StoreInv, StoreOK
    <3> QED
      BY <3>1, <3>2, <3>3 DEF StoreInv, StoreOK, Endpoints
  <2>8. ListOK'
    <3> SUFFICES ASSUME endpoint # "channels", NEW i \in 1 .. Len(list')
                 PROVE  list'[i].n \in 1 .. counter'
      BY <1>1 DEF ListOK
    <3>1. TailHeld'
      BY <1>1, <2>2, <2>7 DEF EventsKept, WholeKept, StoreInv, StoreOK, Endpoints
    <3>2. Len(list') \in Nat
      BY <2>7, LenProperties
    <3>3. Len(received') - Len(list') + i \in 1 .. Len(received')
      BY <2>2, <3>1, <3>2 DEF TailHeld
    <3> QED
      BY <2>2, <3>1, <3>3 DEF TailHeld, ItemsInOrder
  <2>9. FlagTimed'
    <3>1. arrivedAt' = storeTime /\ flag' = TRUE /\ timer' = storeTime + DataTimeout
      BY <1>4, <2>1 DEF Update, Restarted
    <3> QED
      BY <1>1, <3>1, StoreAssumption DEF FlagTimed
  <2>10. StoreOK'
    BY <1>1, <2>2, <2>3, <2>4, <2>5, <2>6, <2>7 DEF StoreInv, StoreOK
  <2> QED
    BY <1>2, <2>2, <2>7, <2>8, <2>9, <2>10 DEF StoreInv
<1> QED
  BY <1>3, <1>4

LEMMA FailedStep ==
  ASSUME StoreInv, NEW slow \in BOOLEAN, Failed(slow)
  PROVE  StoreInv'
<1>1. UNCHANGED <<settings, storeTime, contents, activity>>
  BY DEF Failed
<1>2. ReportOf(slow) + 1 \in 0 .. 2
  BY DEF ReportOf
<1>3. ErrorsKept' /\ StallKept'
  BY <1>1, <1>2, ErrorsLogged, Timed DEF Failed
<1> QED
  BY <1>1, <1>3 DEF StoreInv, StoreOK, ItemsInOrder, EventsKept, WholeKept, ListOK, NoList, TailHeld, FlagTimed,
     settings, contents, activity

LEMMA ClearStoreStep ==
  ASSUME StoreInv, ClearStore
  PROVE  StoreInv'
<1>1. <<>> \in Seq(Items) /\ Len(<<>>) = 0
  BY EmptySeq
<1>2. /\ UNCHANGED <<settings, counter, severe, activity, storeTime, gdsErrors, errorLog, timing>>
      /\ received' = <<>> /\ wanted' = {} /\ endpoint # "upfiles"
      /\ list' = IF endpoint = "events" THEN <<>> ELSE list
      /\ map' = [id \in Ids |-> Unset]
  BY DEF ClearStore
<1>3. map' \in [Ids -> Items \cup {Unset}] /\ \A id \in Ids : map'[id] = Unset
  BY <1>2
<1>4. list' \in Seq(Items) /\ list' = <<>>
  BY <1>1, <1>2 DEF StoreInv, StoreOK, NoList, Endpoints
<1>5. StoreOK'
  BY <1>1, <1>2, <1>3, <1>4 DEF StoreInv, StoreOK, settings
<1>6. ItemsInOrder' /\ EventsKept' /\ WholeKept' /\ ListOK' /\ NoList'
  BY <1>1, <1>2, <1>4 DEF ItemsInOrder, EventsKept, WholeKept, ListOK, NoList, TailHeld, settings
<1>7. FlagTimed' /\ ErrorsKept' /\ StallKept'
  BY <1>2 DEF StoreInv, FlagTimed, ErrorsKept, StallKept, activity, timing
<1> QED
  BY <1>5, <1>6, <1>7 DEF StoreInv

(* The clock, the timeout and the settings.                                  *)
LEMMA QuietStep ==
  ASSUME StoreInv, UNCHANGED <<endpoint, contents, gdsErrors, errorLog, timing>>,
         bufferLimit' \in {0, 1, 2}, lastReceived' \in BOOLEAN, broken' \in BOOLEAN,
         storeTime' \in Nat, storeTime' >= storeTime, FlagTimed'
  PROVE  StoreInv'
<1>1. UNCHANGED <<list, map, counter, severe, received, wanted, goodAt, lastGood, reports>>
  BY DEF contents, timing
<1>2. StoreOK'
  BY <1>1 DEF StoreInv, StoreOK
<1>3. ItemsInOrder' /\ EventsKept' /\ WholeKept' /\ ListOK' /\ NoList'
  BY <1>1 DEF StoreInv, ItemsInOrder, EventsKept, WholeKept, ListOK, NoList, TailHeld
<1>4. ErrorsKept' /\ StallKept'
  BY <1>1 DEF StoreInv, StoreOK, ErrorsKept, StallKept
<1> QED
  BY <1>2, <1>3, <1>4 DEF StoreInv

LEMMA TimeOutStep == ASSUME StoreInv, TimeOut PROVE StoreInv'
<1>1. FlagTimed' /\ UNCHANGED <<settings, contents, storeTime, gdsErrors, errorLog, timing>>
  BY StoreAssumption DEF TimeOut, StoreInv, StoreOK, FlagTimed
<1> QED
  BY <1>1, QuietStep DEF settings, StoreInv, StoreOK

LEMMA PassingStep == ASSUME StoreInv, Passing PROVE StoreInv'
<1>1. storeTime' = storeTime + 1 /\ storeTime \in Nat
  BY DEF Passing, StoreInv, StoreOK
<1>2. UNCHANGED <<settings, contents, activity, gdsErrors, errorLog, timing>>
  BY DEF Passing
<1>3. FlagTimed'
  BY <1>1, <1>2, StoreAssumption DEF Passing, StoreInv, FlagTimed, activity
<1> QED
  BY <1>1, <1>2, <1>3, QuietStep DEF settings, StoreInv, StoreOK

LEMMA ConfigureStep == ASSUME StoreInv, Configure PROVE StoreInv'
<1>1. UNCHANGED <<endpoint, contents, activity, storeTime, gdsErrors, errorLog, timing>>
  BY DEF Configure
<1>2. FlagTimed' /\ storeTime' \in Nat /\ storeTime' >= storeTime
  BY <1>1 DEF StoreInv, StoreOK, FlagTimed, activity
<1>3. bufferLimit' \in {0, 1, 2} /\ lastReceived' \in BOOLEAN /\ broken' \in BOOLEAN
  BY DEF Configure, StoreInv, StoreOK
<1> QED
  BY <1>1, <1>2, <1>3, QuietStep

LEMMA StoreStep == StoreInv /\ [StoreNext]_storeVars => StoreInv'
<1> SUFFICES ASSUME StoreInv, [StoreNext]_storeVars PROVE StoreInv'
  OBVIOUS
<1>1. CASE UNCHANGED storeVars
  BY <1>1 DEF storeVars, StoreInv, StoreOK, ItemsInOrder, EventsKept, WholeKept, ListOK, NoList, TailHeld, FlagTimed,
     ErrorsKept, StallKept
<1>2. ASSUME NEW slow \in BOOLEAN, NEW came \in Batches, Answered(came, slow)
      PROVE  StoreInv'
  BY <1>2, BatchesAre, AnsweredStep
<1> QED
  BY <1>1, <1>2, FailedStep, TimeOutStep, ClearStoreStep, ConfigureStep, PassingStep DEF StoreNext

LEMMA StoreKept == StoreSpec => []StoreInv
BY StoreStart, StoreStep, PTL DEF StoreSpec

-----------------------------------------------------------------------------
(* What the invariant says of the properties.                                *)
LEMMA TailIs ==
  ASSUME StoreInv, TailHeld
  PROVE  Len(list) <= Len(received) /\ list = LastOf(received, Len(list))
BY IsLastOf DEF TailHeld, StoreInv, StoreOK

LEMMA Newest == StoreInv => NewestKept
<1> SUFFICES ASSUME StoreInv, endpoint = "events"
             PROVE  /\ Len(list) <= Len(received) /\ list = LastOf(received, Len(list))
                    /\ Len(list) >= Min({Len(received)} \cup wanted)
                    /\ \A i, j \in DOMAIN list : i < j => list[i].n < list[j].n
  BY DEF NewestKept
<1>1. /\ TailHeld /\ list \in Seq(Items) /\ received \in Seq(Items) /\ wanted \subseteq {1, 2}
      /\ Len(list) >= Len(received) \/ \E w \in wanted : Len(list) >= w
  BY DEF StoreInv, StoreOK, EventsKept
<1>2. Len(list) \in Nat /\ Len(received) \in Nat /\ DOMAIN list = 1 .. Len(list)
  BY <1>1, LenProperties
<1>3. Len(list) >= Min({Len(received)} \cup wanted)
  <2> DEFINE r == Len(received)
             S == {r} \cup wanted
  <2>1. \E m \in S : \A x \in S : m <= x
    <3>1. r \in Nat /\ wanted \subseteq {1, 2}
      BY <1>1, <1>2
    <3> HIDE DEF r
    <3>2. CASE 1 \in wanted
      BY <3>1, <3>2
    <3>3. CASE 1 \notin wanted /\ 2 \in wanted
      BY <3>1, <3>3
    <3>4. CASE wanted = {}
      BY <3>1, <3>4
    <3> QED
      BY <3>1, <3>2, <3>3, <3>4
  <2>2. PICK m \in S : \A x \in S : m <= x
    BY <2>1
  <2>3. S \in SUBSET Int
    <3>1. r \in Int /\ wanted \subseteq Int
      BY <1>1, <1>2
    <3> HIDE DEF r
    <3> QED
      BY <3>1
  <2>4. Min(S) = m
    BY <2>2, <2>3, MinIs
  <2>5. \E x \in S : Len(list) >= x
    BY <1>1
  <2>6. m \in Int /\ S \subseteq Int
    BY <2>3
  <2> HIDE DEF S
  <2>7. Len(list) >= m
    BY <1>2, <2>2, <2>5, <2>6
  <2> QED
    BY <2>4, <2>7 DEF S
<1>4. \A i, j \in DOMAIN list : i < j => list[i].n < list[j].n
  <2> SUFFICES ASSUME NEW i \in 1 .. Len(list), NEW j \in 1 .. Len(list), i < j
               PROVE  list[i].n < list[j].n
    BY <1>2
  <2> DEFINE d == Len(received) - Len(list)
  <2>1. d + i \in 1 .. Len(received) /\ d + j \in 1 .. Len(received) /\ d + i < d + j
    BY <1>1, <1>2 DEF TailHeld
  <2>2. list[i] = received[d + i] /\ list[j] = received[d + j]
    BY <1>1 DEF TailHeld
  <2> QED
    BY <2>1, <2>2 DEF StoreInv, ItemsInOrder
<1> QED
  BY <1>1, <1>3, <1>4, TailIs

LEMMA Whole == StoreInv => WholeList
<1> SUFFICES ASSUME StoreInv, endpoint = "upfiles", received # <<>>
             PROVE  \E k \in DOMAIN list : list = LastOf(received, Len(list)) /\ LastOf(received, 1) = LastOf(list, 1)
  BY DEF WholeList
<1>1. list # <<>> /\ TailHeld /\ list \in Seq(Items) /\ received \in Seq(Items)
  BY DEF StoreInv, StoreOK, WholeKept
<1>2. /\ Len(list) \in Nat \ {0} /\ Len(received) \in Nat /\ Len(list) <= Len(received)
      /\ DOMAIN list = 1 .. Len(list)
  BY <1>1, EmptySeq, LenProperties DEF TailHeld
<1> DEFINE u == LastOf(list, 1)
<1>3. u \in Seq(Items) /\ Len(u) = 1 /\ u[1] = list[Len(list) - 1 + 1]
  <2>1. 1 \in 0 .. Len(list) /\ 1 \in 1 .. 1
    BY <1>2
  <2>2. u \in Seq(Items) /\ Len(u) = 1 /\ \A i \in 1 .. 1 : u[i] = list[Len(list) - 1 + i]
    BY <1>1, <2>1, LastOfFacts
  <2> HIDE DEF u
  <2> QED
    BY <2>1, <2>2
<1> HIDE DEF u
<1>4. Len(list) - 1 + 1 = Len(list) /\ Len(received) - Len(list) + Len(list) = Len(received)
      /\ Len(received) - 1 + 1 = Len(received)
  BY <1>2
<1>5. u[1] = received[Len(received) - 1 + 1]
  BY <1>1, <1>2, <1>3, <1>4 DEF TailHeld
<1>6. u = LastOf(received, Len(u))
  <2>1. Len(u) <= Len(received) /\ \A i \in 1 .. Len(u) : u[i] = received[Len(received) - Len(u) + i]
    BY <1>2, <1>3, <1>5
  <2> QED
    BY <1>1, <1>3, <2>1, IsLastOf
<1>7. LastOf(received, 1) = LastOf(list, 1)
  BY <1>3, <1>6 DEF u
<1>8. 1 \in DOMAIN list /\ list = LastOf(received, Len(list))
  BY <1>1, <1>2, TailIs
<1> QED
  BY <1>7, <1>8

LEMMA Counted == StoreInv => ErrorsCounted
<1> SUFFICES ASSUME StoreInv PROVE ErrorsCounted
  OBVIOUS
<1>1. Min({gdsErrors, ErrorLimit}) = Lesser(gdsErrors, ErrorLimit)
  BY StoreAssumption, MinOfTwo DEF StoreInv, ErrorsKept
<1> QED
  BY <1>1 DEF StoreInv, ErrorsKept, ErrorsCounted

LEMMA Reported == StoreInv => StallReported
<1> SUFFICES ASSUME StoreInv, lastGood # -1
             PROVE  /\ reports * BehindTime <= storeTime - lastGood
                    /\ goodAt >= lastGood
                    /\ reports > 0 => goodAt - lastGood >= reports * BehindTime
  BY DEF StallReported
<1>1. /\ reports \in Nat /\ BehindTime \in Nat /\ storeTime \in Nat /\ lastGood \in Nat /\ goodAt \in Nat
      /\ goodAt <= storeTime /\ goodAt - lastGood >= reports * BehindTime
  BY StoreAssumption DEF StoreInv, StoreOK, StallKept
<1>2. reports * BehindTime \in Nat
  BY <1>1
<1> QED
  BY <1>1, <1>2

LEMMA StoreTyped == StoreInv => StoreTypeOK
<1> SUFFICES ASSUME StoreInv PROVE StoreTypeOK
  OBVIOUS
<1>1. \A i \in DOMAIN list : list[i].id \in Ids /\ list[i].n \in 1 .. counter
  <2>1. list \in Seq(Items) /\ DOMAIN list = 1 .. Len(list)
    BY LenProperties DEF StoreInv, StoreOK
  <2>2. CASE endpoint = "channels"
    BY <2>1, <2>2, EmptySeq DEF StoreInv, NoList
  <2>3. CASE endpoint # "channels"
    <3>1. \A i \in 1 .. Len(list) : list[i] \in Items
      BY <2>1, ElementOfSeq
    <3>2. \A i \in 1 .. Len(list) : list[i].n \in 1 .. counter
      BY <2>3 DEF StoreInv, ListOK
    <3> QED
      BY <2>1, <3>1, <3>2 DEF Items
  <2> QED
    BY <2>2, <2>3
<1>2. Len(errorLog) <= ErrorLimit
  <2> DEFINE m == Lesser(gdsErrors, ErrorLimit)
  <2>1. m \in Nat /\ m <= ErrorLimit /\ gdsErrors \in Nat
    BY StoreAssumption DEF StoreInv, ErrorsKept, Lesser
  <2>2. errorLog = [i \in 1 .. m |-> gdsErrors - m + i]
    BY DEF StoreInv, ErrorsKept
  <2> HIDE DEF m
  <2>3. errorLog \in [1 .. m -> Int]
    BY <2>1, <2>2
  <2>4. errorLog \in Seq(Int)
    BY <2>1, <2>3, SeqDef
  <2>5. Len(errorLog) \in Nat /\ 1 .. Len(errorLog) = 1 .. m
    BY <2>3, <2>4
  <2> QED
    BY <2>1, <2>5
<1>3. flag \in BOOLEAN /\ timer \in -1 .. storeTime + DataTimeout
  BY StoreAssumption DEF StoreInv, StoreOK, FlagTimed
<1> QED
  BY <1>1, <1>2, <1>3 DEF StoreInv, StoreOK, StoreTypeOK

(* What an answer makes of a channel, against what was received.             *)
LEMMA Forward ==
  ASSUME StoreInv, [StoreNext]_storeVars, NEW id \in Ids
  PROVE  \/ received' = <<>>
         \/ ~lastReceived /\ map'[id].time >= map[id].time
         \/ lastReceived /\ map'[id] \in {map[id], LatestOf(id)'}
<1>1. map[id].time \in Nat
  BY DEF StoreInv, StoreOK, Items, Times, Unset
<1>2. CASE map' = map
  BY <1>1, <1>2 DEF StoreInv, StoreOK
<1>3. CASE received' = <<>>
  BY <1>3
<1>4. ASSUME NEW came \in Batches, NEW slow \in BOOLEAN, Answered(came, slow), came # <<>>, endpoint = "channels"
      PROVE  \/ ~lastReceived /\ map'[id].time >= map[id].time
             \/ lastReceived /\ map'[id] \in {map[id], LatestOf(id)'}
  <2>1. Answer(came) /\ Update(came) /\ map' = Merged(came)
    BY <1>4, BatchesAre DEF Answered, Update
  <2> DEFINE passing == {i \in 1 .. Len(came) : came[i].id = id /\ Passes(came[i])}
  <2>2. CASE passing = {} /\ Merged(came)[id] = map[id]
    BY <1>1, <2>1, <2>2 DEF StoreInv, StoreOK
  <2>3. ASSUME NEW i \in passing, \A j \in passing : j <= i, Merged(came)[id] = came[i]
        PROVE  \/ ~lastReceived /\ map'[id].time >= map[id].time
               \/ lastReceived /\ map'[id] \in {map[id], LatestOf(id)'}
    <3>1. CASE ~lastReceived
      <4>1. map[id].time <= came[i].time /\ came[i] \in Items
        BY <2>1, <2>3, <3>1, ElementOfSeq DEF Passes, Answer
      <4> QED
        BY <1>1, <2>1, <2>3, <3>1, <4>1 DEF Items, Times
    <3>2. CASE lastReceived
      <4> DEFINE r == Len(received)
                 k == Len(came)
                 seen == {j \in DOMAIN received' : received'[j].id = id}
      <4>1. /\ k \in {1, 2} /\ received' \in Seq(Items) /\ Len(received') = r + k
            /\ \A j \in 1 .. k : received'[r + j] = came[j]
            /\ r \in Nat
        BY <1>4, <2>1, Received, LenProperties DEF StoreInv, StoreOK
      <4>2. DOMAIN received' = 1 .. r + k
        BY <4>1, LenProperties
      <4>3. r + i \in seen
        BY <2>3, <4>1, <4>2
      <4>4. \A j \in seen : r + i >= j
        <5> SUFFICES ASSUME NEW j \in seen, j > r + i PROVE FALSE
          BY <4>1, <4>2
        <5>1. j \in 1 .. r + k /\ received'[j].id = id
          BY <4>2
        <5>2. j - r \in 1 .. k /\ r + (j - r) = j
          BY <4>1, <5>1
        <5>3. came[j - r].id = id
          BY <4>1, <5>1, <5>2
        <5>4. j - r \in passing
          BY <3>2, <5>2, <5>3 DEF Passes
        <5> QED
          BY <2>3, <4>1, <5>1, <5>4
      <4>5. seen \in SUBSET Int
        BY <4>1, <4>2
      <4> HIDE DEF seen
      <4>6. Max(seen) = r + i /\ seen # {}
        BY <4>3, <4>4, <4>5, MaxIs
      <4>7. received'[Max(seen)] = came[i]
        BY <2>3, <4>1, <4>6
      <4>8. LatestOf(id)' = came[i]
        BY <4>6, <4>7 DEF LatestOf, seen
      <4> QED
        BY <2>1, <2>3, <3>2, <4>8
    <3> QED
      BY <3>1, <3>2 DEF StoreInv, StoreOK
  <2> QED
    BY <2>1, <2>2, <2>3, MergedIs
<1>5. ASSUME NEW came \in Batches, NEW slow \in BOOLEAN, Answered(came, slow), ~(came # <<>> /\ endpoint = "channels")
      PROVE  map' = map
  BY <1>5 DEF Answered, Update, contents
<1>6. CASE \E slow \in BOOLEAN : Failed(slow)
  BY <1>2, <1>6 DEF Failed, contents
<1>7. CASE TimeOut \/ Configure \/ Passing \/ UNCHANGED storeVars
  BY <1>2, <1>7 DEF TimeOut, Configure, Passing, contents, storeVars
<1>8. CASE ClearStore
  BY <1>3, <1>8 DEF ClearStore
<1> QED
  BY <1>2, <1>4, <1>5, <1>6, <1>7, <1>8 DEF StoreNext

LEMMA Repeats ==
  ASSUME StoreInv, lastGood # -1, Failed(TRUE)
  PROVE  storeTime - goodAt' < BehindTime
<1>1. storeTime \in Nat /\ BehindTime \in Nat \ {0} /\ goodAt # -1 /\ goodAt \in Nat \cup {-1}
  BY StoreAssumption DEF StoreInv, StoreOK, StallKept
<1>2. goodAt' = IF Behind(TRUE) THEN storeTime ELSE goodAt
  BY DEF Failed, UpdateTiming
<1>3. CASE Behind(TRUE)
  BY <1>1, <1>2, <1>3
<1>4. CASE ~Behind(TRUE)
  BY <1>1, <1>2, <1>4 DEF Behind
<1> QED
  BY <1>3, <1>4

(* A page's copy of the histories, for any limits, time-outs and lengths of  *)
(* runs, however answers, errors, clears, settings and the clock follow each *)
(* other: the events held are the last received and no more than the limits  *)
(* took away, channels do not go back, the light follows the data, every     *)
(* error is counted and a stall reported again and again (datastore.js,      *)
(* validate.js).                                                             *)
THEOREM PageFollowsServer == StoreSpec => StoresCurrent
<1>1. StoreInv => ActiveWhileFed
  BY StoreAssumption DEF StoreInv, StoreOK, FlagTimed, ActiveWhileFed
<1>2. StoreInv /\ [StoreNext]_storeVars
        => [\A id \in Ids :
              \/ received' = <<>>
              \/ ~lastReceived /\ map'[id].time >= map[id].time
              \/ lastReceived /\ map'[id] \in {map[id], LatestOf(id)'}]_storeVars
  BY Forward
<1>3. StoreInv /\ [StoreNext]_storeVars
        => [(gdsErrors' > gdsErrors /\ lastGood = lastGood' /\ lastGood # -1 /\ Failed(TRUE))
              => storeTime - goodAt' < BehindTime]_storeVars
  BY Repeats
<1> QED
  BY <1>1, <1>2, <1>3, Newest, Whole, Counted, Reported, StoreTyped, StoreKept, PTL
     DEF StoreSpec, StoresCurrent, MapForward, StallRepeats
-----------------------------------------------------------------------------
(* What a loop that keeps the picked items makes of a list.                  *)
LoopOf(s, picked, f, m) ==
  f = [n \in 0 .. m |-> IF n = 0 THEN <<>> ELSE IF s[n] \in picked THEN Append(f[n - 1], s[n]) ELSE f[n - 1]]

LEMMA LoopFacts ==
  ASSUME NEW s, NEW picked, NEW f, NEW m \in Nat
  PROVE  LoopOf(s, picked, f, m) =>
           /\ f[0] = <<>>
           /\ \A n \in 1 .. m : f[n] = IF s[n] \in picked THEN Append(f[n - 1], s[n]) ELSE f[n - 1]
<1> SUFFICES ASSUME LoopOf(s, picked, f, m)
             PROVE  /\ f[0] = <<>>
                    /\ \A n \in 1 .. m : f[n] = IF s[n] \in picked THEN Append(f[n - 1], s[n]) ELSE f[n - 1]
  OBVIOUS
<1> DEFINE e(n) == IF n = 0 THEN <<>> ELSE IF s[n] \in picked THEN Append(f[n - 1], s[n]) ELSE f[n - 1]
<1>1. f = [n \in 0 .. m |-> e(n)]
  BY DEF LoopOf
<1>2. \A n \in 0 .. m : f[n] = e(n)
  <2> HIDE DEF e
  <2> QED
    BY <1>1
<1>3. 0 \in 0 .. m /\ \A n \in 1 .. m : n \in 0 .. m /\ n # 0
  OBVIOUS
<1> QED
  BY <1>2, <1>3

LEMMA LoopEnds == ASSUME NEW s, NEW picked, NEW m \in Nat PROVE \E f : LoopOf(s, picked, f, m)
<1> DEFINE bad == {k \in Nat : ~\E f : LoopOf(s, picked, f, k)}
<1> SUFFICES ASSUME bad # {} PROVE FALSE
  OBVIOUS
<1>1. PICK k \in bad : \A j \in bad : k <= j
  <2>1. bad \subseteq Nat
    OBVIOUS
  <2> HIDE DEF bad
  <2> QED
    BY <2>1, LeastOf
<1>2. CASE k = 0
  <2> DEFINE f == [n \in 0 .. 0 |-> <<>>]
  <2>1. LoopOf(s, picked, f, 0)
    BY DEF LoopOf
  <2> QED
    BY <1>2, <2>1
<1>3. CASE k # 0
  <2>1. k \in Nat /\ k - 1 \in Nat /\ k - 1 \notin bad
    BY <1>1, <1>3
  <2>2. PICK f : LoopOf(s, picked, f, k - 1)
    BY <2>1
  <2>3. /\ f[0] = <<>>
        /\ \A n \in 1 .. k - 1 : f[n] = IF s[n] \in picked THEN Append(f[n - 1], s[n]) ELSE f[n - 1]
    BY <2>1, <2>2, LoopFacts
  <2> DEFINE last == IF s[k] \in picked THEN Append(f[k - 1], s[k]) ELSE f[k - 1]
             g == [n \in 0 .. k |-> IF n = k THEN last ELSE f[n]]
             h == [n \in 0 .. k |-> IF n = 0 THEN <<>> ELSE IF s[n] \in picked THEN Append(g[n - 1], s[n]) ELSE g[n - 1]]
  <2>4. \A n \in 0 .. k : g[n] = IF n = k THEN last ELSE f[n]
    <3> HIDE DEF last
    <3> QED
      OBVIOUS
  <2>5. ASSUME NEW n \in 0 .. k PROVE g[n] = h[n]
    <3>1. h[n] = IF n = 0 THEN <<>> ELSE IF s[n] \in picked THEN Append(g[n - 1], s[n]) ELSE g[n - 1]
      <4> HIDE DEF g
      <4> QED
        OBVIOUS
    <3> HIDE DEF g, h
    <3>2. CASE n = 0
      BY <1>3, <2>3, <2>4, <3>1, <3>2
    <3>3. CASE n = k
      <4>1. n - 1 \in 0 .. k /\ n - 1 # k
        BY <2>1, <3>3
      <4> QED
        BY <1>3, <2>4, <3>1, <3>3, <4>1
    <3>4. CASE n # 0 /\ n # k
      <4>1. n - 1 \in 0 .. k /\ n - 1 # k /\ n \in 1 .. k - 1
        BY <2>1, <3>4
      <4> QED
        BY <2>3, <2>4, <3>1, <3>4, <4>1
    <3> QED
      BY <3>2, <3>3, <3>4
  <2>6. g = h
    <3>1. DOMAIN g = 0 .. k /\ DOMAIN h = 0 .. k /\ g = [n \in 0 .. k |-> g[n]] /\ h = [n \in 0 .. k |-> h[n]]
      OBVIOUS
    <3> HIDE DEF g, h
    <3> QED
      BY <2>5, <3>1
  <2>7. LoopOf(s, picked, g, k)
    BY <2>6 DEF LoopOf
  <2> QED
    BY <1>1, <2>7
<1> QED
  BY <1>2, <1>3

LEMMA LoopMade ==
  ASSUME NEW s, NEW picked, Len(s) \in Nat
  PROVE  \E f : LoopOf(s, picked, f, Len(s)) /\ OnlyOf(s, picked) = f[Len(s)]
<1> DEFINE f == CHOOSE f : LoopOf(s, picked, f, Len(s))
<1>1. LoopOf(s, picked, f, Len(s))
  BY LoopEnds
<1>2. OnlyOf(s, picked) = f[Len(s)]
  BY DEF OnlyOf, LoopOf
<1> QED
  BY <1>1, <1>2

LEMMA OnlyNext ==
  ASSUME NEW S, NEW s \in Seq(S), NEW x \in S, NEW picked
  PROVE  OnlyOf(Append(s, x), picked) = IF x \in picked THEN Append(OnlyOf(s, picked), x) ELSE OnlyOf(s, picked)
<1> DEFINE t == Append(s, x)
           m == Len(s)
<1>1. t \in Seq(S) /\ Len(t) = m + 1 /\ m \in Nat /\ t[m + 1] = x /\ \A i \in 1 .. m : t[i] = s[i]
  BY AppendProperties, LenProperties
<1> HIDE DEF t
<1>2. PICK f : LoopOf(s, picked, f, m) /\ OnlyOf(s, picked) = f[m]
  BY <1>1, LoopMade
<1>3. PICK g : LoopOf(t, picked, g, m + 1) /\ OnlyOf(t, picked) = g[m + 1]
  BY <1>1, LoopMade
<1>4. f[0] = <<>> /\ \A n \in 1 .. m : f[n] = IF s[n] \in picked THEN Append(f[n - 1], s[n]) ELSE f[n - 1]
  BY <1>1, <1>2, LoopFacts
<1>5. g[0] = <<>> /\ \A n \in 1 .. m + 1 : g[n] = IF t[n] \in picked THEN Append(g[n - 1], t[n]) ELSE g[n - 1]
  <2>1. m + 1 \in Nat
    BY <1>1
  <2> QED
    BY <2>1, <1>3, LoopFacts
<1> HIDE DEF m
<1>6. \A n \in 0 .. m : g[n] = f[n]
  <2> DEFINE bad == {n \in 0 .. m : g[n] # f[n]}
  <2> SUFFICES ASSUME bad # {} PROVE FALSE
    OBVIOUS
  <2>1. PICK n \in bad : \A j \in bad : n <= j
    <3>1. bad \subseteq Nat
      BY <1>1
    <3> HIDE DEF bad
    <3> QED
      BY <3>1, LeastOf
  <2>2. n \in 1 .. m /\ n - 1 \in 0 .. m /\ n \in 1 .. m + 1
    BY <1>1, <1>4, <1>5
  <2>3. g[n - 1] = f[n - 1]
    BY <1>1, <2>1, <2>2
  <2> QED
    BY <1>1, <1>4, <1>5, <2>2, <2>3
<1>7. g[m] = f[m] /\ m + 1 \in 1 .. m + 1 /\ (m + 1) - 1 = m
  BY <1>1, <1>6
<1> QED
  BY <1>1, <1>2, <1>3, <1>5, <1>7 DEF t

LEMMA OnlyNone == ASSUME NEW picked PROVE OnlyOf(<<>>, picked) = <<>>
<1>1. Len(<<>>) = 0 /\ 0 \in Nat
  OBVIOUS
<1>2. PICK f : LoopOf(<<>>, picked, f, 0) /\ OnlyOf(<<>>, picked) = f[0]
  BY <1>1, LoopMade
<1> QED
  BY <1>2, LoopFacts

(* What the loop keeps are picked items of the list, a first item comes      *)
(* first, and a list of picked items is kept whole.                          *)
KeptAsIs(S, picked, s) ==
  /\ OnlyOf(s, picked) \in Seq(S)
  /\ \A i \in 1 .. Len(OnlyOf(s, picked)) : OnlyOf(s, picked)[i] \in picked /\ \E k \in 1 .. Len(s) : s[k] = OnlyOf(s, picked)[i]
  /\ \A x \in S : OnlyOf(<<x>> \o s, picked) = (IF x \in picked THEN <<x>> ELSE <<>>) \o OnlyOf(s, picked)
  /\ (\A i \in 1 .. Len(s) : s[i] \in picked) => OnlyOf(s, picked) = s

LEMMA OneMore ==
  ASSUME NEW S, NEW picked, NEW s \in Seq(S), NEW e \in S, KeptAsIs(S, picked, s)
  PROVE  KeptAsIs(S, picked, Append(s, e))
<1> DEFINE t == Append(s, e)
           was == OnlyOf(s, picked)
           is == OnlyOf(t, picked)
<1>1. is = IF e \in picked THEN Append(was, e) ELSE was
  BY OnlyNext
<1>2. t \in Seq(S) /\ Len(t) = Len(s) + 1 /\ t[Len(s) + 1] = e /\ Len(s) \in Nat /\ \A i \in 1 .. Len(s) : t[i] = s[i]
  BY AppendProperties, LenProperties
<1>3. /\ was \in Seq(S)
      /\ \A i \in 1 .. Len(was) : was[i] \in picked /\ \E k \in 1 .. Len(s) : s[k] = was[i]
      /\ \A x \in S : OnlyOf(<<x>> \o s, picked) = (IF x \in picked THEN <<x>> ELSE <<>>) \o was
      /\ (\A i \in 1 .. Len(s) : s[i] \in picked) => was = s
  BY DEF KeptAsIs
<1>4. Len(was) \in Nat
  BY <1>3
<1>5. ASSUME NEW x \in S PROVE OnlyOf(<<x>> \o t, picked) = (IF x \in picked THEN <<x>> ELSE <<>>) \o is
  <2> DEFINE h == IF x \in picked THEN <<x>> ELSE <<>>
             u == <<x>> \o s
  <2>1. h \in Seq(S) /\ <<x>> \in Seq(S) /\ <<e>> \in Seq(S)
    OBVIOUS
  <2>2. u \in Seq(S) /\ <<x>> \o t = Append(u, e)
    <3>1. t = s \o <<e>>
      BY AppendIsConcat
    <3>2. u \in Seq(S)
      BY <2>1, ConcatProperties
    <3>3. Append(u, e) = u \o <<e>>
      BY <3>2, AppendIsConcat
    <3>4. (<<x>> \o s) \o <<e>> = <<x>> \o (s \o <<e>>)
      BY <2>1, ConcatAssociative
    <3> QED
      BY <3>1, <3>2, <3>3, <3>4
  <2> HIDE DEF u, t
  <2>3. OnlyOf(<<x>> \o t, picked) = IF e \in picked THEN Append(OnlyOf(u, picked), e) ELSE OnlyOf(u, picked)
    BY <2>2, OnlyNext
  <2>4. OnlyOf(u, picked) = h \o was
    BY <1>3 DEF u
  <2> HIDE DEF h, was, is
  <2>5. Append(h \o was, e) = h \o Append(was, e)
    <3>1. h \o was \in Seq(S)
      BY <1>3, <2>1, ConcatProperties
    <3>2. Append(h \o was, e) = (h \o was) \o <<e>>
      BY <3>1, AppendIsConcat
    <3>3. Append(was, e) = was \o <<e>>
      BY <1>3, AppendIsConcat
    <3>4. (h \o was) \o <<e>> = h \o (was \o <<e>>)
      <4>1. h \in Seq(S) /\ was \in Seq(S) /\ <<e>> \in Seq(S)
        BY <1>3, <2>1
      <4> QED
        BY <4>1, ConcatAssociative
    <3> QED
      BY <3>2, <3>3, <3>4
  <2>6. OnlyOf(<<x>> \o t, picked) = h \o is
    BY <1>1, <2>3, <2>4, <2>5
  <2> QED
    BY <2>6 DEF h
<1> HIDE DEF t, was, is
<1>6. is \in Seq(S)
  BY <1>1, <1>3
<1>7. ASSUME NEW i \in 1 .. Len(is) PROVE is[i] \in picked /\ \E k \in 1 .. Len(t) : t[k] = is[i]
  <2>1. CASE e \in picked /\ i = Len(was) + 1
    <3>1. is[i] = e
      BY <1>1, <1>3, <2>1
    <3>2. Len(s) + 1 \in 1 .. Len(t)
      BY <1>2
    <3> QED
      BY <1>2, <2>1, <3>1, <3>2
  <2>2. CASE ~(e \in picked /\ i = Len(was) + 1)
    <3>1. i \in 1 .. Len(was) /\ is[i] = was[i]
      <4>1. CASE e \in picked
        <5>1. Len(is) = Len(was) + 1 /\ \A j \in 1 .. Len(was) : is[j] = was[j]
          BY <1>1, <1>3, <4>1
        <5>2. i \in 1 .. Len(was)
          BY <1>4, <2>2, <4>1, <5>1
        <5> QED
          BY <5>1, <5>2
      <4>2. CASE e \notin picked
        BY <1>1, <4>2
      <4> QED
        BY <4>1, <4>2
    <3>2. PICK k \in 1 .. Len(s) : s[k] = was[i]
      BY <1>3, <3>1
    <3>3. k \in 1 .. Len(t)
      BY <1>2
    <3> QED
      BY <1>2, <1>3, <3>1, <3>2, <3>3
  <2> QED
    BY <2>1, <2>2
<1>8. ASSUME \A i \in 1 .. Len(t) : t[i] \in picked PROVE is = t
  <2>1. Len(s) + 1 \in 1 .. Len(t) /\ \A i \in 1 .. Len(s) : i \in 1 .. Len(t)
    BY <1>2
  <2>2. e \in picked /\ \A i \in 1 .. Len(s) : s[i] \in picked
    BY <1>2, <1>8, <2>1
  <2> QED
    BY <1>1, <1>3, <2>2 DEF t
<1> QED
  BY <1>5, <1>6, <1>7, <1>8 DEF KeptAsIs, t, is

LEMMA KeptWhole == ASSUME NEW S, NEW picked PROVE \A s \in Seq(S) : KeptAsIs(S, picked, s)
<1> DEFINE bad == {n \in Nat : \E s \in Seq(S) : Len(s) = n /\ ~KeptAsIs(S, picked, s)}
<1>1. KeptAsIs(S, picked, <<>>)
  <2>1. ASSUME NEW x \in S PROVE OnlyOf(<<x>> \o <<>>, picked) = (IF x \in picked THEN <<x>> ELSE <<>>) \o <<>>
    <3>1. <<>> \in Seq(S) /\ <<x>> \in Seq(S) /\ <<x>> \o <<>> = <<x>> /\ Append(<<>>, x) = <<x>> /\ <<>> \o <<>> = <<>>
      OBVIOUS
    <3>3. OnlyOf(Append(<<>>, x), picked) = IF x \in picked THEN Append(OnlyOf(<<>>, picked), x) ELSE OnlyOf(<<>>, picked)
      <4>1. <<>> \in Seq(S)
        OBVIOUS
      <4> QED
        BY <4>1, OnlyNext
    <3>4. Append(<<>>, x) = <<x>> /\ OnlyOf(<<>>, picked) = <<>>
      BY OnlyNone
    <3>2. OnlyOf(<<x>>, picked) = IF x \in picked THEN <<x>> ELSE <<>>
      BY <3>3, <3>4
    <3> QED
      BY <3>1, <3>2
  <2>2. OnlyOf(<<>>, picked) = <<>> /\ <<>> \in Seq(S) /\ Len(<<>>) = 0
    BY OnlyNone
  <2>3. ASSUME NEW x \in S PROVE OnlyOf(<<x>> \o <<>>, picked) = (IF x \in picked THEN <<x>> ELSE <<>>) \o OnlyOf(<<>>, picked)
    BY <2>1, <2>2
  <2>4. OnlyOf(<<>>, picked) \in Seq(S) /\ \A i \in 1 .. Len(OnlyOf(<<>>, picked)) : FALSE
    <3>1. \A i \in 1 .. 0 : FALSE
      OBVIOUS
    <3> QED
      BY <2>2, <3>1
  <2> QED
    BY <2>2, <2>3, <2>4 DEF KeptAsIs
<1>2. bad = {}
  <2> SUFFICES ASSUME bad # {} PROVE FALSE
    OBVIOUS
  <2>1. PICK n \in bad : \A j \in bad : n <= j
    <3>1. bad \subseteq Nat
      OBVIOUS
    <3> HIDE DEF bad
    <3> QED
      BY <3>1, LeastOf
  <2>2. PICK s \in Seq(S) : Len(s) = n /\ ~KeptAsIs(S, picked, s)
    BY <2>1
  <2>3. PICK u \in Seq(S), e \in S : s = Append(u, e)
    <3>1. s # <<>>
      BY <1>1, <2>2
    <3> QED
      BY <3>1, SequenceEmptyOrAppend
  <2>4. Len(u) \in Nat /\ n = Len(u) + 1
    BY <2>2, <2>3, AppendProperties, LenProperties
  <2>5. Len(u) \notin bad
    BY <2>1, <2>4
  <2>6. KeptAsIs(S, picked, u)
    BY <2>4, <2>5
  <2> QED
    BY <2>2, <2>3, <2>6, OneMore
<1>3. ASSUME NEW s \in Seq(S), ~KeptAsIs(S, picked, s) PROVE FALSE
  <2>1. Len(s) \in bad
    BY <1>3
  <2> QED
    BY <1>2, <2>1
<1> QED
  BY <1>3

(* Every place of a sorted list is the rank of one item: the list is a       *)
(* permutation.                                                              *)
LEMMA RanksAre ==
  ASSUME NEW n \in Nat, NEW s \in [1 .. n -> 1 .. MaxItems], sortColumn \in Columns, sortAscending \in BOOLEAN
  PROVE  /\ \A k \in 1 .. n : Precedes(s, k, k)
         /\ \A j, k \in 1 .. n : j # k => (Precedes(s, j, k) <=> ~Precedes(s, k, j))
         /\ \A j, k, l \in 1 .. n : Precedes(s, j, k) /\ Precedes(s, k, l) => Precedes(s, j, l)
<1> DEFINE key(l) == IF sortAscending THEN Cell[sortColumn][s[l]] ELSE -Cell[sortColumn][s[l]]
<1>1. \A l \in 1 .. n : Cell[sortColumn][s[l]] \in Int
  BY TableAssumption
<1>2. \A l \in 1 .. n : key(l) \in Int
  BY <1>1
<1>3. \A l, k \in 1 .. n : Before(s[l], s[k]) <=> key(l) < key(k)
  BY <1>1 DEF Before
<1> HIDE DEF key
<1>4. \A l, k \in 1 .. n : Precedes(s, l, k) <=> key(l) < key(k) \/ (l <= k /\ ~(key(k) < key(l)))
  BY <1>3 DEF Precedes
<1>5. \A k \in 1 .. n : Precedes(s, k, k)
  BY <1>2, <1>4
<1>6. \A j, k \in 1 .. n : j # k => (Precedes(s, j, k) <=> ~Precedes(s, k, j))
  <2> SUFFICES ASSUME NEW j \in 1 .. n, NEW k \in 1 .. n, j # k PROVE Precedes(s, j, k) <=> ~Precedes(s, k, j)
    OBVIOUS
  <2>1. key(j) \in Int /\ key(k) \in Int /\ j \in Int /\ k \in Int
    BY <1>2
  <2>2. /\ Precedes(s, j, k) <=> key(j) < key(k) \/ (j <= k /\ ~(key(k) < key(j)))
        /\ Precedes(s, k, j) <=> key(k) < key(j) \/ (k <= j /\ ~(key(j) < key(k)))
    BY <1>4
  <2> QED
    BY <2>1, <2>2
<1>7. \A j, k, l \in 1 .. n : Precedes(s, j, k) /\ Precedes(s, k, l) => Precedes(s, j, l)
  <2> SUFFICES ASSUME NEW j \in 1 .. n, NEW k \in 1 .. n, NEW l \in 1 .. n, Precedes(s, j, k), Precedes(s, k, l)
               PROVE  Precedes(s, j, l)
    OBVIOUS
  <2>1. /\ key(j) \in Int /\ key(k) \in Int /\ key(l) \in Int
        /\ j \in Int /\ k \in Int /\ l \in Int
    BY <1>2
  <2>2. /\ key(j) < key(k) \/ (j <= k /\ ~(key(k) < key(j)))
        /\ key(k) < key(l) \/ (k <= l /\ ~(key(l) < key(k)))
    BY <1>4
  <2>3. key(j) < key(l) \/ (j <= l /\ ~(key(l) < key(j)))
    BY <2>1, <2>2
  <2> QED
    BY <1>4, <2>3
<1> QED
  BY <1>5, <1>6, <1>7

LEMMA SortedIs ==
  ASSUME NEW s \in Seq(1 .. MaxItems), sortColumn \in Columns \cup {NoColumn}, sortAscending \in BOOLEAN
  PROVE  Sorted(s) \in Seq(1 .. MaxItems) /\ Len(Sorted(s)) = Len(s)
<1> DEFINE n == Len(s)
<1>1. n \in Nat /\ DOMAIN s = 1 .. n /\ s \in [1 .. n -> 1 .. MaxItems]
  BY LenProperties
<1>2. CASE sortColumn = NoColumn
  BY <1>2 DEF Sorted
<1>3. CASE sortColumn # NoColumn
  <2>1. /\ \A k \in 1 .. n : Precedes(s, k, k)
        /\ \A j, k \in 1 .. n : j # k => (Precedes(s, j, k) <=> ~Precedes(s, k, j))
        /\ \A j, k, l \in 1 .. n : Precedes(s, j, k) /\ Precedes(s, k, l) => Precedes(s, j, l)
    BY <1>1, <1>3, RanksAre
  <2> DEFINE upTo(k) == {l \in 1 .. n : Precedes(s, l, k)}
             at == [k \in 1 .. n |-> Cardinality(upTo(k))]
             place(p) == CHOOSE k \in DOMAIN s : Place(s, k) = p
  <2>2. IsFiniteSet(1 .. n) /\ Cardinality(1 .. n) = n
    BY <1>1, FS_Interval
  <2> HIDE DEF n
  <2>3. ASSUME NEW k \in 1 .. n
        PROVE  upTo(k) \in SUBSET (1 .. n) /\ IsFiniteSet(upTo(k)) /\ Cardinality(upTo(k)) \in 1 .. n
    <3>1. upTo(k) \in SUBSET (1 .. n) /\ k \in upTo(k)
      BY <2>1
    <3> HIDE DEF upTo
    <3>2. IsFiniteSet(upTo(k)) /\ Cardinality(upTo(k)) <= n
      BY <2>2, <3>1, FS_Subset
    <3>3. Cardinality(upTo(k)) \in Nat /\ Cardinality(upTo(k)) # 0
      BY <3>1, <3>2, FS_CardinalityType, FS_EmptySet
    <3> QED
      BY <1>1, <3>1, <3>2, <3>3
  <2>4. ASSUME NEW j \in 1 .. n, NEW k \in 1 .. n, Precedes(s, j, k), j # k PROVE Cardinality(upTo(j)) # Cardinality(upTo(k))
    <3>1. upTo(j) \in SUBSET upTo(k) /\ k \in upTo(k) /\ k \notin upTo(j)
      BY <2>1, <2>4
    <3> HIDE DEF upTo
    <3> QED
      BY <2>3, <3>1, FS_Subset
  <2>5. at \in Injection(1 .. n, 1 .. n)
    <3>1. at \in [1 .. n -> 1 .. n]
      <4> HIDE DEF upTo
      <4> QED
        BY <2>3
    <3>2. ASSUME NEW j \in 1 .. n, NEW k \in 1 .. n, at[j] = at[k] PROVE j = k
      <4>1. at[j] = Cardinality(upTo(j)) /\ at[k] = Cardinality(upTo(k))
        BY DEF at
      <4> HIDE DEF at, upTo
      <4> QED
        BY <2>1, <2>4, <3>2, <4>1
    <3> HIDE DEF at
    <3> QED
      BY <3>1, <3>2 DEF Injection, IsInjective
  <2> HIDE DEF at
  <2>6. at \in Surjection(1 .. n, 1 .. n)
    BY <2>2, <2>5, FS_Injection
  <2>7. \A p \in 1 .. n : \E k \in 1 .. n : at[k] = p
    BY <2>6 DEF Surjection
  <2>10. \A k \in 1 .. n : at[k] = Place(s, k)
    BY <1>1 DEF at, upTo, Place, n
  <2>8. \A p \in 1 .. n : place(p) \in 1 .. n
    <3>1. \A p \in 1 .. n : \E k \in DOMAIN s : Place(s, k) = p
      BY <1>1, <2>7, <2>10 DEF n
    <3>2. DOMAIN s = 1 .. n
      BY <1>1 DEF n
    <3> QED
      BY <3>1, <3>2
  <2>9. Sorted(s) = [p \in 1 .. n |-> s[place(p)]]
    BY <1>1, <1>3 DEF Sorted, n
  <2> HIDE DEF place
  <2>12. \A p \in 1 .. n : s[place(p)] \in 1 .. MaxItems
    BY <1>1, <2>8 DEF n
  <2>11. Sorted(s) \in Seq(1 .. MaxItems) /\ Len(Sorted(s)) = n
    BY <1>1, <2>9, <2>12
  <2> QED
    BY <1>1, <2>11 DEF n
<1> QED
  BY <1>2, <1>3

TypedOrder == sortColumn \in Columns \cup {NoColumn} /\ sortAscending \in BOOLEAN

LEMMA ShownIs == items \in Seq(1 .. MaxItems) /\ TypedOrder => Shown \in Seq(1 .. MaxItems)
<1> SUFFICES ASSUME items \in Seq(1 .. MaxItems), TypedOrder PROVE Shown \in Seq(1 .. MaxItems)
  OBVIOUS
<1>1. Filtered(items) \in Seq(1 .. MaxItems)
  BY KeptWhole DEF Filtered, KeptAsIs
<1> QED
  BY <1>1, SortedIs DEF Shown, TypedOrder

LEMMA ShownNext == (items \in Seq(1 .. MaxItems) /\ TypedOrder => Shown \in Seq(1 .. MaxItems))'
BY ShownIs, PTL

(* What is shown depends on the items, on those that are chosen and on the   *)
(* order alone.                                                              *)
LEMMA ShownStays == UNCHANGED <<items, order>> /\ Chosen' = Chosen => Shown' = Shown
BY DEF order, Shown, Sorted, Filtered, Place, Precedes, Before

LEMMA ChosenStays ==
  /\ UNCHANGED <<matching, view, editing>> => Chosen' = Chosen
  /\ editing /\ UNCHANGED <<matching, editing>> => Chosen' = Chosen
BY DEF Chosen, Visible

LEMMA LeastOfTwo == \A a, b \in Int : Least(a, b) \in Int /\ Least(a, b) <= a /\ Least(a, b) <= b /\ (Least(a, b) = a \/ Least(a, b) = b)
BY DEF Least
LEMMA MostOfTwo == \A a, b \in Int : Most(a, b) \in Int /\ Most(a, b) >= a /\ Most(a, b) >= b /\ (Most(a, b) = a \/ Most(a, b) = b)
BY DEF Most

(* The window of a list.                                                     *)
LEMMA SliceIs ==
  ASSUME NEW S, NEW s \in Seq(S), NEW o \in Nat
  PROVE  LET t == Slice(s, o)
             n == IF o >= Len(s) THEN 0 ELSE Least(Count, Len(s) - o)
         IN t \in Seq(S) /\ Len(t) = n /\ \A i \in 1 .. n : t[i] = s[o + i]
<1> DEFINE end == Least(o + Count, Len(s))
           n == IF o >= Len(s) THEN 0 ELSE Least(Count, Len(s) - o)
<1>1. Len(s) \in Nat /\ Count \in Nat \ {0}
  BY TableAssumption
<1>2. end \in Int /\ end <= Len(s) /\ end - o = (IF o >= Len(s) THEN Len(s) - o ELSE n) /\ n \in Nat
  BY <1>1 DEF Least
<1> HIDE DEF end, n
<1>3. \A i \in o + 1 .. end : s[i] \in S
  <2>1. \A i \in o + 1 .. end : i \in 1 .. Len(s)
    BY <1>1, <1>2
  <2> QED
    BY <2>1
<1>4. Slice(s, o) = SubSeq(s, o + 1, end)
  BY DEF Slice, end
<1>5. /\ SubSeq(s, o + 1, end) \in Seq(S)
      /\ Len(SubSeq(s, o + 1, end)) = IF o + 1 <= end THEN end - (o + 1) + 1 ELSE 0
      /\ \A i \in 1 .. end - (o + 1) + 1 : SubSeq(s, o + 1, end)[i] = s[(o + 1) + i - 1]
  BY <1>2, <1>3, SubSeqProperties
<1>6. (IF o + 1 <= end THEN end - (o + 1) + 1 ELSE 0) = n
  BY <1>1, <1>2 DEF n
<1>7. \A i \in 1 .. n : i \in 1 .. end - (o + 1) + 1 /\ (o + 1) + i - 1 = o + i
  BY <1>1, <1>2 DEF n
<1> QED
  BY <1>4, <1>5, <1>6, <1>7 DEF n

(* The place of the first item of the window that the new list has.          *)
LEMMA CarriedIs ==
  ASSUME NEW s \in Seq(1 .. MaxItems), data \in Seq(1 .. MaxItems), offset \in Nat
  PROVE  /\ CarriedTo(s) \in Nat
         /\ Carried(s) = {} => CarriedTo(s) = offset
         /\ \A k \in Carried(s) : (\A l \in Carried(s) : k <= l) =>
              CarriedTo(s) + 1 \in 1 .. Len(s) /\ s[CarriedTo(s) + 1] = data[k]
<1>1. CASE Carried(s) = {}
  BY <1>1 DEF CarriedTo
<1>2. CASE Carried(s) # {}
  <2>1. Carried(s) \subseteq Nat /\ \A k \in Carried(s) : data[k] \in ToSet(s)
    BY DEF Carried
  <2>2. PICK k \in Carried(s) : \A l \in Carried(s) : k <= l
    BY <1>2, <2>1, LeastOf
  <2> DEFINE first == CHOOSE j \in Carried(s) : \A l \in Carried(s) : j <= l
  <2>3. first \in Carried(s) /\ \A l \in Carried(s) : first <= l
    BY <2>2
  <2>4. \A j \in Carried(s) : (\A l \in Carried(s) : j <= l) => j = first
    BY <2>1, <2>3
  <2> HIDE DEF first
  <2> DEFINE at == CHOOSE j \in DOMAIN s : s[j] = data[first]
  <2>5. at \in 1 .. Len(s) /\ s[at] = data[first]
    <3>1. \E j \in DOMAIN s : s[j] = data[first]
      BY <2>1, <2>3 DEF ToSet
    <3>2. DOMAIN s = 1 .. Len(s)
      OBVIOUS
    <3> QED
      BY <3>1, <3>2
  <2>6. CarriedTo(s) = at - 1
    BY <1>2 DEF CarriedTo, first, at
  <2> HIDE DEF at
  <2>7. CarriedTo(s) \in Nat /\ CarriedTo(s) + 1 = at
    BY <2>5, <2>6
  <2> QED
    BY <1>2, <2>4, <2>5, <2>7
<1> QED
  BY <1>1, <1>2

-----------------------------------------------------------------------------
(* The window is one of the list that is held, and reaches its end while it  *)
(* follows it.                                                               *)
WindowOK ==
  /\ data \in Seq(1 .. MaxItems) /\ offset \in Nat /\ displayed = Slice(data, offset)
  /\ updating \in BOOLEAN /\ locked \in BOOLEAN /\ FollowsEnd

LEMMA WindowIs ==
  ASSUME NEW s \in Seq(1 .. MaxItems), NEW o \in Nat, Rebuild(s, o), updating' \in BOOLEAN, locked' \in BOOLEAN,
         updating' => o + Count >= Len(s)
  PROVE  WindowOK' /\ data' = s
<1>1. data' = s /\ offset' = o /\ displayed' = Slice(s, o)
  BY DEF Rebuild
<1>2. displayed' = Slice(data, offset)'
  BY <1>1 DEF Slice
<1>3. FollowsEnd'
  BY <1>1 DEF FollowsEnd
<1> QED
  BY <1>1, <1>2, <1>3 DEF WindowOK

LEMMA ClampedIs ==
  ASSUME WindowOK, NEW s \in Seq(1 .. MaxItems)
  PROVE  Clamped(s) \in Nat /\ Wanted(s) \in Int
         /\ (Clamped(s) = 0 \/ Clamped(s) = Wanted(s) \/ Clamped(s) = Len(data) - Count)
         /\ (Wanted(s) >= 0 /\ (Wanted(s) <= Len(data) - Count \/ Wanted(s) = 0) => Clamped(s) = Wanted(s))
<1>1. Len(data) \in Nat /\ Count \in Nat /\ CarriedTo(s) \in Nat
  BY CarriedIs, TableAssumption DEF WindowOK
<1>2. Wanted(s) \in Int
  BY <1>1 DEF Wanted
<1>3. Clamped(s) = Most(0, Least(Wanted(s), Len(data) - Count))
  BY DEF Clamped
<1> DEFINE w == Wanted(s)
<1> HIDE DEF w
<1>4. w \in Int /\ Clamped(s) = Most(0, Least(w, Len(data) - Count))
  BY <1>2, <1>3 DEF w
<1>5. /\ Clamped(s) \in Nat
      /\ (Clamped(s) = 0 \/ Clamped(s) = w \/ Clamped(s) = Len(data) - Count)
      /\ (w >= 0 /\ (w <= Len(data) - Count \/ w = 0) => Clamped(s) = w)
  BY <1>1, <1>4 DEF Most, Least
<1> QED
  BY <1>4, <1>5 DEF w

LEMMA UpdateDataStep ==
  ASSUME WindowOK, NEW s \in Seq(1 .. MaxItems), UpdateData(s)
  PROVE  WindowOK' /\ data' = s /\ UNCHANGED <<updating, locked>>
         /\ (~updating => offset' = Clamped(s))
<1> DEFINE o == IF AtEnd(s) THEN Len(s) - Count ELSE Clamped(s)
<1>1. Rebuild(s, o) /\ UNCHANGED <<updating, locked>>
  BY DEF UpdateData
<1>2. Clamped(s) \in Nat /\ Count \in Nat /\ Len(s) \in Nat
  BY ClampedIs, TableAssumption
<1>3. o \in Nat
  BY <1>2 DEF AtEnd, Filled
<1>4. updating => o + Count >= Len(s)
  <2>1. CASE AtEnd(s)
    BY <1>2, <2>1
  <2>2. CASE ~AtEnd(s)
    BY <1>2, <2>2 DEF AtEnd, Filled
  <2> QED
    BY <2>1, <2>2
<1>5. updating' \in BOOLEAN /\ locked' \in BOOLEAN /\ updating' = updating
  BY <1>1 DEF WindowOK
<1>6. ~updating => o = Clamped(s)
  BY DEF AtEnd
<1> HIDE DEF o
<1>7. offset' = o
  BY <1>1 DEF Rebuild
<1> QED
  BY <1>1, <1>3, <1>4, <1>5, <1>6, <1>7, WindowIs

LEMMA ScrollStep ==
  ASSUME WindowOK, locked' \in BOOLEAN,
         \/ GoLast \/ GoFirst \/ \E change \in {-Step, Step} : Move(change)
  PROVE  WindowOK' /\ data' = data
<1>1. /\ data \in Seq(1 .. MaxItems) /\ Len(data) \in Nat /\ Count \in Nat /\ offset \in Nat /\ Step \in Nat
      /\ updating \in BOOLEAN /\ (updating => offset + Count >= Len(data))
  BY TableAssumption DEF WindowOK, FollowsEnd
<1>2. ASSUME GoLast PROVE WindowOK' /\ data' = data
  <2>1. updating' = TRUE /\ Rebuild(data, LastOffset)
    BY <1>2 DEF GoLast
  <2>2. LastOffset \in Nat /\ LastOffset + Count >= Len(data)
    BY <1>1 DEF LastOffset, Filled
  <2> QED
    BY <1>1, <2>1, <2>2, WindowIs
<1>3. ASSUME GoFirst PROVE WindowOK' /\ data' = data
  <2> DEFINE o == IF Filled(data) THEN 0 ELSE offset
  <2>1. updating' = FALSE /\ Rebuild(data, o) /\ o \in Nat
    BY <1>1, <1>3 DEF GoFirst
  <2> HIDE DEF o
  <2> QED
    BY <1>1, <2>1, WindowIs
<1>4. ASSUME NEW change \in {-Step, Step}, Move(change) PROVE WindowOK' /\ data' = data
  <2>1. CASE UNCHANGED updating /\ Rebuild(data, offset)
    BY <1>1, <2>1, WindowIs
  <2>2. CASE offset + change > 0 /\ StopUpdating /\ Rebuild(data, offset + change)
    <3>1. offset + change \in Nat /\ updating' = FALSE
      BY <1>1, <2>2 DEF StopUpdating
    <3> QED
      BY <1>1, <2>2, <3>1, WindowIs
  <2> QED
    BY <1>2, <1>3, <1>4, <2>1, <2>2 DEF Move
<1> QED
  BY <1>2, <1>3, <1>4

TableInv ==
  /\ items \in Seq(1 .. MaxItems) /\ Len(items) <= Buffer /\ arrived \in 0 .. MaxItems
  /\ \A i, j \in 1 .. Len(items) : i < j => items[i] < items[j]
  /\ \A i \in 1 .. Len(items) : items[i] <= arrived
  /\ matching \in Filters /\ view \subseteq Names
  /\ editing \in BOOLEAN /\ typing \in BOOLEAN /\ leaving \in BOOLEAN /\ reading \in BOOLEAN /\ stale \in BOOLEAN
  /\ TypedOrder /\ WindowOK /\ Fresh

LEMMA TableStart == TableInit => TableInv
<1> SUFFICES ASSUME TableInit PROVE TableInv
  OBVIOUS
<1>1. /\ arrived = 0 /\ items = <<>> /\ matching = NoFilter /\ view = {} /\ editing = FALSE
      /\ sortColumn = NoColumn /\ sortAscending = TRUE /\ typing = FALSE /\ leaving = FALSE /\ reading = FALSE
      /\ data = <<>> /\ offset = 0 /\ updating = FALSE /\ locked = FALSE /\ displayed = <<>> /\ stale = FALSE
  BY DEF TableInit
<1>2. items \in Seq(1 .. MaxItems) /\ Len(items) = 0 /\ 0 <= Buffer /\ arrived \in 0 .. MaxItems /\ matching \in Filters
  BY <1>1, TableAssumption DEF Filters
<1>3. Slice(<<>>, 0) = <<>>
  <2>1. <<>> \in Seq(1 .. MaxItems) /\ 0 \in Nat /\ 0 >= Len(<<>>)
    OBVIOUS
  <2>2. Slice(<<>>, 0) \in Seq(1 .. MaxItems) /\ Len(Slice(<<>>, 0)) = 0
    BY <2>1, SliceIs
  <2> QED
    BY <2>2, EmptySeq
<1>4. WindowOK
  BY <1>1, <1>2, <1>3 DEF WindowOK, FollowsEnd
<1>5. Shown = <<>>
  BY <1>1, OnlyNone DEF Shown, Sorted, Filtered
<1>6. Fresh /\ TypedOrder /\ view \subseteq Names
  BY <1>1, <1>5 DEF Fresh, TypedOrder
<1>7. Len(items) <= Buffer
  BY <1>2, TableAssumption
<1>8. \A i \in 1 .. Len(items) : FALSE
  BY <1>2
<1> QED
  BY <1>1, <1>2, <1>4, <1>6, <1>7, <1>8 DEF TableInv

-----------------------------------------------------------------------------
(* The steps of the table.                                                   *)
RowsListed(s, n) ==
  /\ s \in Seq(1 .. MaxItems) /\ Len(s) <= Buffer
  /\ \A i, j \in 1 .. Len(s) : i < j => s[i] < s[j]
  /\ \A i \in 1 .. Len(s) : s[i] <= n

LEMMA RefreshStep ==
  ASSUME TableInv, Refresh, RowsListed(items', arrived'), arrived' \in 0 .. MaxItems, TypedOrder',
         matching' \in Filters, view' \subseteq Names, editing' \in BOOLEAN, typing' \in BOOLEAN,
         leaving' \in BOOLEAN, reading' \in BOOLEAN
  PROVE  TableInv' /\ data' = Shown' /\ (~updating => offset' = Clamped(Shown'))
<1>1. Shown' \in Seq(1 .. MaxItems)
  BY ShownNext DEF RowsListed
<1> DEFINE s == Shown'
<1>2. UpdateData(s) /\ stale' = FALSE
  BY DEF Refresh
<1> HIDE DEF s
<1>3. WindowOK' /\ data' = s /\ (~updating => offset' = Clamped(s))
  <2>1. s \in Seq(1 .. MaxItems) /\ WindowOK
    BY <1>1 DEF s, TableInv
  <2> QED
    BY <1>2, <2>1, UpdateDataStep
<1>4. Fresh'
  BY <1>3 DEF Fresh, s
<1> QED
  BY <1>2, <1>3, <1>4 DEF TableInv, RowsListed, s

LEMMA Arrived ==
  ASSUME TableInv, Arrive
  PROVE  /\ arrived + 1 \in 1 .. MaxItems /\ arrived' = arrived + 1 /\ RowsListed(items', arrived') /\ UNCHANGED <<choice, order, timers>>
         /\ \/ items' = Append(items, arrived + 1)
            \/ items # <<>> /\ items' = Append(Tail(items), arrived + 1)
<1>1. /\ arrived < MaxItems /\ arrived' = arrived + 1 /\ UNCHANGED <<choice, order, timers>>
      /\ items' = IF Len(items) < Buffer THEN Append(items, arrived + 1) ELSE Trimmed(Append(items, arrived + 1))
  BY DEF Arrive
<1>2. /\ arrived \in Nat /\ MaxItems \in Nat /\ Buffer \in Nat \ {0} /\ items \in Seq(1 .. MaxItems) /\ Len(items) \in Nat
      /\ Len(items) <= Buffer
      /\ \A i, j \in 1 .. Len(items) : i < j => items[i] < items[j]
      /\ \A i \in 1 .. Len(items) : items[i] <= arrived
  BY TableAssumption DEF TableInv
<1> DEFINE n == arrived + 1
           t == Append(items, n)
<1>3. n \in 1 .. MaxItems /\ n \in Nat
  BY <1>1, <1>2
<1> HIDE DEF n
<1>4. t \in Seq(1 .. MaxItems) /\ Len(t) = Len(items) + 1 /\ t[Len(items) + 1] = n /\ \A i \in 1 .. Len(items) : t[i] = items[i]
  BY <1>2, <1>3, AppendProperties
<1>5. /\ \A i, j \in 1 .. Len(t) : i < j => t[i] < t[j]
      /\ \A i \in 1 .. Len(t) : t[i] <= n
  <2>1. \A i \in 1 .. Len(items) : items[i] \in Nat /\ items[i] < n
    BY <1>2, <1>3 DEF n
  <2> HIDE DEF t
  <2>2. \A i \in 1 .. Len(t) : IF i = Len(items) + 1 THEN t[i] = n ELSE i \in 1 .. Len(items) /\ t[i] = items[i]
    BY <1>2, <1>4
  <2>3. ASSUME NEW i \in 1 .. Len(t), NEW j \in 1 .. Len(t), i < j PROVE t[i] < t[j]
    <3>1. i # Len(items) + 1
      BY <1>2, <1>4, <2>3
    <3>2. i \in 1 .. Len(items) /\ t[i] = items[i]
      BY <2>2, <3>1
    <3>3. CASE j = Len(items) + 1
      BY <2>1, <2>2, <3>2, <3>3
    <3>4. CASE j # Len(items) + 1
      <4>1. j \in 1 .. Len(items) /\ t[j] = items[j]
        BY <2>2, <3>4
      <4> QED
        BY <1>2, <2>3, <3>2, <4>1
    <3> QED
      BY <3>3, <3>4
  <2>4. ASSUME NEW i \in 1 .. Len(t) PROVE t[i] <= n
    BY <1>3, <2>1, <2>2
  <2> QED
    BY <2>3, <2>4
<1>6. CASE Len(items) < Buffer
  <2>1. items' = t /\ Len(t) <= Buffer
    BY <1>1, <1>2, <1>4, <1>6 DEF n
  <2> QED
    BY <1>1, <1>3, <1>4, <1>5, <2>1 DEF RowsListed, n
<1>7. CASE ~(Len(items) < Buffer)
  <2>1. Len(items) = Buffer /\ items # <<>> /\ Len(t) = Buffer + 1 /\ t # <<>>
    BY <1>2, <1>4, <1>7, EmptySeq
  <2>2. items' = SubSeq(t, 2, Len(t))
    <3>1. items' = Trimmed(t)
      BY <1>1, <1>7 DEF n
    <3>2. Trimmed(t) = SubSeq(t, Len(t) - Buffer + 1, Len(t))
      BY DEF Trimmed
    <3> HIDE DEF t
    <3>3. Len(t) - Buffer + 1 = 2
      BY <1>2, <2>1
    <3> QED
      BY <3>1, <3>2, <3>3
  <2>3. Tail(t) = SubSeq(t, 2, Len(t))
    BY <1>4, <2>1, TailIsSubSeq
  <2>4. Tail(t) = Append(Tail(items), n)
    BY <1>2, <2>1, HeadTailAppend
  <2>5. items' = Tail(t) /\ items' = Append(Tail(items), n)
    BY <2>2, <2>3, <2>4
  <2> HIDE DEF t
  <2>6. Tail(t) \in Seq(1 .. MaxItems) /\ Len(Tail(t)) = Buffer /\ \A i \in 1 .. Buffer : Tail(t)[i] = t[i + 1] /\ i + 1 \in 1 .. Len(t)
    BY <1>2, <1>4, <2>1, HeadTailProperties
  <2>7. RowsListed(Tail(t), n)
    BY <1>2, <1>5, <2>1, <2>6 DEF RowsListed
  <2> QED
    BY <1>1, <1>3, <2>1, <2>5, <2>7 DEF n
<1> QED
  BY <1>6, <1>7

LEMMA ListTyped == TableInv => RowsListed(items, arrived)
BY DEF TableInv, RowsListed

LEMMA ArriveStep == TableInv /\ Arrive => TableInv' /\ data' = Shown' /\ (~updating => offset' = Clamped(Shown'))
<1> SUFFICES ASSUME TableInv, Arrive PROVE TableInv' /\ data' = Shown' /\ (~updating => offset' = Clamped(Shown'))
  OBVIOUS
<1>1. /\ arrived' \in 0 .. MaxItems /\ RowsListed(items', arrived') /\ UNCHANGED <<choice, order, timers>> /\ Refresh
  BY Arrived DEF Arrive
<1> QED
  BY <1>1, RefreshStep DEF TableInv, TypedOrder, choice, order, timers

LEMMA ClearRowsStep == TableInv /\ ClearRows => TableInv'
<1> SUFFICES ASSUME TableInv, ClearRows PROVE TableInv'
  OBVIOUS
<1>1. items' = <<>> /\ UNCHANGED <<arrived, choice, order, timers>> /\ Refresh
  BY DEF ClearRows
<1>2. RowsListed(items', arrived')
  <2>1. <<>> \in Seq(1 .. MaxItems) /\ Len(<<>>) = 0 /\ 0 <= Buffer /\ \A i \in 1 .. 0 : FALSE
    BY TableAssumption
  <2> QED
    BY <1>1, <2>1 DEF RowsListed
<1> QED
  BY <1>1, <1>2, RefreshStep DEF TableInv, TypedOrder, choice, order, timers

LEMMA TimersStep == TableInv /\ (TypingOver \/ LeavingOver) => TableInv'
<1> SUFFICES ASSUME TableInv, TypingOver \/ LeavingOver PROVE TableInv'
  OBVIOUS
<1>1. UNCHANGED <<source, choice, order, reading>> /\ typing' \in BOOLEAN /\ leaving' \in BOOLEAN /\ Refresh
  BY DEF TypingOver, LeavingOver, TableInv
<1>2. RowsListed(items', arrived')
  BY <1>1, ListTyped DEF source
<1> QED
  BY <1>1, <1>2, RefreshStep DEF TableInv, TypedOrder, source, choice, order

LEMMA ColumnClickedStep == ASSUME TableInv, NEW c \in Columns, ColumnClicked(c) PROVE TableInv'
<1>1. UNCHANGED <<source, choice, timers>> /\ TypedOrder' /\ Refresh
  BY DEF ColumnClicked, TableInv, TypedOrder
<1>2. RowsListed(items', arrived')
  BY <1>1, ListTyped DEF source
<1> QED
  BY <1>1, <1>2, RefreshStep DEF TableInv, source, choice, timers

(* The window stays, and what is shown stays or will be computed anew.       *)
LEMMA WindowStays == WindowOK /\ UNCHANGED window => WindowOK'
BY DEF WindowOK, window, FollowsEnd, Slice

LEMMA ChosenStep ==
  ASSUME TableInv, UNCHANGED <<source, order, window>>,
         matching' \in Filters, view' \subseteq Names, editing' \in BOOLEAN, typing' \in BOOLEAN,
         leaving' \in BOOLEAN, reading' \in BOOLEAN, stale' \in BOOLEAN,
         typing' \/ leaving' \/ stale' \/ (Chosen' = Chosen /\ UNCHANGED <<typing, leaving, stale>>)
  PROVE  TableInv'
<1>1. UNCHANGED <<items, arrived, data>> /\ WindowOK'
  BY WindowStays DEF TableInv, source, window
<1>2. Fresh'
  <2>1. CASE Chosen' = Chosen /\ UNCHANGED <<typing, leaving, stale>>
    <3>1. Shown' = Shown
      BY <1>1, <2>1, ShownStays
    <3> QED
      BY <1>1, <2>1, <3>1 DEF Fresh, TableInv
  <2> QED
    BY <2>1 DEF Fresh
<1> QED
  BY <1>1, <1>2 DEF TableInv, order, TypedOrder

LEMMA TypeStep == TableInv /\ (Type \/ EditViews \/ SaveView) => TableInv'
<1> SUFFICES ASSUME TableInv, Type \/ EditViews \/ SaveView PROVE TableInv'
  OBVIOUS
<1>1. NoFilter \in Filters
  BY TableAssumption DEF Filters
<1>2. /\ UNCHANGED <<source, view, order, reading, window, stale>>
      /\ matching' \in Filters /\ editing' \in BOOLEAN
      /\ typing' \in BOOLEAN /\ leaving' \in BOOLEAN /\ (typing' \/ leaving')
  BY <1>1 DEF Type, EditViews, SaveView, StartTyping, RefreshSoon, TableInv
<1>3. view' \subseteq Names /\ reading' \in BOOLEAN /\ stale' \in BOOLEAN
  BY <1>2 DEF TableInv
<1> QED
  BY <1>2, <1>3, ChosenStep

LEMMA CheckedChildStep == TableInv /\ (CheckedChild \/ ClearView) => TableInv'
<1> SUFFICES ASSUME TableInv, CheckedChild \/ ClearView PROVE TableInv'
  OBVIOUS
<1>1. editing /\ UNCHANGED <<source, matching, editing, order, timers, window, stale>>
  BY DEF CheckedChild, ClearView
<1>2. view' \subseteq Names
  <2>1. CASE CheckedChild
    <3>1. PICK i \in ToSet(displayed) : view' = IF Name[i] \in view THEN view \ {Name[i]} ELSE view \cup {Name[i]}
      BY <2>1 DEF CheckedChild
    <3>2. displayed \in Seq(1 .. MaxItems)
      BY SliceIs DEF TableInv, WindowOK
    <3>3. i \in 1 .. MaxItems
      <4>1. PICK k \in DOMAIN displayed : displayed[k] = i
        BY DEF ToSet
      <4>2. displayed \in [1 .. Len(displayed) -> 1 .. MaxItems]
        BY <3>2, LenProperties
      <4> QED
        BY <4>1, <4>2
    <3>4. Name[i] \in Names
      BY <3>3 DEF Names
    <3> QED
      BY <3>1, <3>4 DEF TableInv
  <2>2. CASE ClearView
    BY <2>2 DEF ClearView
  <2> QED
    BY <2>1, <2>2
<1>3. Chosen' = Chosen
  BY <1>1, ChosenStays
<1> QED
  BY <1>1, <1>2, <1>3, ChosenStep DEF TableInv, timers

LEMMA FileReadStep == TableInv /\ (ReadFile \/ FileRead) => TableInv'
<1> SUFFICES ASSUME TableInv, ReadFile \/ FileRead PROVE TableInv'
  OBVIOUS
<1>1. CASE ReadFile
  <2>1. UNCHANGED <<source, choice, order, typing, leaving, window, stale>> /\ reading' = TRUE
    BY <1>1 DEF ReadFile
  <2>2. Chosen' = Chosen
    BY <2>1, ChosenStays DEF choice
  <2> QED
    BY <2>1, <2>2, ChosenStep DEF TableInv, choice
<1>2. CASE FileRead
  <2>1. /\ UNCHANGED <<source, matching, editing, order, typing, leaving, window>> /\ reading' = FALSE
        /\ view' \subseteq Names /\ stale' = (stale \/ ~editing)
    BY <1>2 DEF FileRead
  <2>2. editing => Chosen' = Chosen
    BY <2>1, ChosenStays
  <2>3. stale' \in BOOLEAN /\ (stale' \/ (editing /\ stale' = stale))
    BY <2>1 DEF TableInv
  <2> QED
    BY <2>1, <2>2, <2>3, ChosenStep DEF TableInv
<1> QED
  BY <1>1, <1>2

LEMMA ScrolledStep ==
  ASSUME TableInv, PressFirst \/ PressLast \/ PressPrev \/ PressNext \/ ToggleLock \/ \E p \in {"top", "bottom"} : OnScroll(p)
  PROVE  TableInv'
<1>1. /\ \/ GoLast \/ GoFirst \/ \E change \in {-Step, Step} : Move(change)
      /\ locked' \in BOOLEAN /\ UNCHANGED <<source, choice, order, timers, stale>>
  BY DEF PressFirst, PressLast, PressPrev, PressNext, ToggleLock, OnScroll, TableInv, WindowOK
<1>2. WindowOK' /\ data' = data
  BY <1>1, ScrollStep DEF TableInv
<1>3. Shown' = Shown
  BY <1>1, ChosenStays, ShownStays DEF source, choice
<1>4. Fresh'
  BY <1>1, <1>2, <1>3 DEF Fresh, TableInv, timers
<1> QED
  BY <1>1, <1>2, <1>4 DEF TableInv, TypedOrder, source, choice, order, timers

LEMMA TableStep == TableInv /\ [TableNext]_tableVars => TableInv'
<1> SUFFICES ASSUME TableInv, [TableNext]_tableVars PROVE TableInv'
  OBVIOUS
<1>1. CASE TableNext
  BY <1>1, ArriveStep, ClearRowsStep, TimersStep, ColumnClickedStep, TypeStep, CheckedChildStep, FileReadStep, ScrolledStep
     DEF TableNext, User
<1>2. CASE UNCHANGED tableVars
  <2>1. UNCHANGED <<source, choice, order, timers, window, stale>>
    BY <1>2 DEF tableVars
  <2>2. Chosen' = Chosen
    BY <2>1, ChosenStays DEF choice
  <2> QED
    BY <2>1, <2>2, ChosenStep DEF TableInv, choice, timers
<1> QED
  BY <1>1, <1>2


-----------------------------------------------------------------------------
(* A reader is not disturbed.  The items of a list are in the order of their *)
(* arrival, and so are those the loop keeps.                                 *)
Increasing(s) == \A i, j \in 1 .. Len(s) : i < j => s[i] < s[j]

LEMMA KeptInOrder ==
  ASSUME NEW picked
  PROVE  \A s \in Seq(1 .. MaxItems) : Increasing(s) => Increasing(OnlyOf(s, picked))
<1> DEFINE S == 1 .. MaxItems
           bad == {n \in Nat : \E s \in Seq(S) : Len(s) = n /\ Increasing(s) /\ ~Increasing(OnlyOf(s, picked))}
<1>1. MaxItems \in Nat
  BY TableAssumption
<1>2. ASSUME NEW u \in Seq(S), NEW e \in S, Increasing(Append(u, e)), Increasing(u) => Increasing(OnlyOf(u, picked))
      PROVE  Increasing(OnlyOf(Append(u, e), picked))
  <2> DEFINE t == Append(u, e)
             was == OnlyOf(u, picked)
  <2>1. t \in Seq(S) /\ Len(t) = Len(u) + 1 /\ t[Len(u) + 1] = e /\ Len(u) \in Nat /\ \A i \in 1 .. Len(u) : t[i] = u[i]
    BY AppendProperties, LenProperties
  <2>2. \A i, j \in 1 .. Len(t) : i < j => t[i] < t[j]
    BY <1>2 DEF Increasing
  <2>3. /\ was \in Seq(S) /\ Len(was) \in Nat
        /\ \A i \in 1 .. Len(was) : \E k \in 1 .. Len(u) : u[k] = was[i]
    <3>1. KeptAsIs(S, picked, u)
      BY KeptWhole
    <3> QED
      BY <3>1, LenProperties DEF KeptAsIs
  <2>4. OnlyOf(t, picked) = IF e \in picked THEN Append(was, e) ELSE was
    <3> HIDE DEF S
    <3> QED
      BY OnlyNext
  <2> HIDE DEF t, was, S
  <2>5. /\ \A i, j \in 1 .. Len(u) : i < j => u[i] < u[j]
        /\ \A i \in 1 .. Len(u) : u[i] < e
    <3>1. \A i \in 1 .. Len(u) : i \in 1 .. Len(t) /\ i < Len(u) + 1
      BY <2>1
    <3>2. Len(u) + 1 \in 1 .. Len(t)
      BY <2>1
    <3> QED
      BY <2>1, <2>2, <3>1, <3>2
  <2>6. Increasing(was)
    BY <1>2, <2>5 DEF Increasing, was
  <2>7. \A i \in 1 .. Len(was) : was[i] < e
    BY <2>3, <2>5
  <2>8. CASE e \in picked
    <3> DEFINE is == Append(was, e)
    <3>1. Len(is) = Len(was) + 1 /\ is[Len(was) + 1] = e /\ \A i \in 1 .. Len(was) : is[i] = was[i]
      BY <2>3, AppendProperties
    <3> HIDE DEF is
    <3>2. ASSUME NEW i \in 1 .. Len(is), NEW j \in 1 .. Len(is), i < j PROVE is[i] < is[j]
      <4>1. i \in 1 .. Len(was) /\ is[i] = was[i]
        BY <2>3, <3>1, <3>2
      <4>2. CASE j = Len(was) + 1
        BY <2>7, <3>1, <4>1, <4>2
      <4>3. CASE j # Len(was) + 1
        <5>1. j \in 1 .. Len(was) /\ is[j] = was[j]
          BY <2>3, <3>1, <4>3
        <5> QED
          BY <2>6, <3>2, <4>1, <5>1 DEF Increasing
      <4> QED
        BY <4>2, <4>3
    <3>3. Increasing(is)
      BY <3>2 DEF Increasing
    <3> QED
      BY <2>4, <2>8, <3>3 DEF is, t
  <2>9. CASE e \notin picked
    BY <2>4, <2>6, <2>9 DEF t
  <2> QED
    BY <2>8, <2>9
<1>3. bad = {}
  <2> SUFFICES ASSUME bad # {} PROVE FALSE
    OBVIOUS
  <2>1. PICK n \in bad : \A j \in bad : n <= j
    <3>1. bad \subseteq Nat
      OBVIOUS
    <3> HIDE DEF bad
    <3> QED
      BY <3>1, LeastOf
  <2>2. PICK s \in Seq(S) : Len(s) = n /\ Increasing(s) /\ ~Increasing(OnlyOf(s, picked))
    BY <2>1
  <2>3. PICK u \in Seq(S), e \in S : s = Append(u, e)
    <3>1. CASE s = <<>>
      <4>1. OnlyOf(s, picked) = s
        BY <3>1, OnlyNone
      <4> QED
        BY <2>2, <4>1
    <3>2. CASE s # <<>>
      BY <3>2, SequenceEmptyOrAppend
    <3> QED
      BY <3>1, <3>2
  <2>4. Len(u) \in Nat /\ n = Len(u) + 1
    BY <2>2, <2>3, AppendProperties, LenProperties
  <2>5. Len(u) \notin bad
    BY <2>1, <2>4
  <2>6. Increasing(u) => Increasing(OnlyOf(u, picked))
    BY <2>4, <2>5
  <2> QED
    BY <1>2, <2>2, <2>3, <2>6
<1>4. ASSUME NEW s \in Seq(S), Increasing(s), ~Increasing(OnlyOf(s, picked)) PROVE FALSE
  <2>1. Len(s) \in bad
    BY <1>4
  <2> QED
    BY <1>3, <2>1
<1> QED
  BY <1>4

LEMMA HeadFirst == ASSUME NEW S, NEW s \in Seq(S), s # <<>> PROVE s = <<Head(s)>> \o Tail(s)
<1> DEFINE T == Tail(s)
           h == Head(s)
           u == <<h>> \o T
<1>1. T \in Seq(S) /\ h \in S /\ Len(T) = Len(s) - 1 /\ \A i \in 1 .. Len(T) : T[i] = s[i + 1]
  BY HeadTailProperties
<1>2. h = s[1] /\ Len(s) \in Nat
  OBVIOUS
<1>3. <<h>> \in Seq(S) /\ Len(<<h>>) = 1 /\ <<h>>[1] = h
  BY <1>1
<1>4. u \in Seq(S) /\ Len(u) = 1 + Len(T) /\ \A i \in 1 .. Len(u) : u[i] = IF i <= 1 THEN <<h>>[i] ELSE T[i - 1]
  BY <1>1, <1>3, ConcatProperties
<1> HIDE DEF u, T, h
<1>5. Len(u) = Len(s)
  BY <1>1, <1>2, <1>4
<1>6. ASSUME NEW i \in 1 .. Len(s) PROVE u[i] = s[i]
  <2>1. CASE i = 1
    BY <1>2, <1>3, <1>4, <1>5, <2>1
  <2>2. CASE i # 1
    <3>1. i - 1 \in 1 .. Len(T) /\ ~(i <= 1) /\ (i - 1) + 1 = i
      BY <1>1, <1>2, <2>2
    <3> QED
      BY <1>1, <1>4, <1>5, <3>1
  <2> QED
    BY <2>1, <2>2
<1>7. u = s
  BY <1>4, <1>5, <1>6, SeqEqual
<1> QED
  BY <1>7 DEF u, T, h

(* On an arrival the list loses its first item or none, and gains the new    *)
(* item or none.                                                             *)
ShiftedBy(D, E, k) ==
  /\ k <= Len(D) /\ Len(D) - k <= Len(E)
  /\ \A i \in 1 .. Len(D) - k : E[i] = D[i + k]
  /\ k = 1 => \A i \in 1 .. Len(E) : E[i] # D[1]

LEMMA ListShifts ==
  ASSUME TableInv, Arrive, sortColumn = NoColumn, data = Shown, data' = Shown'
  PROVE  /\ data' \in Seq(1 .. MaxItems) /\ Increasing(data')
         /\ \E k \in {0, 1} : ShiftedBy(data, data', k)
<1> DEFINE S == 1 .. MaxItems
           n == arrived + 1
           W == Chosen
<1>1. /\ n \in S /\ arrived' = n /\ RowsListed(items', arrived') /\ UNCHANGED <<choice, order, timers>>
      /\ \/ items' = Append(items, n)
         \/ items # <<>> /\ items' = Append(Tail(items), n)
  BY Arrived
<1>2. Chosen' = Chosen /\ sortColumn' = NoColumn
  BY <1>1, ChosenStays DEF choice, order
<1>3. data = OnlyOf(items, W) /\ data' = OnlyOf(items', W)
  BY <1>2 DEF Shown, Sorted, Filtered
<1>4. items \in Seq(S) /\ items' \in Seq(S) /\ Increasing(items') /\ Increasing(items)
  BY <1>1 DEF RowsListed, Increasing, TableInv
<1>5. data' \in Seq(S) /\ Increasing(data') /\ data \in Seq(S) /\ Increasing(data)
  <2>1. KeptAsIs(S, W, items) /\ KeptAsIs(S, W, items')
    BY <1>4, KeptWhole
  <2>2. data' \in Seq(S) /\ data \in Seq(S)
    BY <1>3, <2>1 DEF KeptAsIs
  <2>3. Increasing(OnlyOf(items, W)) /\ Increasing(OnlyOf(items', W))
    <3> HIDE DEF W
    <3> QED
      BY <1>4, KeptInOrder
  <2> QED
    BY <1>3, <2>2, <2>3
<1> HIDE DEF W
<1>6. \A i \in 1 .. Len(data) : data[i] \in Nat /\ data[i] < n
  <2>1. KeptAsIs(S, W, items)
    BY <1>4, KeptWhole
  <2>2. \A i \in 1 .. Len(data) : \E k \in 1 .. Len(items) : items[k] = data[i]
    BY <1>3, <2>1 DEF KeptAsIs
  <2>3. \A k \in 1 .. Len(items) : items[k] \in Nat /\ items[k] < n
    <3>1. \A k \in 1 .. Len(items) : items[k] \in 1 .. MaxItems /\ items[k] <= arrived
      <4>1. \A k \in 1 .. Len(items) : items[k] <= arrived
        BY DEF TableInv
      <4>2. items \in [1 .. Len(items) -> 1 .. MaxItems]
        BY <1>4, LenProperties
      <4> QED
        BY <4>1, <4>2
    <3>2. arrived \in Nat /\ MaxItems \in Nat
      BY TableAssumption DEF TableInv
    <3> QED
      BY <3>1, <3>2
  <2> QED
    BY <2>2, <2>3
<1> DEFINE D == data
           E == data'
<1>7. ASSUME NEW B \in Seq(S), NEW k \in {0, 1}, k <= Len(D), Len(B) = Len(D) - k, \A i \in 1 .. Len(B) : B[i] = D[i + k],
             E = IF n \in W THEN Append(B, n) ELSE B
      PROVE  ShiftedBy(D, E, k)
  <2>1. Len(B) \in Nat /\ Len(D) \in Nat
    BY <1>5
  <2>2. /\ Len(B) <= Len(E) /\ Len(E) \in Nat
        /\ \A i \in 1 .. Len(B) : E[i] = B[i]
        /\ \A i \in 1 .. Len(E) : i \notin 1 .. Len(B) => E[i] = n
    <3>1. CASE n \in W
      <4>1. Len(E) = Len(B) + 1 /\ E[Len(B) + 1] = n /\ \A i \in 1 .. Len(B) : E[i] = B[i]
        BY <1>1, <1>7, <3>1, AppendProperties
      <4> HIDE DEF E
      <4>2. \A i \in 1 .. Len(E) : i \notin 1 .. Len(B) => i = Len(B) + 1
        BY <2>1, <4>1
      <4> QED
        BY <2>1, <4>1, <4>2
    <3>2. CASE n \notin W
      <4>1. E = B
        BY <1>7, <3>2
      <4> QED
        BY <2>1, <4>1
    <3> QED
      BY <3>1, <3>2
  <2> HIDE DEF D, E, n
  <2>3. ASSUME k = 1, NEW i \in 1 .. Len(E) PROVE E[i] # D[1]
    <3>1. 1 \in 1 .. Len(D)
      BY <1>7, <2>1, <2>3
    <3>2. CASE i \in 1 .. Len(B)
      <4>1. i + 1 \in 1 .. Len(D) /\ 1 < i + 1
        BY <1>7, <2>1, <2>3, <3>2
      <4>2. D[1] < D[i + 1] /\ D[1] \in Nat /\ D[i + 1] \in Nat
        BY <1>5, <1>6, <3>1, <4>1 DEF Increasing, D
      <4>3. E[i] = D[i + 1]
        BY <1>7, <2>2, <2>3, <3>2
      <4> QED
        BY <4>2, <4>3
    <3>3. CASE i \notin 1 .. Len(B)
      <4>1. E[i] = n /\ D[1] < n /\ D[1] \in Nat /\ n \in Nat
        BY <1>1, <1>6, <2>2, <3>1, <3>3 DEF D, n
      <4> QED
        BY <4>1
    <3> QED
      BY <3>2, <3>3
  <2> QED
    BY <1>7, <2>1, <2>2, <2>3 DEF ShiftedBy
<1>8. CASE items' = Append(items, n)
  <2>1. E = IF n \in W THEN Append(D, n) ELSE D
    <3>1. data' = OnlyOf(Append(items, n), W)
      BY <1>3, <1>8
    <3> HIDE DEF n, S
    <3>2. OnlyOf(Append(items, n), W) = IF n \in W THEN Append(OnlyOf(items, W), n) ELSE OnlyOf(items, W)
      BY <1>1, <1>4, OnlyNext
    <3> QED
      BY <1>3, <3>1, <3>2
  <2> HIDE DEF D, E, n, S
  <2>2. D \in Seq(S) /\ Len(D) \in Nat
    BY <1>5 DEF D
  <2>3. 0 \in {0, 1} /\ 0 <= Len(D) /\ Len(D) = Len(D) - 0 /\ \A i \in 1 .. Len(D) : D[i] = D[i + 0]
    BY <2>2
  <2>4. ShiftedBy(D, E, 0)
    BY <1>7, <2>1, <2>2, <2>3
  <2> QED
    BY <1>5, <2>4 DEF D, E, S
<1>9. CASE items # <<>> /\ items' = Append(Tail(items), n)
  <2> DEFINE T == Tail(items)
             h == Head(items)
             B == OnlyOf(T, W)
  <2>1. T \in Seq(S) /\ h \in S /\ items = <<h>> \o T
    BY <1>4, <1>9, HeadTailProperties, HeadFirst
  <2> HIDE DEF T, h, n, S
  <2>2. KeptAsIs(S, W, T)
    BY <2>1, KeptWhole
  <2>3. B \in Seq(S) /\ D = (IF h \in W THEN <<h>> ELSE <<>>) \o B
    BY <1>3, <2>1, <2>2 DEF KeptAsIs
  <2>4. E = IF n \in W THEN Append(B, n) ELSE B
    <3>1. data' = OnlyOf(Append(T, n), W)
      BY <1>3, <1>9 DEF T
    <3>2. OnlyOf(Append(T, n), W) = IF n \in W THEN Append(B, n) ELSE B
      BY <1>1, <2>1, OnlyNext
    <3> QED
      BY <3>1, <3>2
  <2>5. Len(B) \in Nat
    BY <2>3
  <2> HIDE DEF D, E, B
  <2>6. CASE h \in W
    <3>1. D = <<h>> \o B
      BY <2>3, <2>6
    <3>2. <<h>> \in Seq(S) /\ Len(<<h>>) = 1
      BY <2>1
    <3>3. Len(D) = 1 + Len(B) /\ \A i \in 1 .. Len(D) : D[i] = IF i <= 1 THEN <<h>>[i] ELSE B[i - 1]
      BY <2>3, <3>1, <3>2, ConcatProperties
    <3>4. \A i \in 1 .. Len(B) : B[i] = D[i + 1]
      <4> TAKE i \in 1 .. Len(B)
      <4>1. i + 1 \in 1 .. Len(D) /\ ~(i + 1 <= 1) /\ (i + 1) - 1 = i
        BY <2>5, <3>3
      <4> QED
        BY <3>3, <4>1
    <3>5. 1 \in {0, 1} /\ 1 <= Len(D) /\ Len(B) = Len(D) - 1
      BY <2>5, <3>3
    <3>6. ShiftedBy(D, E, 1)
      BY <1>7, <2>3, <2>4, <3>4, <3>5
    <3> QED
      BY <1>5, <3>6 DEF D, E, S
  <2>7. CASE h \notin W
    <3>1. D = B
      BY <2>3, <2>7
    <3>2. 0 \in {0, 1} /\ 0 <= Len(D) /\ Len(B) = Len(D) - 0 /\ \A i \in 1 .. Len(B) : B[i] = D[i + 0]
      BY <2>5, <3>1
    <3>3. ShiftedBy(D, E, 0)
      BY <1>7, <2>3, <2>4, <3>2
    <3> QED
      BY <1>5, <3>3 DEF D, E, S
  <2> QED
    BY <2>6, <2>7
<1> QED
  BY <1>1, <1>8, <1>9


(* The window that is moved by as much as the list shows the same rows.      *)
LEMMA WindowMoves ==
  ASSUME NEW D \in Seq(1 .. MaxItems), NEW E \in Seq(1 .. MaxItems), NEW o \in Nat, NEW k \in {0, 1},
         ShiftedBy(D, E, k), Len(Slice(D, o)) = Least(Count, Len(D)), Len(D) # 0,
         NEW kept, NEW q \in Nat,
         IF k <= o THEN kept = Slice(D, o) /\ q = o - k
         ELSE kept \in Seq(1 .. MaxItems) /\ Len(kept) = Len(Slice(D, o)) - 1 /\ q = 0
              /\ \A i \in 1 .. Len(kept) : kept[i] = Slice(D, o)[i + 1]
  PROVE  IsPrefix(kept, Slice(E, q))
<1> DEFINE S == 1 .. MaxItems
           L == Len(D)
           m == Least(Count, L)
           u == Slice(D, o)
           v == Slice(E, q)
           M == Len(E)
           nv == IF q >= M THEN 0 ELSE Least(Count, M - q)
           nu == IF o >= L THEN 0 ELSE Least(Count, L - o)
<1>1. L \in Nat /\ L # 0 /\ M \in Nat /\ Count \in Nat \ {0} /\ k \in {0, 1}
  BY TableAssumption
<1>2. u \in Seq(S) /\ Len(u) = nu /\ \A i \in 1 .. nu : u[i] = D[o + i]
  <2> HIDE DEF u, nu, S
  <2> QED
    BY SliceIs DEF u, nu, S
<1>3. v \in Seq(S) /\ Len(v) = nv /\ \A i \in 1 .. nv : v[i] = E[q + i]
  <2> HIDE DEF v, nv, S
  <2> QED
    BY SliceIs DEF v, nv, S
<1>4. Len(u) = m
  OBVIOUS
<1>5. k <= L /\ L - k <= M /\ (\A i \in 1 .. L - k : E[i] = D[i + k])
  BY DEF ShiftedBy
<1> DEFINE len == IF k <= o THEN m ELSE m - 1
<1>6. /\ kept \in Seq(S) /\ Len(kept) = len /\ q = (IF k <= o THEN o - k ELSE 0)
      /\ \A i \in 1 .. len : kept[i] = u[IF k <= o THEN i ELSE i + 1]
  BY <1>2, <1>4
<1> HIDE DEF L, M, u, v, S
<1>7. m \in 1 .. L /\ nu = m /\ o + m <= L /\ m <= Count
  <2>1. nu = m
    BY <1>2, <1>4
  <2> QED
    BY <1>1, <2>1 DEF Least
<1>8. len <= nv /\ len \in Nat /\ nv \in Nat
  BY <1>1, <1>5, <1>6, <1>7 DEF Least
<1> HIDE DEF m, nu, nv
<1>9. ASSUME NEW i \in 1 .. len PROVE kept[i] = v[i]
  <2> DEFINE j == IF k <= o THEN i ELSE i + 1
  <2>1. j \in 1 .. m /\ o + j = q + i + k /\ q + i \in 1 .. L - k /\ i \in 1 .. nv
    <3> HIDE DEF nv, m
    <3>1. CASE k <= o
      <4>1. len = m /\ q = o - k /\ i \in Nat
        BY <1>6, <1>7, <3>1
      <4> HIDE DEF len
      <4>2. o + i = q + i + k /\ q + i \in 1 .. L - k /\ i \in 1 .. nv /\ i \in 1 .. m
        BY <1>1, <1>7, <1>8, <3>1, <4>1
      <4> QED
        BY <3>1, <4>2
    <3>2. CASE ~(k <= o)
      <4>1. len = m - 1 /\ q = 0 /\ k = 1 /\ o = 0 /\ i \in Nat
        BY <1>1, <1>6, <1>7, <3>2
      <4> HIDE DEF len
      <4>2. o + (i + 1) = q + i + k /\ q + i \in 1 .. L - k /\ i \in 1 .. nv /\ i + 1 \in 1 .. m
        BY <1>1, <1>7, <1>8, <4>1
      <4> QED
        BY <3>2, <4>2
    <3> QED
      BY <3>1, <3>2
  <2>2. kept[i] = u[j]
    BY <1>6
  <2> HIDE DEF j
  <2>3. kept[i] = D[o + j]
    BY <1>2, <1>7, <2>1, <2>2
  <2>4. v[i] = E[q + i] /\ E[q + i] = D[(q + i) + k]
    BY <1>3, <1>5, <2>1
  <2> QED
    BY <2>1, <2>3, <2>4
<1> HIDE DEF len
<1>10. SubSeq(kept, 1, len) = SubSeq(v, 1, len)
  <2>1. \A i \in 1 .. len : i \in 1 .. nv
    BY <1>8
  <2>2. \A i \in 1 .. len : v[i] \in S
    BY <1>3, <2>1
  <2>3. \A i \in 1 .. len : kept[i] \in S
    BY <1>9, <2>2
  <2>4. /\ SubSeq(kept, 1, len) \in Seq(S) /\ Len(SubSeq(kept, 1, len)) = (IF 1 <= len THEN len - 1 + 1 ELSE 0)
        /\ \A i \in 1 .. len - 1 + 1 : SubSeq(kept, 1, len)[i] = kept[1 + i - 1]
    BY <1>8, <2>3, SubSeqProperties
  <2>5. /\ SubSeq(v, 1, len) \in Seq(S) /\ Len(SubSeq(v, 1, len)) = (IF 1 <= len THEN len - 1 + 1 ELSE 0)
        /\ \A i \in 1 .. len - 1 + 1 : SubSeq(v, 1, len)[i] = v[1 + i - 1]
    BY <1>8, <2>2, SubSeqProperties
  <2>6. (IF 1 <= len THEN len - 1 + 1 ELSE 0) = len /\ len - 1 + 1 = len /\ \A i \in 1 .. len : 1 + i - 1 = i
    BY <1>8
  <2>7. \A i \in 1 .. len : SubSeq(kept, 1, len)[i] = SubSeq(v, 1, len)[i]
    BY <1>9, <2>4, <2>5, <2>6
  <2> QED
    BY <2>4, <2>5, <2>6, <2>7, SeqEqual
<1> QED
  BY <1>3, <1>6, <1>8, <1>10 DEF IsPrefix, v

(* What the history carries over is where the list has moved to.             *)
LEMMA CarriedOver ==
  ASSUME TableInv, NEW E \in Seq(1 .. MaxItems), Increasing(E), NEW k \in {0, 1}, ShiftedBy(data, E, k),
         ~updating, ~locked, Len(displayed) = Least(Count, Len(data)), Len(data) # 0
  PROVE  Clamped(E) = IF k <= offset THEN offset - k ELSE 0
<1> DEFINE D == data
           o == offset
           L == Len(D)
           q == IF k <= o THEN o - k ELSE 0
           last == Least(o + Count, L)
<1>1. /\ L \in Nat /\ L # 0 /\ Len(E) \in Nat /\ Count \in Nat \ {0} /\ k \in {0, 1} /\ o \in Nat
      /\ D \in Seq(1 .. MaxItems) /\ WindowOK
  BY TableAssumption DEF TableInv, WindowOK
<1>2. k <= L /\ L - k <= Len(E) /\ (\A i \in 1 .. L - k : E[i] = D[i + k]) /\ (k = 1 => \A i \in 1 .. Len(E) : E[i] # D[1])
  BY DEF ShiftedBy
<1>3. o < L /\ (o = 0 \/ o <= L - Count)
  <2> DEFINE nu == IF o >= L THEN 0 ELSE Least(Count, L - o)
  <2>1. Len(displayed) = nu
    BY <1>1, SliceIs DEF WindowOK
  <2>2. nu = Least(Count, L)
    BY <2>1
  <2> HIDE DEF L, o
  <2> QED
    BY <1>1, <2>2 DEF Least
<1>4. Carried(E) = {j \in o + 1 .. last : D[j] \in ToSet(E)}
  BY DEF Carried
<1>5. \A x : x \in ToSet(E) <=> \E i \in 1 .. Len(E) : E[i] = x
  BY DEF ToSet
<1>6. last \in Int /\ last <= L /\ o + 1 <= last
  <2> HIDE DEF L, o
  <2> QED
    BY <1>1, <1>3 DEF Least
<1>7. /\ Carried(E) = {} => CarriedTo(E) = o
      /\ \A j \in Carried(E) : (\A l \in Carried(E) : j <= l) => CarriedTo(E) + 1 \in 1 .. Len(E) /\ E[CarriedTo(E) + 1] = D[j]
      /\ CarriedTo(E) \in Nat
  BY <1>1, CarriedIs
<1>8. \A i, j \in 1 .. Len(E) : E[i] = E[j] => i = j
  <2>1. \A i \in 1 .. Len(E) : E[i] \in Nat
    <3>1. E \in [1 .. Len(E) -> 1 .. MaxItems]
      BY LenProperties
    <3> QED
      BY <3>1, TableAssumption
  <2>2. \A i, j \in 1 .. Len(E) : i < j \/ j < i \/ i = j
    BY <1>1
  <2>3. \A i, j \in 1 .. Len(E) : i < j => E[i] < E[j]
    BY DEF Increasing
  <2> QED
    BY <2>1, <2>2, <2>3
<1> DEFINE first == q + 1 + k
<1>9. ASSUME Carried(E) # {} PROVE first \in Carried(E) /\ \A l \in Carried(E) : first <= l
  <2>1. PICK l \in Carried(E) : TRUE
    BY <1>9
  <2>2. \A j \in Carried(E) : j \in o + 1 .. last /\ D[j] \in ToSet(E)
    BY <1>4
  <2> HIDE DEF D, o, L, last
  <2>3. \A j \in Carried(E) : j >= first /\ j \in Int /\ j <= L
    <3> SUFFICES ASSUME NEW j \in Carried(E) PROVE j >= first /\ j \in Int /\ j <= L
      OBVIOUS
    <3>1. j \in o + 1 .. last /\ D[j] \in ToSet(E)
      BY <2>2
    <3>2. k = 1 => j # 1
      BY <1>2, <1>5, <3>1
    <3> QED
      BY <1>1, <1>6, <3>1, <3>2
  <2>4. first <= l /\ first \in o + 1 .. last
    BY <1>1, <1>6, <2>1, <2>2, <2>3
  <2>5. q + 1 \in 1 .. L - k /\ q + 1 \in 1 .. Len(E)
    BY <1>1, <1>2, <1>3, <1>6, <2>4
  <2>6. E[q + 1] = D[first]
    BY <1>2, <2>5
  <2>7. first \in Carried(E)
    BY <1>4, <1>5, <2>4, <2>5, <2>6
  <2> QED
    BY <2>3, <2>7
<1>10. CarriedTo(E) = q
  <2>1. CASE Carried(E) = {}
    <3>1. ~(k <= o) \/ k = 0
      <4> SUFFICES ASSUME k <= o, k = 1 PROVE FALSE
        BY <1>1
      <4>1. q + 1 \in 1 .. L - k /\ q + 1 \in 1 .. Len(E) /\ (q + 1) + k = o + 1
        <5> HIDE DEF D, o, L, last
        <5> QED
          BY <1>1, <1>2, <1>3
      <4>2. o + 1 \in Carried(E)
        <5> HIDE DEF D, o, L, last
        <5>1. E[q + 1] = D[o + 1]
          BY <1>2, <4>1
        <5>2. D[o + 1] \in ToSet(E)
          BY <1>5, <4>1, <5>1
        <5>3. o + 1 \in o + 1 .. last
          BY <1>1, <1>6
        <5> QED
          BY <1>4, <5>2, <5>3
      <4> QED
        BY <2>1, <4>2
    <3>2. q = o
      BY <1>1, <3>1
    <3> QED
      BY <1>7, <2>1, <3>2
  <2>2. CASE Carried(E) # {}
    <3>1. first \in Carried(E) /\ \A l \in Carried(E) : first <= l
      BY <1>9, <2>2
    <3>2. CarriedTo(E) + 1 \in 1 .. Len(E) /\ E[CarriedTo(E) + 1] = D[first]
      BY <1>7, <3>1
    <3>3. first <= L /\ first \in Int
      BY <1>4, <1>6, <3>1
    <3> HIDE DEF D, o, L, last
    <3>4. q + 1 \in 1 .. L - k /\ q + 1 \in 1 .. Len(E) /\ first = (q + 1) + k
      BY <1>1, <1>2, <3>3
    <3>5. E[q + 1] = D[first]
      BY <1>2, <3>4
    <3>6. CarriedTo(E) + 1 = q + 1
      BY <1>8, <3>2, <3>4, <3>5
    <3> QED
      BY <1>1, <1>7, <3>6
  <2> QED
    BY <2>1, <2>2
<1>11. Wanted(E) = q
  BY <1>10 DEF Wanted
<1>12. Wanted(E) >= 0 /\ (Wanted(E) <= L - Count \/ Wanted(E) = 0)
  <2> HIDE DEF D, o, L, last
  <2> QED
    BY <1>1, <1>3, <1>11
<1>13. Clamped(E) = Wanted(E)
  BY <1>1, <1>12, ClampedIs
<1> QED
  BY <1>11, <1>13


LEMMA UndisturbedStep ==
  ASSUME TableInv, Arrive, ~updating, ~locked, sortColumn = NoColumn, data = Shown,
         Len(displayed) = Least(Count, Len(data))
  PROVE  IsPrefix(Kept(displayed), displayed')
<1> DEFINE D == data
           E == data'
           S == 1 .. MaxItems
<1>1. TableInv' /\ data' = Shown' /\ offset' = Clamped(E)
  BY ArriveStep
<1>2. E \in Seq(S) /\ Increasing(E) /\ \E k \in {0, 1} : ShiftedBy(D, E, k)
  BY <1>1, ListShifts
<1>3. PICK k \in {0, 1} : ShiftedBy(D, E, k)
  BY <1>2
<1>4. D \in Seq(S) /\ Len(D) \in Nat /\ offset \in Nat /\ displayed = Slice(D, offset) /\ Count \in Nat \ {0}
  BY TableAssumption DEF TableInv, WindowOK
<1>5. displayed' = Slice(E, offset')
  BY <1>1 DEF TableInv, WindowOK
<1> DEFINE u == displayed
           picked == ToSet(E)
           n == IF offset >= Len(D) THEN 0 ELSE Least(Count, Len(D) - offset)
<1>6. Kept(displayed) = OnlyOf(u, picked)
  BY DEF Kept
<1>7. u \in Seq(S) /\ Len(u) = n /\ \A i \in 1 .. n : u[i] = D[offset + i]
  <2> HIDE DEF n, S, D
  <2> QED
    BY <1>4, SliceIs DEF n
<1>8. CASE Len(D) = 0
  <2>1. n = 0 /\ u = <<>>
    <3>1. n = 0
      BY <1>4, <1>8
    <3> QED
      BY <1>7, <3>1, EmptySeq
  <2>2. Kept(displayed) = <<>>
    BY <1>6, <2>1, OnlyNone
  <2>3. displayed' \in Seq(S) /\ Len(displayed') \in Nat
    <3>1. offset' \in Nat /\ data' \in Seq(1 .. MaxItems)
      BY <1>1 DEF TableInv, WindowOK
    <3> HIDE DEF S
    <3>2. displayed' \in Seq(S)
      BY <1>5, <3>1, SliceIs DEF S
    <3> QED
      BY <3>2
  <2>4. Len(<<>>) = 0 /\ 1 > 0 /\ 0 <= Len(displayed')
    BY <2>3
  <2>5. SubSeq(<<>>, 1, 0) = <<>> /\ SubSeq(displayed', 1, 0) = <<>>
    BY <2>3, SubSeqEmpty
  <2> QED
    BY <2>2, <2>4, <2>5 DEF IsPrefix
<1>9. CASE Len(D) # 0
  <2> DEFINE q == IF k <= offset THEN offset - k ELSE 0
  <2>1. offset' = q
    BY <1>1, <1>2, <1>3, <1>9, CarriedOver
  <2>2. q \in Nat
    BY <1>3, <1>4
  <2>3. \A x : x \in picked <=> \E i \in 1 .. Len(E) : E[i] = x
    BY <1>2 DEF ToSet
  <2>4. /\ k <= Len(D) /\ Len(D) - k <= Len(E) /\ (\A i \in 1 .. Len(D) - k : E[i] = D[i + k])
        /\ (k = 1 => \A i \in 1 .. Len(E) : E[i] # D[1]) /\ Len(E) \in Nat
    BY <1>2, <1>3 DEF ShiftedBy
  <2>5. (n \in Nat /\ offset + n <= Len(D)) \/ n = 0
    <3> HIDE DEF D
    <3> QED
      BY <1>4 DEF Least
  <2>6. n = Least(Count, Len(D)) /\ n \in Nat /\ n # 0
    <3>1. n = Least(Count, Len(D))
      BY <1>7
    <3> HIDE DEF D, n
    <3> QED
      BY <1>4, <1>9, <3>1 DEF Least
  <2> HIDE DEF D, E, n, S, picked, u
  <2>7. \A i \in 1 .. n : k < offset + i => u[i] \in picked
    <3> TAKE i \in 1 .. n
    <3> SUFFICES ASSUME k < offset + i PROVE u[i] \in picked
      OBVIOUS
    <3> DEFINE j == (offset + i) - k
    <3>1. j \in 1 .. Len(D) - k /\ j \in 1 .. Len(E) /\ j + k = offset + i
      BY <1>3, <1>4, <2>4, <2>5, <2>6
    <3> HIDE DEF j
    <3>2. E[j] = D[offset + i]
      BY <2>4, <3>1
    <3>3. E[j] = u[i]
      BY <1>7, <3>2
    <3> QED
      BY <2>3, <3>1, <3>3
  <2>8. CASE k <= offset
    <3>1. \A i \in 1 .. Len(u) : u[i] \in picked
      <4>1. \A i \in 1 .. n : k < offset + i
        BY <1>3, <1>4, <2>6, <2>8
      <4> QED
        BY <1>7, <2>7, <4>1
    <3>2. OnlyOf(u, picked) = u
      BY <1>7, <3>1, KeptWhole DEF KeptAsIs
    <3>3. Kept(displayed) = u
      BY <1>6, <3>2
    <3>4. Kept(displayed) = Slice(D, offset) /\ q = offset - k
      BY <1>4, <2>8, <3>3 DEF u
    <3> DEFINE kept == Kept(displayed)
    <3> HIDE DEF kept, q
    <3>5. Len(Slice(D, offset)) = Least(Count, Len(D)) /\ kept = Slice(D, offset) /\ q = offset - k
      BY <1>4, <3>4 DEF kept, D
    <3>6. IsPrefix(kept, Slice(E, q))
      BY <1>2, <1>3, <1>4, <1>9, <2>2, <2>8, <3>5, WindowMoves DEF S
    <3> QED
      BY <1>5, <2>1, <3>6 DEF kept
  <2>9. CASE ~(k <= offset)
    <3>1. k = 1 /\ offset = 0 /\ q = 0
      BY <1>3, <1>4, <2>9
    <3> DEFINE T == Tail(u)
               h == Head(u)
    <3>2. u # <<>>
      BY <1>7, <2>6, EmptySeq
    <3>3. T \in Seq(S) /\ Len(T) = n - 1 /\ (\A i \in 1 .. Len(T) : T[i] = u[i + 1]) /\ h \in S /\ h = u[1]
      <4>1. T \in Seq(S) /\ Len(T) = Len(u) - 1 /\ (\A i \in 1 .. Len(T) : T[i] = u[i + 1]) /\ h \in S
        BY <1>7, <3>2, HeadTailProperties
      <4>2. h = u[1]
        BY <1>7
      <4> QED
        BY <1>7, <4>1, <4>2
    <3>4. u = <<h>> \o T
      BY <1>7, <3>2, HeadFirst
    <3> HIDE DEF T, h
    <3>5. h \notin picked
      <4>1. 1 \in 1 .. n /\ offset + 1 = 1
        BY <2>6, <3>1
      <4>2. h = D[1]
        BY <1>7, <3>3, <4>1
      <4> QED
        BY <2>3, <2>4, <3>1, <4>2
    <3>6. \A i \in 1 .. Len(T) : T[i] \in picked
      <4>1. \A i \in 1 .. Len(T) : i + 1 \in 1 .. n /\ k < offset + (i + 1)
        BY <2>6, <3>1, <3>3
      <4> QED
        BY <2>7, <3>3, <4>1
    <3>7. OnlyOf(T, picked) = T /\ OnlyOf(<<h>> \o T, picked) = <<>> \o OnlyOf(T, picked)
      <4>1. KeptAsIs(S, picked, T)
        BY <3>3, KeptWhole
      <4> QED
        BY <3>3, <3>5, <3>6, <4>1 DEF KeptAsIs
    <3>8. <<>> \o T = T
      BY <3>3, ConcatEmptySeq
    <3>9. Kept(displayed) = T
      BY <1>6, <3>4, <3>7, <3>8
    <3>10. Slice(D, offset) = u /\ Len(u) = n /\ n = Least(Count, Len(D))
      BY <1>4, <1>7, <2>6 DEF u
    <3>11. IsPrefix(T, Slice(E, q))
      <4>1. T \in Seq(1 .. MaxItems) /\ Len(T) = Len(Slice(D, offset)) - 1 /\ \A i \in 1 .. Len(T) : T[i] = Slice(D, offset)[i + 1]
        BY <3>3, <3>10 DEF S
      <4>2. D \in Seq(1 .. MaxItems) /\ E \in Seq(1 .. MaxItems) /\ Len(Slice(D, offset)) = Least(Count, Len(D))
        BY <1>2, <1>4, <3>10 DEF S
      <4> HIDE DEF q
      <4> QED
        BY <1>3, <1>4, <1>9, <2>2, <2>9, <3>1, <4>1, <4>2, WindowMoves
    <3> QED
      BY <1>5, <2>1, <3>9, <3>11
  <2> QED
    BY <2>8, <2>9
<1> QED
  BY <1>8, <1>9

-----------------------------------------------------------------------------
(* What a table shows is what it should: the window is a slice of the list   *)
(* held, the list is that of the present items, filters, view and order      *)
(* unless a refresh is to come, it is followed to its end, and the arrival   *)
(* of items leaves a reader's full window where it is (send, filter, sort of *)
(* fptable.js; updateData, next, prev, last of utils.js).                    *)
THEOREM TableFollowsItems == TableSpec => TableShown
<1>1. TableInit => TableInv
  BY TableStart
<1>2. TableInv /\ [TableNext]_tableVars => TableInv'
  BY TableStep
<1>3. TableInv => TableTypeOK /\ Fresh /\ FollowsEnd
  BY DEF TableInv, TypedOrder, WindowOK, TableTypeOK
<1>4. TableInv /\ [TableNext]_tableVars
        => [Arrive /\ ~updating /\ ~locked /\ sortColumn = NoColumn /\ data = Shown
              /\ Len(displayed) = Least(Count, Len(data))
              => IsPrefix(Kept(displayed), displayed')]_tableVars
  BY UndisturbedStep
<1>5. TableSpec => []TableInv
  BY <1>1, <1>2, PTL DEF TableSpec
<1> QED
  BY <1>2, <1>3, <1>4, <1>5, PTL DEF TableSpec, TableShown, Undisturbed
-----------------------------------------------------------------------------
(* The colour that calculateRowStyle's loop over the levels comes to.        *)
LoopStyle(v) ==
  IF Outside(v, bounds["fatal"]) THEN "fatal"
  ELSE IF Outside(v, bounds["warn-hi"]) THEN "warn-hi"
  ELSE IF Outside(v, bounds["warn-lo"]) THEN "warn-lo" ELSE "success"

LoopFrom(v, f) ==
  f = [k \in 1 .. Len(Levels) + 1 |->
         IF k > Len(Levels) THEN "success"
         ELSE IF Outside(v, bounds[Levels[k]]) THEN Levels[k] ELSE f[k + 1]]

LEMMA LevelsAre ==
  /\ Len(Levels) = 3 /\ DOMAIN Levels = 1 .. 3
  /\ Levels[1] = "fatal" /\ Levels[2] = "warn-hi" /\ Levels[3] = "warn-lo"
  /\ ToSet(Levels) = {"fatal", "warn-hi", "warn-lo"}
BY DEF Levels, ToSet

LEMMA LoopFromIs ==
  ASSUME NEW v, NEW f, LoopFrom(v, f)
  PROVE  f[1] = LoopStyle(v)
<1> DEFINE e(k) == IF k > Len(Levels) THEN "success"
                   ELSE IF Outside(v, bounds[Levels[k]]) THEN Levels[k] ELSE f[k + 1]
<1>1. f = [k \in 1 .. Len(Levels) + 1 |-> e(k)]
  BY DEF LoopFrom
<1>2. \A k \in 1 .. 4 : f[k] = e(k)
  <2>1. f = [k \in 1 .. 4 |-> e(k)]
    BY <1>1, LevelsAre
  <2> HIDE DEF e
  <2> QED
    BY <2>1
<1>3. f[4] = "success"
  <2>1. f[4] = e(4)
    BY <1>2
  <2> QED
    BY <2>1, LevelsAre
<1>4. f[3] = IF Outside(v, bounds["warn-lo"]) THEN "warn-lo" ELSE "success"
  <2>1. f[3] = e(3)
    BY <1>2
  <2> QED
    BY <1>3, <2>1, LevelsAre
<1>5. f[2] = IF Outside(v, bounds["warn-hi"]) THEN "warn-hi" ELSE f[3]
  <2>1. f[2] = e(2)
    BY <1>2
  <2> QED
    BY <2>1, LevelsAre
<1>6. f[1] = IF Outside(v, bounds["fatal"]) THEN "fatal" ELSE f[2]
  <2>1. f[1] = e(1)
    BY <1>2
  <2> QED
    BY <2>1, LevelsAre
<1> QED
  BY <1>4, <1>5, <1>6 DEF LoopStyle

LEMMA LoopFromExists == ASSUME NEW v PROVE \E f : LoopFrom(v, f)
<1> DEFINE c == IF Outside(v, bounds["warn-lo"]) THEN "warn-lo" ELSE "success"
           b == IF Outside(v, bounds["warn-hi"]) THEN "warn-hi" ELSE c
           a == IF Outside(v, bounds["fatal"]) THEN "fatal" ELSE b
           f == [k \in 1 .. 4 |-> IF k = 1 THEN a ELSE IF k = 2 THEN b ELSE IF k = 3 THEN c ELSE "success"]
           e(k) == IF k > Len(Levels) THEN "success"
                   ELSE IF Outside(v, bounds[Levels[k]]) THEN Levels[k] ELSE f[k + 1]
<1>1. f[1] = a /\ f[2] = b /\ f[3] = c /\ f[4] = "success"
  <2> HIDE DEF a, b, c
  <2> QED
    OBVIOUS
<1>2. \A k \in 1 .. 4 : f[k] = e(k)
  <2> HIDE DEF f
  <2>1. e(1) = a
    BY <1>1, LevelsAre
  <2>2. e(2) = b
    BY <1>1, LevelsAre
  <2>3. e(3) = c
    BY <1>1, LevelsAre
  <2>4. e(4) = "success"
    BY LevelsAre
  <2> HIDE DEF e, a, b, c
  <2> SUFFICES ASSUME NEW k \in 1 .. 4 PROVE f[k] = e(k)
    OBVIOUS
  <2>5. k = 1 \/ k = 2 \/ k = 3 \/ k = 4
    OBVIOUS
  <2> QED
    BY <1>1, <2>1, <2>2, <2>3, <2>4, <2>5
<1>3. f = [k \in 1 .. 4 |-> e(k)]
  <2>1. f = [k \in 1 .. 4 |-> f[k]]
    <3> HIDE DEF a, b, c
    <3> QED
      OBVIOUS
  <2>2. [k \in 1 .. 4 |-> f[k]] = [k \in 1 .. 4 |-> e(k)]
    <3> HIDE DEF f, e
    <3> QED
      BY <1>2
  <2> QED
    BY <2>1, <2>2
<1>4. Len(Levels) + 1 = 4
  BY LevelsAre
<1>5. LoopFrom(v, f)
  <2> HIDE DEF f
  <2> QED
    BY <1>3, <1>4 DEF LoopFrom
<1> QED
  BY <1>5

LEMMA RowStyleIs ==
  ASSUME NEW v
  PROVE  RowStyle(v) = IF v = NoValue \/ (\A l \in DOMAIN bounds : bounds[l] = <<NoBound, NoBound>>) THEN "plain"
                       ELSE LoopStyle(v)
<1> DEFINE from == CHOOSE f : LoopFrom(v, f)
<1>1. LoopFrom(v, from)
  BY LoopFromExists
<1>2. from[1] = LoopStyle(v)
  <2> HIDE DEF from
  <2> QED
    BY <1>1, LoopFromIs
<1>3. RowStyle(v) = IF v = NoValue \/ (\A l \in DOMAIN bounds : bounds[l] = <<NoBound, NoBound>>) THEN "plain"
                    ELSE from[1]
  BY DEF RowStyle, LoopFrom
<1> QED
  BY <1>2, <1>3

LEMMA LeastLevel ==
  ASSUME NEW S, S \subseteq 1 .. 3
  PROVE  /\ 1 \in S => Min(S) = 1
         /\ 1 \notin S /\ 2 \in S => Min(S) = 2
         /\ 1 \notin S /\ 2 \notin S /\ 3 \in S => Min(S) = 3
<1>1. ASSUME NEW x \in S, \A y \in S : x <= y PROVE Min(S) = x
  BY <1>1, MinIs
<1>2. \A x \in S : x \in 1 .. 3
  OBVIOUS
<1>3. 1 \in S => \A y \in S : 1 <= y
  BY <1>2
<1>4. 1 \notin S => \A y \in S : 2 <= y
  BY <1>2
<1>5. 1 \notin S /\ 2 \notin S => \A y \in S : 3 <= y
  BY <1>2
<1> QED
  BY <1>1, <1>3, <1>4, <1>5

LEMMA WorstIsShown ==
  ASSUME DOMAIN bounds = ToSet(Levels)
  PROVE  WorstShown
<1> SUFFICES ASSUME NEW c \in RowChannels
             PROVE  LET v == channelValue[c]
                        worst == {k \in DOMAIN Levels : v # NoValue /\ Outside(v, bounds[Levels[k]])}
                    IN IF worst = {} THEN RowStyle(v) \in {"plain", "success"}
                       ELSE RowStyle(v) = Levels[Min(worst)]
  BY DEF WorstShown
<1> DEFINE v == channelValue[c]
           worst == {k \in DOMAIN Levels : v # NoValue /\ Outside(v, bounds[Levels[k]])}
<1>1. RowStyle(v) = IF v = NoValue \/ (\A l \in DOMAIN bounds : bounds[l] = <<NoBound, NoBound>>) THEN "plain"
                    ELSE LoopStyle(v)
  <2> HIDE DEF v
  <2> QED
    BY RowStyleIs
<1>2. worst \subseteq 1 .. 3
  BY LevelsAre
<1>3. \A k \in 1 .. 3 : k \in worst <=> v # NoValue /\ Outside(v, bounds[Levels[k]])
  BY LevelsAre
<1> HIDE DEF v, worst
<1>4. ASSUME worst = {} PROVE RowStyle(v) \in {"plain", "success"}
  <2>1. CASE v = NoValue
    BY <1>1, <2>1
  <2>2. CASE v # NoValue
    <3>1. LoopStyle(v) = "success"
      <4>1. \A k \in 1 .. 3 : ~Outside(v, bounds[Levels[k]])
        BY <1>3, <1>4, <2>2
      <4>2. ~Outside(v, bounds["fatal"]) /\ ~Outside(v, bounds["warn-hi"]) /\ ~Outside(v, bounds["warn-lo"])
        BY <4>1, LevelsAre
      <4> QED
        BY <4>2 DEF LoopStyle
    <3> QED
      BY <1>1, <3>1
  <2> QED
    BY <2>1, <2>2
<1>5. ASSUME worst # {} PROVE RowStyle(v) = Levels[Min(worst)]
  <2>1. PICK k \in 1 .. 3 : v # NoValue /\ Outside(v, bounds[Levels[k]])
    BY <1>2, <1>3, <1>5
  <2>2. Levels[k] \in DOMAIN bounds
    BY LevelsAre
  <2>3. bounds[Levels[k]] # <<NoBound, NoBound>>
    BY <2>1 DEF Outside
  <2>4. RowStyle(v) = LoopStyle(v)
    BY <1>1, <2>1, <2>2, <2>3
  <2>5. /\ 1 \in worst <=> Outside(v, bounds["fatal"])
        /\ 2 \in worst <=> Outside(v, bounds["warn-hi"])
        /\ 3 \in worst <=> Outside(v, bounds["warn-lo"])
    BY <1>3, <2>1, LevelsAre
  <2>6. 1 \in worst \/ 2 \in worst \/ 3 \in worst
    <3>1. k \in worst
      BY <1>3, <2>1
    <3>2. k = 1 \/ k = 2 \/ k = 3
      OBVIOUS
    <3> QED
      BY <3>1, <3>2
  <2>7. /\ 1 \in worst => Min(worst) = 1
        /\ 1 \notin worst /\ 2 \in worst => Min(worst) = 2
        /\ 1 \notin worst /\ 2 \notin worst /\ 3 \in worst => Min(worst) = 3
    BY <1>2, LeastLevel
  <2>8. CASE 1 \in worst
    BY <2>4, <2>5, <2>7, <2>8, LevelsAre DEF LoopStyle
  <2>9. CASE 1 \notin worst /\ 2 \in worst
    BY <2>4, <2>5, <2>7, <2>9, LevelsAre DEF LoopStyle
  <2>10. CASE 1 \notin worst /\ 2 \notin worst
    BY <2>4, <2>5, <2>6, <2>7, <2>10, LevelsAre DEF LoopStyle
  <2> QED
    BY <2>8, <2>9, <2>10
<1> QED
  BY <1>4, <1>5 DEF v, worst

LEMMA ValuesAreShown == ShownWithValue
BY DEF ShownWithValue, Hider, AllNull

(* The largest of some readings.                                             *)
LEMMA LargestOf ==
  ASSUME NEW S, NEW m \in Nat, S \subseteq 0 .. m, S # {}
  PROVE  \A x \in S : x <= Max(S)
<1> DEFINE T == {m - x : x \in S}
<1>1. T \subseteq Nat /\ T # {}
  <2>1. \A x \in S : m - x \in Nat
    OBVIOUS
  <2> QED
    BY <2>1
<1>2. PICK t \in T : \A u \in T : t <= u
  <2> HIDE DEF T
  <2> QED
    BY <1>1, LeastOf
<1>3. PICK x \in S : t = m - x
  BY <1>2
<1>4. \A y \in S : y <= x
  <2> SUFFICES ASSUME NEW y \in S PROVE y <= x
    OBVIOUS
  <2>1. m - x <= m - y
    BY <1>2, <1>3
  <2>2. x \in Int /\ y \in Int
    OBVIOUS
  <2> QED
    BY <2>1, <2>2
<1>5. Max(S) = x
  BY <1>3, <1>4, MaxIs
<1> QED
  BY <1>4, <1>5

(* What performance.js keeps is the end of what it saw.                      *)
RowsInv ==
  /\ DOMAIN bounds = ToSet(Levels)
  /\ readings \in Seq(0 .. MaxDelay) /\ seenReadings \in Seq(0 .. MaxDelay)
  /\ Len(readings) = IF Len(seenReadings) <= WindowSize THEN Len(seenReadings) ELSE WindowSize
  /\ \A k \in 1 .. Len(readings) : readings[k] = seenReadings[Len(seenReadings) - Len(readings) + k]

LEMMA RowsStart == RowsInit => RowsInv
<1> SUFFICES ASSUME RowsInit PROVE RowsInv
  OBVIOUS
<1>1. DOMAIN bounds = ToSet(Levels)
  BY DEF RowsInit
<1>2. readings = <<>> /\ seenReadings = <<>>
  BY DEF RowsInit
<1> QED
  BY <1>1, <1>2, RowsAssumption DEF RowsInv

LEMMA CheckedStep ==
  ASSUME RowsInv, NEW d \in 0 .. MaxDelay, Checker(d)
  PROVE  RowsInv'
<1> DEFINE r == Append(readings, d)
           n == Len(readings)
           m == Len(seenReadings)
<1>1. /\ r \in Seq(0 .. MaxDelay) /\ Len(r) = n + 1
      /\ r[n + 1] = d /\ \A k \in 1 .. n : r[k] = readings[k]
  BY AppendProperties DEF RowsInv
<1>2. /\ seenReadings' \in Seq(0 .. MaxDelay) /\ Len(seenReadings') = m + 1
      /\ seenReadings'[m + 1] = d /\ \A k \in 1 .. m : seenReadings'[k] = seenReadings[k]
  BY AppendProperties DEF RowsInv, Checker
<1>3. n \in Nat /\ m \in Nat /\ WindowSize \in Nat \ {0} /\ n = IF m <= WindowSize THEN m ELSE WindowSize
  BY RowsAssumption, LenProperties DEF RowsInv
<1>4. \A k \in 1 .. n : readings[k] = seenReadings[m - n + k]
  BY DEF RowsInv
<1>5. readings' = IF n + 1 > WindowSize THEN SubSeq(r, (n + 1) - WindowSize + 1, n + 1) ELSE r
  <2>1. readings' = Windowed(r)
    BY DEF Checker
  <2>2. Len(r) = n + 1
    BY <1>1
  <2> HIDE DEF r, n
  <2> QED
    BY <2>1, <2>2 DEF Windowed
<1>6. DOMAIN bounds' = ToSet(Levels)
  BY DEF RowsInv, Checker
<1> HIDE DEF r, n, m
<1>7. \A k \in 1 .. n + 1 : r[k] = seenReadings'[m - n + k]
  <2> SUFFICES ASSUME NEW k \in 1 .. n + 1 PROVE r[k] = seenReadings'[m - n + k]
    OBVIOUS
  <2>1. CASE k = n + 1
    <3>1. m - n + k = m + 1
      BY <1>3, <2>1
    <3> QED
      BY <1>1, <1>2, <2>1, <3>1
  <2>2. CASE k # n + 1
    <3>1. k \in 1 .. n /\ m - n + k \in 1 .. m
      BY <1>3, <2>2
    <3> QED
      BY <1>1, <1>2, <1>4, <3>1
  <2> QED
    BY <2>1, <2>2
<1>8. CASE ~(n + 1 > WindowSize)
  <2>1. readings' = r /\ Len(readings') = n + 1
    BY <1>1, <1>5, <1>8
  <2>2. n = m /\ n + 1 = IF m + 1 <= WindowSize THEN m + 1 ELSE WindowSize
    BY <1>3, <1>8
  <2>3. \A k \in 1 .. n + 1 : readings'[k] = seenReadings'[(m + 1) - (n + 1) + k]
    <3> SUFFICES ASSUME NEW k \in 1 .. n + 1 PROVE readings'[k] = seenReadings'[(m + 1) - (n + 1) + k]
      OBVIOUS
    <3>1. (m + 1) - (n + 1) + k = m - n + k
      BY <1>3
    <3> QED
      BY <1>7, <2>1, <3>1
  <2> QED
    BY <1>1, <1>2, <1>6, <2>1, <2>2, <2>3 DEF RowsInv
<1>9. CASE n + 1 > WindowSize
  <2>1. n = WindowSize /\ m >= n /\ (n + 1) - WindowSize + 1 = 2
    BY <1>3, <1>9
  <2>2. readings' = SubSeq(r, 2, n + 1)
    BY <1>5, <1>9, <2>1
  <2>3. 2 \in 1 .. Len(r) + 1 /\ n + 1 \in 2 - 1 .. Len(r) /\ (n + 1) - 2 + 1 = n
    BY <1>1, <1>3, <2>1
  <2>4. /\ readings' \in Seq(0 .. MaxDelay) /\ Len(readings') = n
        /\ \A k \in 1 .. n : readings'[k] = r[k + 1]
    <3>1. /\ readings' \in Seq(0 .. MaxDelay)
          /\ Len(readings') = IF 2 <= n + 1 THEN (n + 1) - 2 + 1 ELSE 0
          /\ \A k \in 1 .. (n + 1) - 2 + 1 : readings'[k] = r[2 + k - 1]
      <4> DEFINE i == n + 1
      <4>1. 2 \in Int /\ i \in Int /\ \A k \in 2 .. i : r[k] \in 0 .. MaxDelay
        <5>1. i \in Int /\ \A k \in 2 .. i : k \in 1 .. Len(r)
          BY <1>1, <1>3, LenProperties
        <5> HIDE DEF i
        <5>2. \A k \in 1 .. Len(r) : r[k] \in 0 .. MaxDelay
          BY <1>1, ElementOfSeq
        <5> QED
          BY <5>1, <5>2
      <4> HIDE DEF i
      <4>2. /\ SubSeq(r, 2, i) \in Seq(0 .. MaxDelay)
            /\ Len(SubSeq(r, 2, i)) = IF 2 <= i THEN i - 2 + 1 ELSE 0
            /\ \A k \in 1 .. i - 2 + 1 : SubSeq(r, 2, i)[k] = r[2 + k - 1]
        BY <1>1, <4>1, SubSeqProperties
      <4> QED
        BY <2>2, <4>2 DEF i
    <3>2. 2 <= n + 1 /\ \A k \in 1 .. n : 2 + k - 1 = k + 1
      BY <1>3, <2>1
    <3> QED
      BY <2>3, <3>1, <3>2
  <2>5. n = IF m + 1 <= WindowSize THEN m + 1 ELSE WindowSize
    BY <1>3, <2>1
  <2>6. \A k \in 1 .. n : readings'[k] = seenReadings'[(m + 1) - n + k]
    <3> SUFFICES ASSUME NEW k \in 1 .. n PROVE readings'[k] = seenReadings'[(m + 1) - n + k]
      OBVIOUS
    <3>1. k + 1 \in 1 .. n + 1 /\ m - n + (k + 1) = (m + 1) - n + k
      BY <1>3
    <3> QED
      BY <1>7, <2>4, <3>1
  <2> QED
    BY <1>2, <1>6, <2>4, <2>5, <2>6 DEF RowsInv
<1> QED
  BY <1>8, <1>9

LEMMA RowsStep == RowsInv /\ [RowsNext]_rowVars => RowsInv'
<1> SUFFICES ASSUME RowsInv, [RowsNext]_rowVars PROVE RowsInv'
  OBVIOUS
<1>1. ASSUME NEW c \in RowChannels, NEW v \in RowValues, Report(c, v) PROVE RowsInv'
  BY <1>1 DEF Report, RowsInv
<1>2. CASE ClearChannels
  BY <1>2 DEF ClearChannels, RowsInv
<1>3. ASSUME NEW d \in 0 .. MaxDelay, Checker(d) PROVE RowsInv'
  BY <1>3, CheckedStep
<1>4. CASE UNCHANGED rowVars
  BY <1>4 DEF rowVars, RowsInv
<1> QED
  BY <1>1, <1>2, <1>3, <1>4 DEF RowsNext

LEMMA WorstIsKept == RowsInv => WorstDelayKept
<1> SUFFICES ASSUME RowsInv, readings # <<>>,
                    NEW k \in DOMAIN seenReadings, k > Len(seenReadings) - WindowSize
             PROVE  seenReadings[k] <= Responsiveness
  BY DEF WorstDelayKept
<1> DEFINE n == Len(readings)
           m == Len(seenReadings)
<1>1. n \in Nat /\ m \in Nat /\ WindowSize \in Nat \ {0} /\ n = IF m <= WindowSize THEN m ELSE WindowSize
  BY RowsAssumption, LenProperties DEF RowsInv
<1>2. \A j \in 1 .. n : readings[j] = seenReadings[m - n + j]
  BY DEF RowsInv
<1>3. k \in 1 .. m
  BY LenProperties DEF RowsInv
<1>4. ToSet(readings) \subseteq 0 .. MaxDelay /\ \A j \in 1 .. n : readings[j] \in ToSet(readings)
  <2>1. DOMAIN readings = 1 .. n /\ \A j \in 1 .. n : readings[j] \in 0 .. MaxDelay
    BY LenProperties DEF RowsInv
  <2> HIDE DEF n
  <2> QED
    BY <2>1 DEF ToSet
<1>5. k > m - WindowSize
  OBVIOUS
<1> HIDE DEF n, m
<1>6. k - (m - n) \in 1 .. n /\ m - n + (k - (m - n)) = k
  BY <1>1, <1>3, <1>5
<1>7. seenReadings[k] \in ToSet(readings)
  BY <1>2, <1>4, <1>6
<1> QED
  BY <1>4, <1>7, LargestOf, RowsAssumption DEF Responsiveness

(* A row has the colour of the worst bound that its value crosses, a channel *)
(* with a value is never hidden, and the metric is at least each of the last *)
(* readings (channel.js, performance.js): for any bounds, values, channels   *)
(* and windows.                                                              *)
THEOREM RowsHold == RowsSpec => []RowsShown
<1>1. RowsSpec => []RowsInv
  BY RowsStart, RowsStep, PTL DEF RowsSpec
<1>2. RowsInv => RowsShown
  BY WorstIsShown, ValuesAreShown, WorstIsKept DEF RowsShown, RowsInv
<1> QED
  BY <1>1, <1>2, PTL
=============================================================================
