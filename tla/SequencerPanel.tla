--------------------------- MODULE SequencerPanel ---------------------------
(* The sequence editor of the web pages (addons/sequencer): the text is       *)
(* checked by the server whenever it settles (the linter), is uplinked under  *)
(* a name, and what was uplinked last can be run.  All checks write one       *)
(* temporary file of the server, "._temp.seq", and no lock keeps a second     *)
(* check from replacing or removing it under the first.                       *)
EXTENDS Naturals, Sequences, FiniteSets

CONSTANTS Texts,        \* texts of the editor
          ErrorLine,    \* the line of its error for each text, 0 if it compiles
          LineCount,    \* the lines of each text
          SeqNames, GoodNames, \* names of the name box; those ending in .seq
          SeqFolders,
          MaxVersions   \* bound: edits

NoneYet == "nothing"
ASSUME TextAssumption == /\ Texts # {} /\ NoneYet \notin Texts /\ GoodNames \subseteq SeqNames
                         /\ \A t \in Texts : LineCount[t] \in Nat /\ ErrorLine[t] \in 0..LineCount[t]
                         /\ MaxVersions \in Nat

NoPath == [name |-> NoneYet, folder |-> NoneYet]
NoJob == [kind |-> NoneYet, path |-> NoPath, text |-> NoneYet, answer |-> NoneYet]
VARIABLES code,         \* the editor's document: its text and its version
          lintTimer,    \* set: the linter will run when the text settles
          checks,       \* the requests of the linter
          marked,       \* the lines marked in the editor (0: a note on line 1)
          tempFile,     \* the text in ._temp.seq, or NoneYet
          seqBox,       \* the name and folder boxes
          seqActive,    \* the lock of the panel
          lastUplinked, \* the path Run sends
          sequenceJob,  \* the uplink or run request, or NoJob
          uplinkedPaths,
          alert         \* what the output boxes show
VARIABLES spoiled,      \* ghost: a check read the file of another, or no answer of the server's own came
          lastVerified  \* ghost: lastUplinked was set by an answer of an uplink under that name
sequencerVars == <<code, lintTimer, checks, marked, tempFile, seqBox, seqActive, lastUplinked,
                   sequenceJob, uplinkedPaths, alert, spoiled, lastVerified>>
lintVars == <<lintTimer, checks, marked, tempFile, spoiled>>
panelVars == <<seqBox, seqActive, lastUplinked, sequenceJob, uplinkedPaths, alert, lastVerified>>

SequencerInit ==
  /\ code \in [text : Texts, version : {0}]
  /\ lintTimer = TRUE /\ checks = {} /\ marked = {} /\ tempFile = NoneYet
  /\ seqBox \in [name : SeqNames, folder : SeqFolders]
  /\ seqActive = FALSE /\ lastUplinked = NoPath /\ sequenceJob = NoJob
  /\ uplinkedPaths = {} /\ alert = "none"
  /\ spoiled = FALSE /\ lastVerified = FALSE
----------------------------------------------------------------------------
(* Edits.  A change of the document keeps the marks (mapped) and sets the     *)
(* linter's timer unless it is set; setSequence loads a file at any time.     *)
Relint == TRUE
Changed(t) == /\ code.version < MaxVersions
              /\ code' = [text |-> t, version |-> code.version + 1]
              /\ lintTimer' = Relint
              /\ UNCHANGED <<checks, marked, tempFile, spoiled>>
EditText(t) == t # code.text /\ Changed(t) /\ UNCHANGED panelVars
SetSequence(n, t) ==
  /\ Changed(t)
  /\ seqBox' = [seqBox EXCEPT !.name = n]
  /\ UNCHANGED <<seqActive, lastUplinked, sequenceJob, uplinkedPaths, alert, lastVerified>>
FillBox(box) ==
  /\ ~seqActive /\ box # seqBox
  /\ seqBox' = box
  /\ UNCHANGED <<code, lintVars, seqActive, lastUplinked, sequenceJob, uplinkedPaths, alert,
                 lastVerified>>

(* The linter's run: the request carries the text, the version stays behind   *)
(* in the closure.                                                            *)
RunLinter ==
  /\ lintTimer
  /\ lintTimer' = FALSE
  /\ checks' = checks \cup {[sent |-> code, stage |-> "sent", found |-> {}]}
  /\ UNCHANGED <<code, marked, tempFile, spoiled, panelVars>>

(* SequenceCompiler.put for a check, one step per access to the shared file:  *)
(* write, compile, remove.  A file that is gone is an error without a line.   *)
Errors(text) == IF text = NoneYet THEN {0} ELSE {ErrorLine[text]} \ {0}
Staged(c, stage, found) == (checks \ {c}) \cup {[c EXCEPT !.stage = stage, !.found = found]}
Shared(c) == \E d \in checks \ {c} : d.stage \in {"written", "compiled"}
WriteTemp(c) ==
  /\ c \in checks /\ c.stage = "sent"
  /\ tempFile' = c.sent.text
  /\ checks' = Staged(c, "written", {})
  /\ spoiled' = (spoiled \/ Shared(c))
  /\ UNCHANGED <<code, lintTimer, marked, panelVars>>
Compile(c) ==
  /\ c \in checks /\ c.stage = "written"
  /\ checks' = Staged(c, "compiled", Errors(tempFile))
  /\ UNCHANGED <<code, lintTimer, marked, tempFile, spoiled, panelVars>>
(* An error aborts the request before the removal.                            *)
RemoveTemp(c) ==
  /\ c \in checks /\ c.stage = "compiled"
  /\ tempFile' = IF c.found = {} THEN NoneYet ELSE tempFile
  /\ checks' = Staged(c, "answered", c.found)
  /\ UNCHANGED <<code, lintTimer, marked, spoiled, panelVars>>
(* The server is down, or answers with a bare text: no error is read from it. *)
NoVerdict(c) ==
  /\ c \in checks /\ c.stage = "sent"
  /\ checks' = Staged(c, "answered", {})
  /\ spoiled' = TRUE
  /\ UNCHANGED <<code, lintTimer, marked, tempFile, panelVars>>

(* processResponse throws on a line the document does not have, and the catch *)
(* handler reads no errors out of that; then the linter's own test: the       *)
(* document must be the one the request was made for.                         *)
Localized(found) == IF \E l \in found : l > LineCount[code.text] THEN {} ELSE found
BugAnyVersion(c) == TRUE
StillShown(c) == c.sent.version = code.version
LintAnswer(c) ==
  /\ c \in checks /\ c.stage = "answered"
  /\ checks' = checks \ {c}
  /\ marked' = IF StillShown(c) THEN Localized(c.found) ELSE marked
  /\ UNCHANGED <<code, lintTimer, tempFile, spoiled, panelVars>>
----------------------------------------------------------------------------
(* sendSequence: the folder is kept for the answer, the name is not.          *)
SendSequence ==
  /\ ~seqActive
  /\ seqActive' = TRUE /\ alert' = "none"
  /\ sequenceJob' = [kind |-> "uplink", path |-> seqBox, text |-> code.text, answer |-> "none"]
  /\ UNCHANGED <<code, lintVars, seqBox, lastUplinked, uplinkedPaths, lastVerified>>

(* The server refuses a name without .seq, compiles, and enqueues the file.   *)
Verdict(job) == CASE job.path.name \notin GoodNames -> "error"
                  [] ErrorLine[job.text] # 0        -> "validation"
                  [] OTHER                          -> "ok"
ServeUplink ==
  /\ sequenceJob.kind = "uplink" /\ sequenceJob.answer = "none"
  /\ sequenceJob' = [sequenceJob EXCEPT !.answer = Verdict(sequenceJob)]
  /\ uplinkedPaths' = IF Verdict(sequenceJob) = "ok" THEN uplinkedPaths \cup {sequenceJob.path}
                      ELSE uplinkedPaths
  /\ UNCHANGED <<code, lintVars, seqBox, seqActive, lastUplinked, alert, lastVerified>>
(* The server is down or fails (500): the answer has no error and no type.    *)
ServeNothing ==
  /\ sequenceJob.answer = "none"
  /\ sequenceJob' = [sequenceJob EXCEPT !.answer = "bare"]
  /\ UNCHANGED <<code, lintVars, seqBox, seqActive, lastUplinked, uplinkedPaths, alert,
                 lastVerified>>

TakenAsUplinked(answer) == answer \in {"ok", "bare"}
SendAnswer ==
  /\ sequenceJob.kind = "uplink" /\ sequenceJob.answer # "none"
  /\ sequenceJob' = NoJob /\ seqActive' = FALSE
  /\ alert' = IF sequenceJob.answer = "error" THEN "error" ELSE "validation"
  /\ IF TakenAsUplinked(sequenceJob.answer)
     THEN /\ lastUplinked' = [name |-> seqBox.name, folder |-> sequenceJob.path.folder]
          /\ lastVerified' = (sequenceJob.answer # "bare" /\ seqBox.name = sequenceJob.path.name)
     ELSE UNCHANGED <<lastUplinked, lastVerified>>
  /\ UNCHANGED <<code, lintVars, seqBox, uplinkedPaths>>

(* runSequence, when the dictionary has a CS_RUN command.                     *)
Locked == TRUE
RunSequence ==
  /\ ~seqActive /\ lastUplinked # NoPath
  /\ seqActive' = Locked /\ alert' = "none"
  /\ sequenceJob' = [kind |-> "run", path |-> lastUplinked, text |-> NoneYet, answer |-> "none"]
  /\ UNCHANGED <<code, lintVars, seqBox, lastUplinked, uplinkedPaths, lastVerified>>
ServeRun ==
  /\ sequenceJob.kind = "run" /\ sequenceJob.answer = "none"
  /\ sequenceJob' = [sequenceJob EXCEPT !.answer = "ok"]
  /\ UNCHANGED <<code, lintVars, seqBox, seqActive, lastUplinked, uplinkedPaths, alert, lastVerified>>
RunAnswer ==
  /\ sequenceJob.kind = "run" /\ sequenceJob.answer # "none"
  /\ sequenceJob' = NoJob /\ seqActive' = FALSE
  /\ alert' = IF sequenceJob.answer = "ok" THEN "sent" ELSE "error"
  /\ UNCHANGED <<code, lintVars, seqBox, lastUplinked, uplinkedPaths, lastVerified>>

Edits == \/ \E t \in Texts : EditText(t)
         \/ \E n \in GoodNames, t \in Texts : SetSequence(n, t)
LintNext ==
  \/ RunLinter
  \/ \E c \in checks : WriteTemp(c) \/ Compile(c) \/ RemoveTemp(c) \/ NoVerdict(c) \/ LintAnswer(c)
PanelNext ==
  \/ \E box \in [name : SeqNames, folder : SeqFolders] : FillBox(box)
  \/ SendSequence \/ ServeUplink \/ ServeNothing \/ SendAnswer
  \/ RunSequence \/ ServeRun \/ RunAnswer
SequencerNext == Edits \/ LintNext \/ PanelNext
SequencerSpec == SequencerInit /\ [][SequencerNext]_sequencerVars
----------------------------------------------------------------------------
Paths == [name : SeqNames, folder : SeqFolders]
(* Every variable keeps its type, and no request of the linter is for a       *)
(* version of the document that never was (addon.js, lintPlugin).             *)
SequencerTypeOK ==
  /\ code \in [text : Texts, version : 0..MaxVersions]
  /\ lintTimer \in BOOLEAN /\ marked \subseteq Nat
  /\ \A c \in checks : c.sent.version <= code.version
  /\ tempFile \in Texts \cup {NoneYet} /\ seqBox \in Paths
  /\ lastUplinked \in Paths \cup {NoPath} /\ uplinkedPaths \subseteq Paths

(* The lock holds exactly while an uplink or a run is under way: none is ever *)
(* sent over another, and the panel never stays locked (addon.js sendSequence,*)
(* runSequence).                                                              *)
LockHeld == seqActive <=> sequenceJob # NoJob

(* When nothing is pending the marks are those of the text that is shown,     *)
(* unless two checks shared the temporary file or the server failed to answer *)
(* (lintPlugin run, lint.js processResponse, sequence.py put).                *)
MarksSettle ==
  (~lintTimer /\ checks = {} /\ ~spoiled) => marked = Errors(code.text)

(* What Run sends was enqueued for uplink, unless the name box changed while  *)
(* the uplink was under way or the answer said nothing (addon.js:116-119).    *)
RunsUplinked == lastVerified => lastUplinked \in uplinkedPaths

(* What the panel marks, sends and runs is the sequence that is on it.        *)
SequenceAsShown == SequencerTypeOK /\ LockHeld /\ MarksSettle /\ RunsUplinked
=============================================================================
