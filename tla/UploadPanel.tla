----------------------------- MODULE UploadPanel -----------------------------
(* The uplink panel of the web pages (vue-support/uplink.js, the file rows of *)
(* fptable.js, addons/packet-selection) and the two requests of one upload    *)
(* (uploader.js): a PUT that sets the destination of the whole server, then a *)
(* POST with the files.  Requests of all pages are served in any order.       *)
EXTENDS Naturals, Sequences, SequencesExt, FiniteSets

CONSTANTS UploadPages, Files, Folders, NoFile

ASSUME UploadAssumption == NoFile \notin Files

VARIABLES curated,     \* the files selected on each page, in order
          editFile,    \* the file whose packets are being chosen, per page
          packets,     \* the packets chosen for each file
          folder,      \* the destination box of each page
          uploads,     \* the uploads under way
          serverFolder,
          uplinks,     \* what the server handed to the uplinker
          shown        \* pages that show an error
VARIABLES lost         \* ghost: the files of uploads that failed
uploadVars == <<curated, editFile, packets, folder, uploads, serverFolder, uplinks, shown, lost>>

UploadInit ==
  /\ curated = [p \in UploadPages |-> <<>>] /\ editFile = [p \in UploadPages |-> NoFile]
  /\ packets = [f \in Files |-> {}]
  /\ folder \in [UploadPages -> Folders]
  /\ uploads = {} /\ serverFolder \in Folders /\ uplinks = <<>> /\ shown = {} /\ lost = {}
----------------------------------------------------------------------------
FilesOf(s) == ToSet(s)
InFlight == UNION {FilesOf(u.files) : u \in uploads}
Enqueued == {uplinks[i].file : i \in DOMAIN uplinks}
Handled == (UNION {FilesOf(curated[p]) : p \in UploadPages}) \cup InFlight \cup Enqueued \cup lost

(* handleFiles, and the box above it.                                         *)
HandleFile(p, f) ==
  /\ f \notin Handled
  /\ curated' = [curated EXCEPT ![p] = Append(@, f)]
  /\ UNCHANGED <<editFile, packets, folder, uploads, serverFolder, uplinks, shown, lost>>
TypeFolder(p, d) ==
  /\ d # folder[p]
  /\ folder' = [folder EXCEPT ![p] = d]
  /\ UNCHANGED <<curated, editFile, packets, uploads, serverFolder, uplinks, shown, lost>>

(* fileAction on a curated row: Remove (the watcher of the list closes the    *)
(* packet editor of a file that left it) and Select Packets.                  *)
RemoveFile(p, f) ==
  /\ \E i \in DOMAIN curated[p] :
       curated[p][i] = f /\ curated' = [curated EXCEPT ![p] = RemoveAt(@, i)]
  /\ editFile' = [editFile EXCEPT ![p] = IF @ = f THEN NoFile ELSE @]
  /\ packets' = [packets EXCEPT ![f] = {}]
  /\ UNCHANGED <<folder, uploads, serverFolder, uplinks, shown, lost>>
SelectPackets(p, f) ==
  /\ f \in FilesOf(curated[p])
  /\ editFile' = [editFile EXCEPT ![p] = f]
  /\ UNCHANGED <<curated, packets, folder, uploads, serverFolder, uplinks, shown, lost>>
(* save and packetsSelected: only whole positive numbers pass the check.      *)
Numbers(tokens) == tokens \subseteq Nat \ {0}
PacketsSelected(p, tokens) ==
  /\ editFile[p] # NoFile
  /\ Numbers(tokens)
  /\ packets' = [packets EXCEPT ![editFile[p]] = tokens]
  /\ editFile' = [editFile EXCEPT ![p] = NoFile]
  /\ UNCHANGED <<curated, folder, uploads, serverFolder, uplinks, shown, lost>>

(* uplinkFiles and upload: the list is emptied before anything is sent.       *)
Emptied(p) == [curated EXCEPT ![p] = <<>>]
EditClosed(p) == [editFile EXCEPT ![p] = NoFile]
UplinkFiles(p) ==
  /\ curated[p] # <<>>
  /\ uploads' = uploads \cup {[page |-> p, files |-> curated[p], folder |-> folder[p],
                               stage |-> "put", clean |-> TRUE,
                               meant |-> [f \in FilesOf(curated[p]) |-> packets[f]]]}
  /\ curated' = Emptied(p)
  /\ editFile' = EditClosed(p)
  /\ shown' = shown \ {p}
  /\ UNCHANGED <<packets, folder, serverFolder, uplinks, lost>>

(* The destination is set for everyone; uploads between their own PUT and     *)
(* POST are no longer clean.                                                  *)
Advance(u, stage) == (uploads \ {u}) \cup {[u EXCEPT !.stage = stage]}
ServeDestination(u) ==
  /\ u \in uploads /\ u.stage = "put"
  /\ serverFolder' = u.folder
  /\ uploads' = {IF v = u THEN [u EXCEPT !.stage = "answered"]
                 ELSE IF v.stage \in {"answered", "post"} THEN [v EXCEPT !.clean = FALSE] ELSE v
                 : v \in uploads}
  /\ UNCHANGED <<curated, editFile, packets, folder, uplinks, shown, lost>>

(* The answer to the PUT sends the POST.                                      *)
PostAfter == {"answered"}
SendFiles(u) ==
  /\ u \in uploads /\ u.stage \in PostAfter
  /\ uploads' = Advance(u, "post")
  /\ UNCHANGED <<curated, editFile, packets, folder, serverFolder, uplinks, shown, lost>>
ServeFiles(u) ==
  /\ u \in uploads /\ u.stage = "post"
  /\ uploads' = uploads \ {u}
  /\ uplinks' = uplinks \o [i \in DOMAIN u.files |->
                             [file |-> u.files[i], folder |-> serverFolder,
                              packets |-> packets[u.files[i]],
                              asked |-> u.folder, meant |-> u.meant[u.files[i]], clean |-> u.clean]]
  /\ UNCHANGED <<curated, editFile, packets, folder, serverFolder, shown, lost>>

(* Either request may fail: only a failed POST reaches the page, a failed PUT *)
(* has no handler.                                                            *)
BugSwallow(u) == shown
ErrorShown(u) == IF u.stage = "post" THEN shown \cup {u.page} ELSE shown
RequestFails(u) ==
  /\ u \in uploads /\ u.stage \in {"put", "post"}
  /\ uploads' = uploads \ {u}
  /\ lost' = lost \cup FilesOf(u.files)
  /\ shown' = ErrorShown(u)
  /\ UNCHANGED <<curated, editFile, packets, folder, serverFolder, uplinks>>
DismissAlert(p) ==
  /\ p \in shown
  /\ shown' = shown \ {p}
  /\ UNCHANGED <<curated, editFile, packets, folder, uploads, serverFolder, uplinks, lost>>

UploadNext ==
  \/ \E p \in UploadPages :
       \/ UplinkFiles(p) \/ DismissAlert(p)
       \/ \E f \in Files : HandleFile(p, f) \/ RemoveFile(p, f) \/ SelectPackets(p, f)
       \/ \E d \in Folders : TypeFolder(p, d)
       \/ \E tokens \in {{1}, {0}} : PacketsSelected(p, tokens)
  \/ \E u \in uploads : ServeDestination(u) \/ SendFiles(u) \/ ServeFiles(u) \/ RequestFails(u)

UploadSpec == UploadInit /\ [][UploadNext]_uploadVars
----------------------------------------------------------------------------
UploadTypeOK ==
  /\ \A p \in UploadPages : FilesOf(curated[p]) \subseteq Files /\ editFile[p] \in Files \cup {NoFile}
  /\ \A p \in UploadPages : editFile[p] # NoFile => editFile[p] \in FilesOf(curated[p])
  /\ packets \in [Files -> SUBSET {1}]
  /\ \A u \in uploads : u.stage \in {"put", "answered", "post"}

(* "Failure to do this will result in duplicate entries" (uploader.js:34): a  *)
(* file is in one place only, however often the button is pressed: curated on *)
(* one page, under way in one upload, queued once, or lost.                   *)
OnePlace ==
  LET places == [f \in Files |->
        Cardinality({p \in UploadPages : f \in FilesOf(curated[p])})
        + Cardinality({u \in uploads : f \in FilesOf(u.files)})
        + Cardinality({i \in DOMAIN uplinks : uplinks[i].file = f})
        + (IF f \in lost THEN 1 ELSE 0)]
  IN \A f \in Files : places[f] <= 1

(* A file goes to the uplinker with the packets that were chosen for it when  *)
(* the upload began, and to the folder that was asked for unless another page *)
(* set the folder between the two requests.                                   *)
AsChosen ==
  \A i \in DOMAIN uplinks :
    /\ uplinks[i].packets = uplinks[i].meant
    /\ uplinks[i].clean => uplinks[i].folder = uplinks[i].asked

(* A page whose POST failed says so: until it is dismissed or the next upload *)
(* begins, the error stays.                                                   *)
FailureShown ==
  [][\A u \in uploads :
       u.stage = "post" /\ u \notin uploads' /\ FilesOf(u.files) \subseteq lost'
         => u.page \in shown']_uploadVars

(* The button of the uplink panel: each file once, as it was chosen, and no   *)
(* failure of a POST unseen (uplink.js, uploader.js).                         *)
UploadedAsChosen == []UploadTypeOK /\ []OnePlace /\ []AsChosen /\ FailureShown
=============================================================================
