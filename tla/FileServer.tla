------------------------------- MODULE FileServer -------------------------------
(***************************************************************************)
(* The file manager and the pages.  All requests are served one after the  *)
(* other by the server's task, but a request that writes goes chunk by     *)
(* chunk, and other tasks update the configuration or install a bundle in  *)
(* the meantime; they and the file manager share one lock, UpdateAccess.   *)
(* Power may go at any step.                                               *)
(***************************************************************************)
EXTENDS Naturals

CONSTANTS Files,     \* the files on the card: records [dir, name, packed]
          Versions,  \* the contents a file can be given
          Chunks,    \* the most chunks a content has
          Gone, Part \* no file; a file without the end of its content

\* What the constants must be; assumed where they have values.
FilesAssumption ==
  /\ Files \subseteq [dir : {"root", "config", "html", "bundles"}, name : {"wlan", "config", "page"},
                     packed : BOOLEAN]
  /\ Chunks \in Nat \ {0} /\ {Gone, Part} \cap Versions = {} /\ Gone # Part

VARIABLES
  card,      \* what each file holds
  update,    \* the holder of UpdateAccess: "web", "task" or "none"
  journal,   \* config.ini.journal: "none", "pending", or "unreadable" for stat
  request,   \* what the server's task is doing
  selection, \* Selection::state
  bundled,   \* what the page of the selected bundle was when it was verified, or Gone
  cut,       \* history: the files under which power or the card has failed
  answer     \* history: what the last request was told, until the next step

vars == <<card, update, journal, request, selection, bundled, cut, answer>>

Contents == Versions \union {Gone, Part}
Idle     == [does |-> "nothing"]
Nothing  == [said |-> "nothing"]
Page(d, p)  == [dir |-> d, name |-> "page", packed |-> p]
\* How a request may write the path of a file: as it is, with an empty part, ending in "/".
Forms    == {"plain", "doubled", "trailing"}

\* send_file: the packed page is preferred.
SendFile(packed, plain) == IF packed # Gone THEN packed ELSE plain

\* The page of a managed bundle was verified when it was selected.
Held(f)  == IF f \in Files THEN card[f] ELSE Gone
Verified == SendFile(Held(Page("bundles", TRUE)), Held(Page("bundles", FALSE)))
Select(s) == selection' = s /\ bundled' = IF s = "Selected" THEN Verified ELSE Gone

Init ==
  /\ card \in [Files -> Versions \union {Gone}]
  /\ update = "none" /\ journal = "none" /\ request = Idle /\ cut = {} /\ answer = Nothing
  /\ selection \in {"Legacy", "Rejected", "Selected"}
  /\ bundled = IF selection = "Selected" THEN Verified ELSE Gone

------------------------------------------------------------------------------
\* genericWriteAllowed: not the bundles, and no path with an empty part.  An ending "/" is allowed.
GenericWriteAllowed(dir, form) == dir # "bundles" /\ form # "doubled"

\* configJournalAllowsMutation, also when stat fails for another reason than a missing file.
ConfigJournalAllowsMutation == journal = "none"

\* What every request that writes begins with.
Refusal(dir, form) ==
  IF update # "none" THEN "busy"
  ELSE IF ~ConfigJournalAllowsMutation THEN "journal"
  ELSE IF ~GenericWriteAllowed(dir, form) THEN "protected"
  ELSE "none"

Tells(what) == answer' = what
Refused(dir, form) ==
  /\ request = Idle /\ Refusal(dir, form) # "none"
  /\ Tells([said |-> Refusal(dir, form)])
  /\ UNCHANGED <<card, update, journal, request, selection, bundled, cut>>

\* upload_post_handler up to fopen: a directory, a file that is there, one that is too large, or
\* one that cannot be made.
UploadRefused(f, form) ==
  /\ request = Idle /\ Refusal(f.dir, form) = "none"
  /\ Tells([said |-> "refused"])
  /\ UNCHANGED <<card, update, journal, request, selection, bundled, cut>>
UploadBegins(f, v, sum) ==
  /\ request = Idle /\ Refusal(f.dir, "plain") = "none" /\ card[f] = Gone
  /\ card' = [card EXCEPT ![f] = Part] /\ update' = "web"
  /\ request' = [does |-> "upload", file |-> f, version |-> v, sum |-> sum, left |-> Chunks]
  /\ Tells(Nothing) /\ UNCHANGED <<journal, selection, bundled, cut>>

\* A chunk has come and was written; a timeout only asks again.
Receives ==
  /\ request.does = "upload" /\ request.left > 0
  /\ request' = [request EXCEPT !.left = @ - 1]
  /\ UNCHANGED <<card, update, journal, selection, bundled, cut>> /\ Tells(Nothing)

\* unlink: nobody looks whether the file has gone.
Unlink(f) ==
  \/ card' = [card EXCEPT ![f] = Gone] /\ cut' = cut \ {f}
  \/ card[f] # Gone /\ cut' = cut \union {f} /\ UNCHANGED card

\* The connection breaks or the card takes no more: the file is closed and removed again.
UnfinishedKept == card
Unfinished == [card EXCEPT ![request.file] = Gone]
UploadFails ==
  /\ request.does = "upload" /\ request.left > 0
  /\ \/ card' = Unfinished /\ UNCHANGED cut
     \/ cut' = cut \union {request.file} /\ UNCHANGED card
  /\ update' = "none" /\ request' = Idle /\ Tells([said |-> "failed"])
  /\ UNCHANGED <<journal, selection, bundled>>

\* The file is closed, which writes what is still buffered; nobody looks at the result.  With ?md5
\* the file is read again.
UploadEnds ==
  /\ request.does = "upload" /\ request.left = 0
  /\ \E written \in {Part, request.version} :
       /\ card' = [card EXCEPT ![request.file] = written]
       /\ cut' = (IF written = Part THEN cut \union {request.file} ELSE cut)
       /\ Tells([said |-> "uploaded", file |-> request.file, version |-> request.version,
                 sum |-> IF request.sum THEN written ELSE Gone])
  /\ update' = "none" /\ request' = Idle
  /\ UNCHANGED <<journal, selection, bundled>>

\* delete_post_handler for one file: the comparison with "wlan.ini" is with a path that begins
\* with "/" and never applies.  No file is as good as a removed one.
Delete(f) ==
  /\ request = Idle /\ Refusal(f.dir, "plain") = "none"
  /\ Unlink(f)
  /\ Tells([said |-> "deleted", files |-> {f}])
  /\ UNCHANGED <<update, journal, request, selection, bundled>>

\* delete_all_in_directory: file by file, in the order of the directory; the root itself has no
\* part and is refused.
Spares(f) == f.name = "wlan"
DeleteAllBegins(dir) ==
  /\ request = Idle /\ Refusal(dir, "trailing") = "none" /\ dir # "root"
  /\ update' = "web" /\ Tells(Nothing)
  /\ request' = [does |-> "empty", dir |-> dir,
                 rest |-> {f \in Files : f.dir = dir /\ card[f] # Gone /\ ~Spares(f)}]
  /\ UNCHANGED <<card, journal, selection, bundled, cut>>
DeletesNext ==
  /\ request.does = "empty"
  /\ \E f \in request.rest : Unlink(f) /\ request' = [request EXCEPT !.rest = @ \ {f}]
  /\ UNCHANGED <<update, journal, selection, bundled>> /\ Tells(Nothing)
DeleteAllEnds ==
  /\ request.does = "empty" /\ request.rest = {}
  /\ update' = "none" /\ request' = Idle
  /\ Tells([said |-> "deleted", files |-> {f \in Files : f.dir = request.dir /\ ~Spares(f)}])
  /\ UNCHANGED <<card, journal, selection, bundled, cut>>

------------------------------------------------------------------------------
(* What is sent.                                                           *)

\* legacyPath: with a bundle, a page is that of the bundle or none; Gone where there is no file.
RuntimePath(packed) ==
  IF selection = "Rejected" THEN Gone
  ELSE Held(Page(IF selection = "Legacy" THEN "html" ELSE "bundles", packed))

\* hello_main_handler for /, where a critical error and the setup mode have pages of their own,
\* and for the page by its name.
HelloMain(status) ==
  /\ request = Idle
  /\ Tells(IF status # "normal" THEN [said |-> status]
           ELSE IF SendFile(RuntimePath(TRUE), RuntimePath(FALSE)) = Gone THEN [said |-> "404"]
           ELSE [said |-> "page", content |-> SendFile(RuntimePath(TRUE), RuntimePath(FALSE))])
  /\ UNCHANGED <<card, update, journal, request, selection, bundled, cut>>

\* download_get_handler: any file but the wlan.ini of the root, and the list of a directory, in
\* which no wlan.ini is shown.
Download(f) ==
  /\ request = Idle
  /\ Tells(IF card[f] = Gone \/ (f.dir = "root" /\ f.name = "wlan") THEN [said |-> "404"]
           ELSE [said |-> "file"])
  /\ UNCHANGED <<card, update, journal, request, selection, bundled, cut>>
Listing(dir) ==
  /\ request = Idle
  /\ Tells([said |-> "list",
            empty |-> \A f \in Files : f.dir = dir => card[f] = Gone \/ f.name = "wlan"])
  /\ UNCHANGED <<card, update, journal, request, selection, bundled, cut>>

------------------------------------------------------------------------------
\* A task takes UpdateAccess, rewrites the configuration through its journal, and gives it back.
TaskBegins ==
  /\ update = "none" /\ update' = "task"
  /\ UNCHANGED <<card, journal, request, selection, bundled, cut>> /\ Tells(Nothing)
TaskCommits ==
  /\ update = "task"
  /\ \/ journal = "none" /\ journal' = "pending" /\ UNCHANGED card
     \/ /\ journal = "pending" /\ journal' = "none"
        /\ \E f \in Files, v \in Versions :
             f.dir = "config" /\ f.name = "config" /\ card' = [card EXCEPT ![f] = v]
     \/ journal = "pending" /\ journal' = "unreadable" /\ UNCHANGED card
  /\ UNCHANGED <<update, request, selection, bundled, cut>> /\ Tells(Nothing)
TaskEnds ==
  /\ update = "task" /\ update' = "none"
  /\ UNCHANGED <<card, journal, request, selection, bundled, cut>> /\ Tells(Nothing)

\* Power is lost, with it perhaps the entry of a new file, and the next start recovers the journal
\* and selects the bundle again.
Restart ==
  /\ update' = "none" /\ journal' = "none" /\ request' = Idle /\ answer' = Nothing
  /\ \E s \in {"Legacy", "Rejected", "Selected"} : Select(s)
  /\ \/ /\ UNCHANGED card
        /\ cut' = IF request.does = "upload" THEN cut \union {request.file} ELSE cut
     \/ request.does = "upload" /\ card' = Unfinished /\ UNCHANGED cut

Next ==
  \/ \E f \in Files, form \in Forms : Refused(f.dir, form)
  \/ \E f \in Files, form \in {"plain", "trailing"} : UploadRefused(f, form)
  \/ \E f \in Files, v \in Versions, sum \in BOOLEAN : UploadBegins(f, v, sum)
  \/ Receives \/ UploadFails \/ UploadEnds
  \/ \E f \in Files : Delete(f) \/ DeleteAllBegins(f.dir) \/ Download(f) \/ Listing(f.dir)
  \/ DeletesNext \/ DeleteAllEnds
  \/ \E status \in {"error", "setup", "normal"} : HelloMain(status)
  \/ TaskBegins \/ TaskCommits \/ TaskEnds \/ Restart

Spec == Init /\ [][Next]_vars

------------------------------------------------------------------------------
\* The variables hold what their comments say.
TypeOK ==
  /\ card \in [Files -> Contents] /\ update \in {"none", "web", "task"}
  /\ journal \in {"none", "pending", "unreadable"}
  /\ request.does \in {"nothing", "upload", "empty"}
  /\ selection \in {"Legacy", "Rejected", "Selected"} /\ bundled \in Contents
  /\ cut \subseteq Files
  /\ answer.said \in {"nothing", "busy", "journal", "protected", "refused", "failed", "uploaded",
                     "deleted", "error", "setup", "404", "page", "file", "list"}

\* The configuration also changes through its journal.
Config(f) == f.dir = "config" /\ f.name = "config"

\* What the file manager says of the card is so.  A file lacks its end only while it is uploaded,
\* or when power or the card failed under it; the sum that is returned is that of the file; what
\* was reported as removed is gone, unless the card failed under it; and with a bundle the page is
\* the one that was verified, whatever has been uploaded and removed since (upload_post_handler,
\* delete_post_handler, send_file).
AnswersTrue ==
  /\ \A f \in Files : card[f] = Part =>
       f \in cut \/ (request.does = "upload" /\ request.file = f)
  /\ answer.said = "uploaded" /\ answer.sum # Gone => card[answer.file] = answer.sum
  /\ answer.said = "deleted" => \A f \in answer.files : card[f] = Gone \/ f \in cut
  /\ answer.said = "page" /\ selection # "Legacy" => selection = "Selected" /\ answer.content = bundled

\* No request changes a file while a journal or another task owns the card, nor a file of a
\* bundle; a file with its whole content is removed before its name is used again; and emptying a
\* directory leaves wlan.ini (configJournalAllowsMutation, genericWriteAllowed,
\* delete_all_in_directory).
CardStep ==
  \A f \in Files : card'[f] # card[f] =>
    /\ f.dir # "bundles"
    /\ (Config(f) /\ update = "task") \/ (journal = "none" /\ update # "task")
    /\ card[f] \in Versions => card'[f] = Gone \/ (Config(f) /\ update = "task")
    /\ request.does = "empty" => f.name # "wlan"
CardKept == [][CardStep]_card
FilesTrue == []AnswersTrue /\ CardKept

------------------------------------------------------------------------------
(* The inductive invariant                                                 *)

Requests == {Idle} \union
  [does : {"upload"}, file : Files, version : Versions, sum : BOOLEAN, left : 0..Chunks] \union
  [does : {"empty"}, dir : {"root", "config", "html"}, rest : SUBSET Files]

\* A request holds the lock as long as it writes, and began without a journal.
LockHeld ==
  /\ request \in Requests
  /\ update = "web" <=> request # Idle
  /\ request # Idle => journal = "none"

\* An upload has begun a file that was not there; what is left of a directory is yet to go.
RequestSound ==
  /\ request.does = "upload" => request.file.dir # "bundles" /\ card[request.file] = Part
  /\ request.does = "empty" => \A f \in Files : f.dir = request.dir /\ ~Spares(f) =>
                                  f \in request.rest \/ card[f] = Gone \/ f \in cut
  /\ request.does = "empty" => \A f \in request.rest : f.dir = request.dir /\ ~Spares(f)

\* The bundle's page is as it was verified.
BundleStands == selection = "Selected" => bundled = Verified

Inductive == TypeOK /\ AnswersTrue /\ LockHeld /\ RequestSound /\ BundleStands
==================================================================================
