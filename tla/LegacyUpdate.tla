----------------------------- MODULE LegacyUpdate -----------------------------
(***************************************************************************)
(* The update of a build that is not managed (METER_REQUIRE_BUNDLE is not  *)
(* defined): a package in /sdcard/firmware is named in update.txt, and the *)
(* next start takes it up.  It is extracted beside the web interface, the  *)
(* interface is replaced by renaming, the firmware is written to the other *)
(* slot and selected.  Every step may fail, a card may keep what is to be  *)
(* removed, and power may go at each step.                                 *)
(***************************************************************************)
EXTENDS Naturals, FiniteSets

CONSTANTS Packages,  \* what may be uploaded
          None

\* What the constants must be; assumed where they have values.
LegacyAssumption ==
  /\ \A p \in Packages : p.firmware \in {"sound", "damaged"}
  /\ None \notin Packages
  /\ None \notin {"old", "new", "partial", "whole", "sound", "damaged", "empty", "named"}

VARIABLES
  package,  \* the package in /sdcard/firmware, or None
  marker,   \* update.txt: None, "empty" or "named"
  html,     \* the interface in /sdcard/html: "old", "new", "partial" or None
  tmp,      \* html_tmp
  aside,    \* html_old
  image,    \* firmware.bin as extracted: "sound", "damaged" or None
  flash,    \* flash[s]: the application in slot s is sound
  boot,     \* the slot that the OTA data selects
  running,  \* the slot that runs
  at,       \* what the start is about to do, or "app"
  todo,     \* the parts of the package that are not extracted yet
  network,  \* network[f]: the neural network in folder f, "whole", "partial" or None
  copying,  \* the copy of an uploaded network to config: what comes next
  asked,    \* history: the update.txt that is there is "new", or was taken up by a start and
            \* "kept" by the card; otherwise "no"
  unkept    \* history: the interface was replaced by hand, by nothing, or without a rename
            \* that failed or the power cut short; or a network by one that is not there, or
            \* not copied whole

card    == <<package, marker, html, tmp, aside, image, network>>
folders == <<html, tmp, aside>>
slots   == <<flash, boot, running>>
vars    == <<card, slots, at, todo, copying, asked, unkept>>

Slots   == {0, 1}
Target  == 1 - running
Steps   == {"check", "update", "clear", "clear_old", "extract", "aside", "place", "drop",
            "write", "select", "app"}

\* A package is an archive with its parts, or a firmware alone.
Archive(package_) == package_.kind = "zip"

Init ==
  /\ package = None /\ marker = None /\ html = "old" /\ tmp = None /\ aside = None /\ image = None
  /\ network = [firmware |-> None, config |-> "whole"]
  /\ flash = [s \in Slots |-> s = 0] /\ boot = 0 /\ running = 0
  /\ at = "check" /\ todo = {} /\ copying = "no" /\ asked = "no" /\ unkept = FALSE

------------------------------------------------------------------------------
(* handler_ota_update, while the application runs *)

Served == at = "app" /\ copying = "no"

Upload ==
  /\ Served /\ package' \in Packages \union {None}
  /\ UNCHANGED <<marker, folders, image, network, slots, at, todo, copying, asked, unkept>>

\* unlink: the card may keep a file; nobody looks.
Unlinked(file_) == {file_, None}

\* emptyfirmwaredir: what an update has extracted goes as well.
Empty ==
  /\ Served
  /\ package' \in Unlinked(package) /\ image' \in Unlinked(image)
  /\ \E left \in Unlinked(network.firmware) :
       /\ network' = [network EXCEPT !.firmware = left]
       /\ unkept' = (unkept \/ "whole" \notin {left, network.config})
  /\ UNCHANGED <<marker, folders, slots, at, todo, copying, asked>>

\* update.txt is there before its line is.
MarkBegins ==
  /\ Served /\ marker' = "empty" /\ copying' = "marker" /\ asked' = "new"
  /\ UNCHANGED <<package, folders, image, network, slots, at, todo, unkept>>

\* The card may be full.
Mark ==
  /\ copying = "marker"
  /\ marker' \in {"named", "empty"} /\ copying' = "no"
  /\ UNCHANGED <<package, folders, image, network, slots, at, todo, asked, unkept>>

UploadNetwork ==
  /\ Served /\ network' = [network EXCEPT !.firmware = "whole"]
  /\ UNCHANGED <<package, marker, folders, image, slots, at, todo, copying, asked, unkept>>

\* The network in use is deleted first, whether there is another or not.
CopyNetwork ==
  /\ Served
  /\ \E left \in Unlinked(network.config) :
       /\ network' = [network EXCEPT !.config = left]
       /\ IF network.firmware = None THEN copying' = "no" /\ unkept' = (unkept \/ left # "whole")
          ELSE copying' = "copy" /\ UNCHANGED unkept
  /\ UNCHANGED <<package, marker, folders, image, slots, at, todo, asked>>

CopyBegins ==
  /\ copying = "copy"
  /\ network' = [network EXCEPT !.config = "partial"] /\ copying' = "copied"
  /\ UNCHANGED <<package, marker, folders, image, slots, at, todo, asked, unkept>>

\* Nobody looks whether all of it was written.
CopyEnds ==
  /\ copying = "copied" /\ copying' = "delete"
  /\ \/ network' = [network EXCEPT !.config = "whole"] /\ UNCHANGED unkept
     \/ unkept' = TRUE /\ UNCHANGED network
  /\ UNCHANGED <<package, marker, folders, image, slots, at, todo, asked>>

DeleteCopied ==
  /\ copying = "delete"
  /\ \E left \in Unlinked(network.firmware) : network' = [network EXCEPT !.firmware = left]
  /\ copying' = "no"
  /\ UNCHANGED <<package, marker, folders, image, slots, at, todo, asked, unkept>>

\* unziphtml: the interface is emptied and filled again.
UnzipHtml ==
  /\ Served /\ html # None /\ html' \in {"partial", "new"} /\ unkept' = TRUE
  /\ UNCHANGED <<package, marker, tmp, aside, image, network, slots, at, todo, copying, asked>>

------------------------------------------------------------------------------
(* CheckUpdate, performStartupUpdate *)

Starting == at # "app"
Go(step) == at' = step

\* The existing firmware goes on.
Give_up == Go("app")

\* There is no update.txt, or it does not open.
NoUpdate ==
  /\ at = "check"
  /\ Give_up
  /\ UNCHANGED <<card, slots, todo, copying, asked, unkept>>

\* update.txt is deleted before anything is tried, or kept by the card, and nobody looks; what
\* it names is kept in memory, if it could be read.
CheckUpdate ==
  /\ at = "check" /\ marker # None
  /\ marker' \in Unlinked(marker)
  /\ asked' = (IF marker' = None THEN "no" ELSE "kept")
  /\ \/ marker = "named" /\ Go("update")
     \/ Give_up
  /\ UNCHANGED <<package, folders, image, network, slots, todo, copying, unkept>>

\* An archive is opened when the folders have been cleared, and may be gone.
PerformStartupUpdate ==
  /\ at = "update"
  /\ \/ package = None /\ Go("clear") /\ todo' = {}
     \/ package # None /\ Archive(package) /\ Go("clear") /\ todo' = package.parts
     \/ package # None /\ ~Archive(package) /\ Go("write") /\ todo' = {}
  /\ UNCHANGED <<card, slots, copying, asked, unkept>>

\* There is no such firmware, no task for it, or a file does not open, holds what it may not,
\* or cannot be written.
StepFails ==
  /\ at \in {"update", "extract", "write", "select"}
  /\ Give_up /\ todo' = {}
  /\ UNCHANGED <<card, slots, copying, asked, unkept>>

\* removeFolder: some files may not go, and the folder with them.
Removed(folder) == {None} \union (IF folder = None THEN {} ELSE {folder, "partial"})

ClearTmp ==
  /\ at = "clear"
  /\ tmp' \in Removed(tmp) /\ Go("clear_old")
  /\ UNCHANGED <<package, marker, html, aside, image, network, slots, todo, copying, asked, unkept>>

ClearOld ==
  /\ at = "clear_old"
  /\ aside' \in Removed(aside) /\ Go("extract")
  /\ UNCHANGED <<package, marker, html, tmp, image, network, slots, todo, copying, asked, unkept>>

(* unzip_new: the entries are extracted one by one, in any order; each is  *)
(* written beside its place and renamed.                                   *)

Extract(part) ==
  /\ at = "extract" /\ package # None /\ part \in todo
  /\ todo' = todo \ {part}
  /\ IF part = "firmware"
     THEN image' = package.firmware /\ UNCHANGED tmp
     ELSE tmp' = (IF todo \subseteq {part, "firmware"} THEN "new" ELSE "partial") /\ UNCHANGED image
  /\ UNCHANGED <<package, marker, html, aside, network, slots, at, copying, asked, unkept>>

\* Mutant: the interface is put in place without a look at how the extraction has ended.
ExtractedAnyhow ==
  /\ at = "extract" /\ package # None
  /\ Go("aside")
  /\ UNCHANGED <<card, slots, todo, copying, asked, unkept>>

Extracted ==
  /\ at = "extract" /\ package # None /\ todo = {}
  /\ IF "firmware" \in package.parts THEN Go("aside") ELSE Give_up
  /\ UNCHANGED <<card, slots, todo, copying, asked, unkept>>

\* RenameFolder does nothing when its target is there; its result is not looked at.
SetAside ==
  /\ at = "aside" /\ Go("place")
  /\ \/ html # None /\ aside = None /\ aside' = html /\ html' = None
     \/ UNCHANGED <<html, aside>>
  /\ UNCHANGED <<package, marker, tmp, image, network, slots, todo, copying, asked, unkept>>

Place ==
  /\ at = "place" /\ Go("drop")
  /\ \/ tmp # None /\ html = None /\ html' = tmp /\ tmp' = None
     \/ UNCHANGED <<html, tmp>>
  /\ unkept' = (unkept \/ html' = None \/ package.parts = {"firmware"})
  /\ UNCHANGED <<package, marker, aside, image, network, slots, todo, copying, asked>>

DropOld ==
  /\ at = "drop" /\ Go("write")
  /\ aside' \in Removed(aside)
  /\ UNCHANGED <<package, marker, html, tmp, image, network, slots, todo, copying, asked, unkept>>

(* ota_update_task *)

Firmware == IF Archive(package) THEN image ELSE package.firmware

\* The slot that runs must be the one that boots.  The other is erased, and written whole.
Write ==
  /\ at = "write" /\ boot = running /\ Firmware # None
  /\ flash' = [flash EXCEPT ![Target] = FALSE] /\ Go("select")
  /\ UNCHANGED <<card, boot, running, todo, copying, asked, unkept>>

\* A written image is validated, and selected, which may fail.  Reading the selection back may
\* fail after it.
Select ==
  /\ at = "select" /\ Firmware = "sound"
  /\ flash' = [flash EXCEPT ![Target] = TRUE]
  /\ \/ boot' = Target /\ running' = Target /\ Go("check")
     \/ boot' = Target /\ Give_up /\ UNCHANGED running
     \/ Give_up /\ UNCHANGED <<boot, running>>
  /\ UNCHANGED <<card, todo, copying, asked, unkept>>

PowerLoss ==
  /\ Go("check") /\ running' = boot /\ todo' = {} /\ copying' = "no"
  /\ unkept' = (unkept \/ html = None)
  /\ UNCHANGED <<card, flash, boot, asked>>

StartStep ==
  \/ NoUpdate \/ CheckUpdate \/ PerformStartupUpdate \/ StepFails \/ ClearTmp \/ ClearOld
  \/ \E part \in todo : Extract(part)
  \/ Extracted \/ SetAside \/ Place \/ DropOld \/ Write \/ Select

Next ==
  \/ Upload \/ Empty \/ MarkBegins \/ Mark \/ UploadNetwork \/ CopyNetwork \/ CopyBegins
  \/ CopyEnds \/ DeleteCopied \/ UnzipHtml \/ StartStep \/ PowerLoss

Spec == Init /\ [][Next]_vars

------------------------------------------------------------------------------
TypeOK ==
  /\ package \in Packages \union {None} /\ marker \in {None, "empty", "named"}
  /\ {html, tmp, aside} \subseteq {"old", "new", "partial", None}
  /\ image \in {"sound", "damaged", None} /\ flash \in [Slots -> BOOLEAN]
  /\ boot \in Slots /\ running \in Slots /\ at \in Steps
  /\ network \in [{"firmware", "config"} -> {"whole", "partial", None}]
  /\ copying \in {"no", "marker", "copy", "copied", "delete"} /\ unkept \in BOOLEAN
  /\ asked \in {"no", "new", "kept"}

\* No update is tried twice for one request, however the first attempt ended: what a start has
\* taken up is gone, unless the card kept it.  What boots is an application that has been
\* validated.
TriedOnce ==
  /\ marker # None => asked # "no"
  /\ at \notin {"check", "app"} => asked # "new"
BootsSound == flash[boot] /\ flash[running]

\* Only a power loss between two renames, a rename that failed, or a package without one leaves
\* the device without its web interface, and nothing makes it a part of one; a network that was
\* uploaded is whole in one of its places, unless its copy was not.
InterfaceKept ==
  ~unkept => /\ html \in {"old", "new"} \/ (html = None /\ aside \in {"old", "new"})
             /\ "whole" \in {network.firmware, network.config}

------------------------------------------------------------------------------
(* The inductive invariant                                                 *)

\* Requests are served by an application that is up, and a copy is made of a whole network.
CopySound ==
  /\ copying # "no" => at = "app"
  /\ copying = "marker" => asked = "new"
  /\ network.firmware \in {"whole", None}
  /\ copying \in {"copy", "copied", "delete"} => network.firmware = "whole"
  /\ copying = "delete" => network.config = "whole" \/ unkept

\* What is beside the interface when it is replaced is all of it, if the package had any.
ExtractionSound ==
  /\ at \in {"aside", "place", "drop"} => package # None
  /\ at \in {"clear", "clear_old"} /\ package # None => todo = package.parts
  /\ at = "extract" /\ package # None /\ todo \subseteq {"firmware"} =>
       tmp = "new" \/ package.parts \subseteq {"firmware"}
  /\ at \in {"aside", "place"} => tmp = "new" \/ package.parts = {"firmware"}

\* Only between the two renames the interface is aside.
InterfaceSound ==
  ~unkept => \/ html \in {"old", "new"}
             \/ at = "place" /\ html = None /\ aside \in {"old", "new"}

Inductive ==
  /\ TypeOK /\ TriedOnce /\ BootsSound /\ InterfaceKept
  /\ CopySound /\ ExtractionSound /\ InterfaceSound
=============================================================================
