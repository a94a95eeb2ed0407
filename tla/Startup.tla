------------------------------- MODULE Startup -------------------------------
(***************************************************************************)
(* The start of the application: app_main (src/code/main/main.cpp) from    *)
(* the card to the flow, the reduced pages, the access point of the first  *)
(* setup (softAP.cpp) or the recovery pages (StorageRecovery.cpp), and the *)
(* two settings the flow carries from config.ini into wlan.ini before it   *)
(* restarts (ClassFlowControll::ReadParameter, read_wlanini.cpp).          *)
(*                                                                         *)
(* wlan.ini is rewritten in place: it is empty on the card until it is     *)
(* closed.                                                                 *)
(***************************************************************************)
EXTENDS Integers

CONSTANTS
  Hosts,      \* the names the device may be given (Hostname)
  Levels,     \* the signal strengths it may roam at (RSSIThreshold)
  FirstHost,  \* the name the first setup gives it
  MaxLosses,  \* bound: how often the power is lost
  Absent,     \* no file, or no value in it
  Torn,       \* a file that was opened for writing and not closed
  Unset       \* a wlan.ini without a network

\* What the constants must be; assumed where they have values.
StartupAssumption ==
  /\ FirstHost \in Hosts /\ MaxLosses \in Nat
  /\ Absent \notin Hosts \union Levels /\ Absent # Torn /\ Unset \notin {Absent, Torn}
  /\ {Absent, Torn, Unset} \intersect [host : Hosts, level : Levels] = {}

VARIABLES
  start,       \* where the start is, or what it has come to
  flags,       \* the system status flags
  ini,         \* config.ini: what it says of the two settings, Absent where it is silent
  draft,       \* config/aiedge-first-boot.pending exists
  wlan,        \* wlan.ini
  wlan_config, \* what was read of it
  rewrite,     \* what wlan.ini is about to hold
  uploaded,    \* the access point takes config.ini for present (isConfigINI)
  refused,     \* history: settings wlan.ini could not be opened for in this start
  cut,         \* history: a rewriting of wlan.ini did not get to its end
  losses       \* how often the power was lost

startVars == <<start, flags, ini, draft, wlan, wlan_config, rewrite, uploaded, refused, cut, losses>>

Networks   == [host : Hosts, level : Levels]
Inis       == [host : Hosts \union {Absent}, level : Levels \union {Absent}]
Bare       == [host |-> Absent, level |-> Absent]

Starting == {"off", "card", "memory", "bundle", "setup", "seeding", "access", "folders", "wifi",
             "serve", "parameters", "rewriting", "restarting"}
Rest     == {"recovery", "ap", "dark", "reduced", "flow"}
InSetup  == {"writing", "uploading"}

TypeOK ==
  /\ start \in Starting \union Rest \union InSetup
  /\ flags \subseteq {"card", "psram", "heap", "camera", "framebuffer", "folder"}
  /\ ini \in Inis \union {Absent}
  /\ wlan \in Networks \union {Absent, Torn, Unset}
  /\ wlan_config \in Networks \union {Absent}
  /\ rewrite \in Networks \union {Absent, Unset}
  /\ {draft, uploaded, cut} \subseteq BOOLEAN /\ refused \subseteq {"host", "level"}
  /\ losses \in 0..MaxLosses

\* A card that was set up by the installer, or one without a configuration or a network.
Init ==
  /\ start = "off" /\ flags = {}
  /\ ini \in {[host |-> FirstHost, level |-> Absent], Absent}
  /\ wlan \in Networks \union {Absent}
  /\ draft = FALSE /\ wlan_config = Absent /\ rewrite = Absent /\ uploaded = FALSE
  /\ refused = {} /\ cut = FALSE /\ losses = 0

------------------------------------------------------------------------------
\* app_main, one action per check.  What a check finds is up to the hardware.

files == <<ini, draft, wlan, rewrite, cut, losses>>

Flagging(from, to, findings) ==
  /\ start = from /\ start' = to
  /\ \E found \in findings : flags' = flags \union found
  /\ UNCHANGED <<files, wlan_config, uploaded, refused>>

Going(from, to) ==
  /\ start = from /\ start' = to
  /\ UNCHANGED <<flags, wlan_config, uploaded, refused>>

\* A restart loses what is not on the card.
Off ==
  /\ start' = "off" /\ flags' = {} /\ wlan_config' = Absent
  /\ uploaded' = FALSE /\ refused' = {} /\ rewrite' = Absent

\* NVS or the card does not come up: the recovery pages are served from the firmware,
\* or nothing is when the network does not come up either.
StorageFails ==
  /\ \/ Going("off", "recovery")
     \/ Going("off", "dark")
  /\ UNCHANGED files

Init_NVS_SDCard == Going("off", "card") /\ UNCHANGED files

SDCardCheckRW == Flagging("card", "memory", {{}, {"card"}})

\* Memory, then the camera: a step that fails ends the chain.
CheckHardware ==
  Flagging("memory", "bundle", {{}, {"psram"}, {"heap"}, {"camera"}, {"framebuffer"}})

InitializeBootBundle == Flagging("bundle", "setup", {{}, {"folder"}})

\* The draft of a first configuration is only made for a verified bundle, where there
\* is no configuration, and never over an earlier draft.
SeedSkips == Going("setup", "access") /\ UNCHANGED files

SeedOpens ==
  /\ "folder" \notin flags /\ ini = Absent /\ ~draft
  /\ Going("setup", "seeding") /\ draft' = TRUE
  /\ UNCHANGED <<ini, wlan, rewrite, cut, losses>>

SeedPublishes ==
  /\ Going("seeding", "access")
  /\ ini' = [host |-> FirstHost, level |-> Absent] /\ draft' = FALSE
  /\ UNCHANGED <<wlan, rewrite, cut, losses>>

SeedFails == Going("seeding", "access") /\ UNCHANGED files

CheckStartAPMode ==
  /\ start = "access"
  /\ start' = IF ini = Absent \/ wlan = Absent THEN "ap" ELSE "folders"
  /\ uploaded' = (ini # Absent)
  /\ UNCHANGED <<flags, wlan_config, refused, files>>

SDCardCheckFolderFilePresence == Flagging("folders", "wifi", {{}, {"folder"}})

\* An empty file, or one without a network, ends the start, and so does the driver.
LoadWlanFromFile ==
  /\ start = "wifi"
  /\ \/ /\ wlan \in Networks /\ start' = "serve" /\ wlan_config' = wlan
     \/ /\ wlan \in Networks /\ start' = "dark" /\ wlan_config' = wlan
     \/ /\ wlan \notin Networks /\ start' = "dark" /\ UNCHANGED wlan_config
  /\ UNCHANGED <<flags, uploaded, refused, files>>

StartFlow ==
  /\ start = "serve"
  /\ start' = IF flags \subseteq {"framebuffer"} THEN "parameters" ELSE "reduced"
  /\ UNCHANGED <<flags, wlan_config, uploaded, refused, files>>

------------------------------------------------------------------------------
\* The flow reads its parameters: a setting that differs from what was read of
\* wlan.ini is written there, the rest of the file as it is on the card.

Asks(setting) ==
  /\ ini # Absent /\ ini[setting] # Absent
  /\ ini[setting] # wlan_config[setting] /\ setting \notin refused

ChangeSetting(setting) ==
  /\ start = "parameters" /\ Asks(setting) /\ wlan \in Networks
  /\ start' = "rewriting"
  /\ rewrite' = [wlan EXCEPT ![setting] = ini[setting]]
  /\ wlan' = Torn
  /\ UNCHANGED <<flags, ini, draft, wlan_config, uploaded, refused, cut, losses>>

ChangeHostName      == ChangeSetting("host")
ChangeRSSIThreshold == ChangeSetting("level")

\* wlan.ini cannot be opened: the flow goes on under the old setting.
ChangeRefused ==
  /\ start = "parameters"
  /\ \E setting \in {"host", "level"} : Asks(setting) /\ refused' = refused \union {setting}
  /\ UNCHANGED <<start, flags, files, wlan_config, uploaded>>

ReadParameter ==
  /\ start = "parameters" /\ ~Asks("host") /\ ~Asks("level")
  /\ start' = "flow"
  /\ UNCHANGED <<flags, files, wlan_config, uploaded, refused>>

\* Mutant: the flow goes on after it has changed wlan.ini.
RewriteClosesStaying ==
  /\ Going("rewriting", "parameters")
  /\ wlan' = rewrite /\ rewrite' = Absent
  /\ UNCHANGED <<ini, draft, cut, losses>>

\* Neither a failed write nor a failed close is noticed.
RewriteCloses ==
  /\ Going("rewriting", "restarting")
  /\ \/ wlan' = rewrite /\ UNCHANGED cut
     \/ wlan' = Torn /\ cut' = TRUE
  /\ rewrite' = Absent
  /\ UNCHANGED <<ini, draft, losses>>

DoReboot == start = "restarting" /\ Off /\ UNCHANGED <<ini, draft, wlan, cut, losses>>

\* The steps the device takes by itself.
StartStep ==
  \/ StorageFails \/ Init_NVS_SDCard \/ SDCardCheckRW \/ CheckHardware \/ InitializeBootBundle
  \/ SeedSkips \/ SeedOpens \/ SeedPublishes \/ SeedFails \/ CheckStartAPMode
  \/ SDCardCheckFolderFilePresence \/ LoadWlanFromFile \/ StartFlow
  \/ ChangeHostName \/ ChangeRSSIThreshold \/ ChangeRefused \/ ReadParameter
  \/ RewriteCloses \/ DoReboot

------------------------------------------------------------------------------
\* The pages of a device that has started.

SaveConfiguration ==
  /\ start \in {"flow", "reduced"}
  /\ ini' \in Inis
  /\ UNCHANGED <<start, flags, draft, wlan, rewrite, cut, losses, wlan_config, uploaded, refused>>

\* /doinit reads the parameters again.
HandlerInit == /\ start = "flow" /\ start' = "parameters" /\ refused' = {}
               /\ UNCHANGED <<flags, files, wlan_config, uploaded>>

HandlerReboot ==
  /\ start \in {"flow", "reduced", "ap"} /\ Off
  /\ UNCHANGED <<ini, draft, wlan, cut, losses>>

\* The access point writes wlan.ini, with or without a network.  (A file that cannot be
\* opened is written to all the same, and the device restarts from that: HandlerReboot.)
ConfigIniHandler ==
  /\ Going("ap", "writing")
  /\ wlan' = Torn
  /\ rewrite' \in {[host |-> h, level |-> l] : h \in Hosts, l \in Levels} \union {Unset}
  /\ UNCHANGED <<ini, draft, cut, losses>>

ConfigIniWritten ==
  /\ Going("writing", "ap")
  /\ wlan' = rewrite /\ rewrite' = Absent
  /\ UNCHANGED <<ini, draft, cut, losses>>

\* An upload removes the old file first.  A package of the legacy kind is only stored.
UploadBegins ==
  /\ Going("ap", "uploading") /\ ini' = Bare
  /\ UNCHANGED <<draft, wlan, rewrite, cut, losses>>

UploadEnds ==
  /\ start = "uploading" /\ start' = "ap"
  /\ \/ ini' \in Inis /\ uploaded' = TRUE
     \/ ini' = Absent /\ UNCHANGED uploaded
  /\ UNCHANGED <<flags, draft, wlan, wlan_config, rewrite, refused, cut, losses>>

UploadPackage ==
  /\ start = "ap" /\ uploaded' = TRUE
  /\ UNCHANGED <<start, flags, files, wlan_config, refused>>

PageStep ==
  \/ SaveConfiguration \/ HandlerInit \/ HandlerReboot
  \/ ConfigIniHandler \/ ConfigIniWritten \/ UploadBegins \/ UploadEnds \/ UploadPackage

------------------------------------------------------------------------------
PowerLost ==
  /\ start # "off" /\ losses < MaxLosses
  /\ Off /\ losses' = losses + 1
  /\ cut' = (cut \/ start \in {"rewriting", "writing"})
  /\ UNCHANGED <<ini, draft, wlan>>

\* The card is taken out, wlan.ini written anew and a draft removed.
CardServiced ==
  /\ start \in Rest
  /\ Off /\ wlan' \in Networks /\ draft' = FALSE /\ cut' = FALSE
  /\ UNCHANGED <<ini, losses>>

Next == StartStep \/ PageStep \/ PowerLost \/ CardServiced

------------------------------------------------------------------------------
(* A device that has started uses the network settings that are on the     *)
(* card, however often they were changed, refused or cut short; one that   *)
(* stays dark was given no network, lost wlan.ini to a rewriting that did  *)
(* not get to its end, or has no storage or network driver (app_main,      *)
(* ReadParameter, ChangeHostName, LoadWlanFromFile).                       *)
StartHonest ==
  /\ start \in {"serve", "parameters", "flow", "reduced"} => wlan = wlan_config
  /\ start \in {"wifi", "dark"} /\ wlan = Torn => cut

-----------------------------------------------------------------------------
(* The inductive invariant                                                 *)

\* What is about to be written while wlan.ini is open, which is a network but for the access point.
Rewritten ==
  /\ start = "rewriting" => rewrite \in Networks
  /\ start = "writing"   => rewrite \in Networks \union {Unset}

\* A file that was not closed is being written, or was cut short.
TornForAReason == wlan = Torn => cut \/ start \in {"rewriting", "writing"}

\* What was read of wlan.ini stands until somebody writes it.
ReadIsOnCard == start \in {"serve", "parameters", "flow", "reduced"} => wlan = wlan_config /\ wlan \in Networks

Inductive == TypeOK /\ Rewritten /\ TornForAReason /\ ReadIsOnCard
=============================================================================
