--------------------------------- MODULE Loader ---------------------------------
(***************************************************************************)
(* The bootstrap loader of a new device: it connects to the network it is  *)
(* given, and on request downloads one pinned package to the card, unpacks *)
(* it, writes the first configuration and the network settings, writes the *)
(* application to the other flash slot and selects it.                     *)
(*   - begin_wifi and its worker, install and its worker, app_main;        *)
(*   - the power may go at any time, and every call may fail.              *)
(* `phase` is the code's number: 0 ready, 1 connecting, 2 download,        *)
(* 3 verify, 4 flash, 5 complete, 6 starting, 7 ready to install, and      *)
(* negative after an error.                                                *)
(*                                                                         *)
(* Staging and the index are told in BundleUpdate; here they are a few     *)
(* steps.  Events of the driver are handled at once.                       *)
(*                                                                         *)
(* A request is judged by the phase alone, and a worker whose settings     *)
(* failed says so before it ends: a request may be heard in between, and   *)
(* the worker may then write its error over the phase of the next one.     *)
(***************************************************************************)
EXTENDS Integers

CONSTANTS Network,      \* networks with their passwords
          Installers,   \* tasks an installation may run in
          MaxOverlaps,  \* bound: requests heard while an earlier one still has its task
          None

\* What the constants must be; assumed where they have values.
LoaderAssumption ==
  None \notin Network /\ "torn" \notin Network /\ MaxOverlaps \in Nat

VARIABLES
  phase,
  tried,       \* ssid and password
  link,        \* the station: "down", "joining", "up" (bit 1 of wifi_events)
  connecting,  \* wifi_worker tasks
  nvs,         \* the saved network, or None
  wifi_saved,
  at,          \* progress of each install_worker
  card,        \* what the installation has put on the card
  flash,       \* the slot of the application
  boot,        \* what the OTA data selects: "loader" or "app"
  booting,     \* app_main has not looked at the saved network yet
  running,     \* "loader" or "app"
  proven,      \* history: networks that have given an address
  overlaps     \* history: requests heard while an earlier one still had its task

station == <<tried, link, connecting>>
memory  == <<nvs, wifi_saved, booting, proven, overlaps>>
chip    == <<flash, boot, running>>
vars    == <<phase, station, memory, at, card, chip>>

Contents == {"none", "torn", "whole"}
Steps    == {"start", "clock", "fetch", "receive", "read", "stage", "extract", "publish", "object",
             "config", "configWrite", "configPublish", "wlan", "wlanWrite", "wlanPublish",
             "flash", "write", "index", "select", "settle", "late", "done"}
ConfigSteps  == {"config", "configWrite", "configPublish", "wlan", "wlanWrite", "wlanPublish"}
FetchSteps   == {"fetch", "receive", "read"}
InstallSteps == {"stage", "extract", "publish", "object", "flash", "write", "index", "select"}

Init ==
  /\ phase = 0 /\ tried = None /\ link = "down" /\ connecting = 0
  /\ nvs = None /\ wifi_saved = FALSE /\ booting = TRUE /\ proven = {} /\ overlaps = 0
  /\ at = [w \in Installers |-> "none"]
  /\ card = [zip |-> "none", pending |-> "none", object |-> "none", index |-> "none",
             config |-> "none", configDraft |-> "none", wlan |-> None, wlanDraft |-> None]
  /\ flash = "none" /\ boot = "loader" /\ running = "loader"

Installing == \E w \in Installers : at[w] # "none"

\* Nobody looks whether an earlier request still has its task.
Heard ==
  IF Installing \/ connecting > 0 THEN overlaps < MaxOverlaps /\ overlaps' = overlaps + 1
  ELSE UNCHANGED overlaps

-----------------------------------------------------------------------------
(* The network *)

MayConfigureWifi == phase # -1 /\ (phase <= 0 \/ phase = 7)

\* begin_wifi: the driver may refuse, and the task may not be created.
BeginWifi(n) ==
  /\ Heard /\ MayConfigureWifi /\ connecting < 2
  /\ tried' = n
  /\ \/ phase' = -2 /\ link' \in {"down", "joining"} /\ UNCHANGED connecting
     \/ phase' = 1 /\ link' = "joining" /\ connecting' = connecting + 1

RequestWifi(n) ==
  /\ BeginWifi(n) /\ wifi_saved' = FALSE
  /\ UNCHANGED <<nvs, booting, proven, at, card, chip>>

\* The end of app_main, after the web server has started.
ReadSavedWifi ==
  /\ booting /\ booting' = FALSE
  /\ IF nvs # None /\ MayConfigureWifi THEN BeginWifi(nvs) /\ wifi_saved' = FALSE
     ELSE wifi_saved' = (wifi_saved \/ nvs # None) /\ UNCHANGED <<phase, station, overlaps>>
  /\ UNCHANGED <<nvs, proven, at, card, chip>>

Address ==
  /\ link = "joining" /\ link' = "up" /\ proven' = proven \union {tried}
  /\ UNCHANGED <<phase, tried, connecting, nvs, wifi_saved, booting, overlaps, at, card, chip>>

Disconnected ==
  /\ link # "down" /\ link' = "down"
  /\ UNCHANGED <<phase, tried, connecting, memory, at, card, chip>>

\* wifi_worker gives up after half a minute.
WifiTimeout ==
  /\ connecting > 0 /\ link # "up"
  /\ connecting' = connecting - 1 /\ phase' = -2
  /\ UNCHANGED <<tried, link, memory, at, card, chip>>

\* persist_connected_wifi: written and read back, or not, or not read back.
WifiPersists ==
  /\ connecting > 0 /\ link = "up" /\ connecting' = connecting - 1
  /\ \/ nvs' = tried /\ wifi_saved' = TRUE /\ phase' = 7
     \/ nvs' \in {nvs, tried} /\ wifi_saved' = FALSE /\ phase' = -8
  /\ UNCHANGED <<tried, link, booting, proven, overlaps, at, card, chip>>

-----------------------------------------------------------------------------
(* The installation *)

MayInstall == phase \in {7, -3, -4, -5, -6, -7} /\ link = "up" /\ wifi_saved

RequestInstall(w) ==
  /\ Heard /\ MayInstall /\ at[w] = "none"
  /\ \/ phase' = 6 /\ at' = [at EXCEPT ![w] = "start"]
     \/ phase' = -6 /\ UNCHANGED at
  /\ UNCHANGED <<station, nvs, wifi_saved, booting, proven, card, chip>>

Go(w, from, to) == at[w] = from /\ at' = [at EXCEPT ![w] = to]
Ends(w)         == at' = [at EXCEPT ![w] = "none"]
OnCard(what)    == card' = what /\ UNCHANGED <<phase, station, memory, chip>>

Start(w) ==
  /\ Go(w, "start", "clock") /\ phase' = 6
  /\ UNCHANGED <<station, memory, card, chip>>

ClockSet(w) ==
  /\ Go(w, "clock", "fetch") /\ phase' = 2
  /\ UNCHANGED <<station, memory, card, chip>>

ClockFails(w) ==
  /\ at[w] = "clock" /\ Ends(w) /\ phase' = -7
  /\ UNCHANGED <<station, memory, card, chip>>

Fetch(w) == Go(w, "fetch", "receive") /\ OnCard([card EXCEPT !.zip = "torn"])

\* The hash of what was received is right.
Receive(w) ==
  /\ Go(w, "receive", "read") /\ card' = [card EXCEPT !.zip = "whole"] /\ phase' = 3
  /\ UNCHANGED <<station, memory, chip>>

\* The archive is read back before it is used.
ReadBack(w) ==
  /\ card.zip = "whole" /\ Go(w, "read", "stage") /\ phase' = 3
  /\ UNCHANGED <<station, memory, card, chip>>

FetchFails(w) ==
  /\ at[w] \in FetchSteps /\ Ends(w) /\ phase' = -3
  /\ UNCHANGED <<station, memory, card, chip>>

\* stageZip: what an earlier attempt left is set aside.
Stage(w) ==
  \/ card.zip = "whole" /\ card.object = "whole" /\ Go(w, "stage", "object") /\ OnCard(card)
  \/ /\ card.zip = "whole" /\ card.object = "none" /\ Go(w, "stage", "extract")
     /\ OnCard([card EXCEPT !.pending = "torn"])

Extract(w) ==
  card.zip = "whole" /\ Go(w, "extract", "publish") /\ OnCard([card EXCEPT !.pending = "whole"])

Publish(w) ==
  /\ card.object = "none" /\ card.pending # "none" /\ Go(w, "publish", "object")
  /\ OnCard([card EXCEPT !.object = card.pending, !.pending = "none"])

Verify(w) == card.object = "whole" /\ Go(w, "object", "config") /\ OnCard(card)

\* seedSetupConfig: an existing file is kept, a draft that exists is never overwritten.
Config(w) ==
  \/ card.config # "none" /\ Go(w, "config", "wlan") /\ OnCard(card)
  \/ /\ card.config = "none" /\ card.configDraft = "none" /\ Go(w, "config", "configWrite")
     /\ OnCard([card EXCEPT !.configDraft = "torn"])

ConfigWrite(w) ==
  Go(w, "configWrite", "configPublish") /\ OnCard([card EXCEPT !.configDraft = "whole"])

ConfigPublish(w) ==
  /\ card.config = "none" /\ Go(w, "configPublish", "wlan")
  /\ OnCard([card EXCEPT !.config = card.configDraft, !.configDraft = "none"])

\* Mutant: a draft that exists is taken for what an earlier attempt wrote.
WlanResuming(w) ==
  \/ card.wlan = tried /\ Go(w, "wlan", "flash") /\ OnCard(card)
  \/ /\ card.wlan = None /\ card.wlanDraft = None /\ Go(w, "wlan", "wlanWrite")
     /\ OnCard([card EXCEPT !.wlanDraft = "torn"])
  \/ card.wlan = None /\ card.wlanDraft # None /\ Go(w, "wlan", "wlanPublish") /\ OnCard(card)

\* save_wifi: an existing file must say the same, a draft is overwritten.
Wlan(w) ==
  \/ card.wlan = tried /\ Go(w, "wlan", "flash") /\ OnCard(card)
  \/ /\ card.wlan = None /\ Go(w, "wlan", "wlanWrite")
     /\ OnCard([card EXCEPT !.wlanDraft = "torn"])

WlanWrite(w) == Go(w, "wlanWrite", "wlanPublish") /\ OnCard([card EXCEPT !.wlanDraft = tried])

WlanPublish(w) ==
  /\ card.wlan = None /\ card.wlanDraft # None /\ Go(w, "wlanPublish", "flash")
  /\ OnCard([card EXCEPT !.wlan = card.wlanDraft, !.wlanDraft = None])

\* The phase says so first, the worker ends later.
ConfigFails(w) ==
  /\ at[w] \in ConfigSteps /\ at' = [at EXCEPT ![w] = "settle"] /\ phase' = -5
  /\ UNCHANGED <<station, memory, card, chip>>

\* It looks at the phase, which may be that of a request heard since, ...
Settle(w) ==
  /\ at[w] = "settle" /\ at' = [at EXCEPT ![w] = IF phase >= 0 THEN "late" ELSE "none"]
  /\ UNCHANGED <<phase, station, memory, card, chip>>

\* ... and writes its own.
SettleLate(w) ==
  /\ at[w] = "late" /\ Ends(w) /\ phase' = -6
  /\ UNCHANGED <<station, memory, card, chip>>

FlashBegin(w) ==
  /\ Go(w, "flash", "write") /\ phase' = 4 /\ flash' = "torn"
  /\ UNCHANGED <<station, memory, card, boot, running>>

\* Written, ended and compared with the digest of the manifest.
FlashWrite(w) ==
  /\ Go(w, "write", "index") /\ flash' = "whole"
  /\ UNCHANGED <<phase, station, memory, card, boot, running>>

Index(w) ==
  card.object = "whole" /\ Go(w, "index", "select") /\ OnCard([card EXCEPT !.index = "whole"])

\* The selection may have been written although a call fails.
Select(w) ==
  /\ at[w] = "select" /\ boot' = "app"
  /\ \/ phase' = 5 /\ at' = [at EXCEPT ![w] = "done"]
     \/ phase' = -6 /\ Ends(w)
  /\ UNCHANGED <<station, memory, card, flash, running>>

InstallFails(w) ==
  /\ at[w] \in InstallSteps /\ Ends(w) /\ phase' = (IF phase >= 0 THEN -6 ELSE phase)
  /\ UNCHANGED <<station, memory, card, chip>>

-----------------------------------------------------------------------------
\* The power goes, or the device restarts itself when all is done.  The bootloader
\* falls back to the loader when the selected slot is not whole; the card may fail to mount.
Restart ==
  /\ running' = (IF boot = "app" /\ flash = "whole" THEN "app" ELSE "loader")
  /\ phase' \in {0, -1} /\ booting' = TRUE
  /\ tried' = None /\ link' = "down" /\ connecting' = 0 /\ wifi_saved' = FALSE
  /\ at' = [w \in Installers |-> "none"]
  /\ UNCHANGED <<nvs, proven, overlaps, card, flash, boot>>

Connection ==
  \/ \E n \in Network : RequestWifi(n)
  \/ ReadSavedWifi \/ Address \/ Disconnected \/ WifiTimeout \/ WifiPersists

Worker(w) ==
  \/ Start(w) \/ ClockSet(w) \/ ClockFails(w) \/ Fetch(w) \/ Receive(w) \/ ReadBack(w)
  \/ FetchFails(w) \/ Stage(w) \/ Extract(w) \/ Publish(w) \/ Verify(w) \/ Config(w)
  \/ ConfigWrite(w) \/ ConfigPublish(w) \/ Wlan(w) \/ WlanWrite(w) \/ WlanPublish(w)
  \/ ConfigFails(w) \/ Settle(w) \/ SettleLate(w) \/ FlashBegin(w) \/ FlashWrite(w) \/ Index(w)
  \/ Select(w) \/ InstallFails(w)

Next ==
  \/ running = "loader" /\ (Connection \/ \E w \in Installers : RequestInstall(w) \/ Worker(w))
  \/ Restart

Spec == Init /\ [][Next]_vars

-----------------------------------------------------------------------------
Cards == [zip : Contents, pending : Contents, object : Contents, index : Contents,
          config : Contents, configDraft : Contents,
          wlan : Network \union {None, "torn"}, wlanDraft : Network \union {None, "torn"}]

TypeOK ==
  /\ phase \in -8 .. 7 /\ tried \in Network \union {None} /\ link \in {"down", "joining", "up"}
  /\ connecting \in 0 .. 2 /\ nvs \in Network \union {None} /\ wifi_saved \in BOOLEAN
  /\ at \in [Installers -> Steps \union {"none"}]
  /\ card \in Cards
  /\ flash \in Contents /\ {boot, running} \subseteq {"loader", "app"}
  /\ booting \in BOOLEAN /\ proven \subseteq Network /\ overlaps \in Nat

(* Whatever attempts failed and wherever the power went, an application    *)
(* that can start finds its bundle, its index, a configuration and network *)
(* settings that have worked; the saved network has worked, too.  One      *)
(* request that is heard while an earlier one still has its task does no   *)
(* harm to any of it, a second one may (save_wifi, seedSetupConfig,        *)
(* install_package, persist_connected_wifi, retry_install).                *)
InstalledComplete ==
  overlaps <= 1 =>
    /\ nvs # None => nvs \in proven
    /\ boot = "app" /\ flash = "whole" =>
         /\ card.object = "whole" /\ card.index = "whole" /\ card.config = "whole"
         /\ card.wlan \in proven

(* As long as no request was heard while an earlier one still had its      *)
(* task, the status page tells the truth: a phase of work has its one      *)
(* worker, ready to install means the network is saved, and complete that  *)
(* the application is selected and will use this network; and a request is *)
(* only heard too early while a worker that failed on the settings has not *)
(* ended (install_worker, wifi_worker, mayInstall, mayConfigureWifi).      *)
PhaseTrue ==
  overlaps = 0 =>
    /\ phase = 1 <=> connecting = 1
    /\ phase \in {2, 3, 4, 6} <=> \E w \in Installers : at[w] \notin {"none", "settle", "done"}
    /\ \A v, w \in Installers : at[v] # "none" /\ at[w] # "none" => v = w
    /\ phase = 7 => wifi_saved /\ nvs = tried
    /\ phase = 5 => boot = "app" /\ flash = "whole" /\ card.wlan = nvs
    /\ MayInstall \/ MayConfigureWifi =>
         connecting = 0 /\ \A w \in Installers : at[w] \in {"none", "settle"}

-----------------------------------------------------------------------------
(* The inductive invariant: the phase and its task while no request came   *)
(* too early, what is on the card until a second one did.                  *)

\* The network in use has given an address, and so has the saved one.
NetworkProven ==
  /\ nvs # None => nvs \in proven
  /\ link = "up" => tried \in proven

\* From the first installation on the network in use is the saved one.
NetworkSaved == phase \in 2 .. 7 \union -7 .. -3 => wifi_saved /\ nvs = tried /\ nvs # None

\* One task works on an installation, and the phase is that of its work.
OneWorker == \A v, w \in Installers : at[v] # "none" /\ at[w] # "none" => v = w
WorkingPhase ==
  /\ connecting \in 0 .. 1 /\ (connecting = 1 <=> phase = 1)
  /\ phase \in 2 .. 6 => Installing
  /\ \A w \in Installers : /\ at[w] # "late"
                           /\ at[w] = "settle" => phase = -5
                           /\ at[w] = "done" => phase = 5
                           /\ at[w] \notin {"none", "settle", "done"} => phase \in {2, 3, 4, 6}

\* A worker that is not on its way out is alone, and works for a network that has worked.
Busy(w) == at[w] \notin {"none", "settle", "late"}
WorkerAlone ==
  \A w \in Installers : Busy(w) =>
    connecting = 0 /\ tried \in proven /\ \A v \in Installers : Busy(v) => v = w

\* What an attempt has put in its place is whole, and stays for those that follow.
CardSound ==
  /\ card.object # "torn" /\ card.config # "torn"
  /\ card.wlan \in proven \union {None}
  /\ boot = "app" => card.object = "whole" /\ card.index = "whole" /\ card.config = "whole" /\ card.wlan # None

\* What a worker has done when it has come to a step.
FlashSteps  == {"flash", "write", "index", "select", "done"}
WorkDone(w) ==
  /\ at[w] = "publish" => card.pending = "whole"
  /\ at[w] \in ConfigSteps \union FlashSteps => card.object = "whole"
  /\ at[w] = "configPublish" => card.configDraft = "whole"
  /\ at[w] \in {"wlan", "wlanWrite", "wlanPublish"} \union FlashSteps => card.config = "whole"
  /\ at[w] = "wlanPublish" => card.wlanDraft = tried
  /\ at[w] \in FlashSteps => card.wlan = tried
  /\ at[w] \in {"index", "select", "done"} => flash = "whole"
  /\ at[w] \in {"select", "done"} => card.index = "whole"
  /\ at[w] = "done" => boot = "app"

InstallSound == /\ NetworkProven /\ WorkerAlone /\ CardSound
                /\ \A w \in Installers : WorkDone(w)
PhaseSound   == NetworkSaved /\ OneWorker /\ WorkingPhase

Inductive == /\ TypeOK /\ (link # "down" => tried # None)
             /\ overlaps <= 1 => InstallSound
             /\ overlaps = 0 => PhaseSound
=============================================================================
