---------------------------- MODULE CameraSettings ----------------------------
(***************************************************************************)
(* The camera's settings on their way through the pages.  A page shows     *)
(* what config.ini says; a trial sends what it shows to the device in one  *)
(* request, saving writes it to config.ini and sends it once more, and a   *)
(* restart reads config.ini.  Request and file are read by different code, *)
(* each with limits for the sensor at hand, and both end in the sensor's   *)
(* registers.  A trial sets them at once but its picture is taken when the *)
(* page asks for it, and a round that comes first sets them back.          *)
(*                                                                         *)
(* Settings that belong together are followed as one group, the others     *)
(* stay as they are.  A setting that a page selects from a list is a word  *)
(* in config.ini and its place in the list in a request.                   *)
(***************************************************************************)
EXTENDS Integers, Sequences

CONSTANT Followed  \* the groups of settings to follow

VARIABLES
  pid,     \* which sensor the camera has
  group,   \* the settings that are followed
  config,  \* config[n]: what config.ini says
  cc,      \* cc[n]: CCstatus, in use for rounds
  sensor,  \* the sensor's registers
  changed, \* CFstatus.changedCameraSettings: the next picture of a round sets them first
  page,    \* the page that is open
  shown,   \* shown[n]: what it shows
  phase,   \* "viewed", "changed", a trial "asked" for, its picture loaded ("tried"), or "saving"
  touched, \* changeCamValue: a control was changed since the page was opened
  unsent   \* settings whose last save was cut short, or is under way

vars == <<pid, group, config, cc, sensor, changed, page, shown, phase, touched, unsent>>

Nothing == "none"
Sensors == {"OV2640", "OV3660", "OV5640"}
Pages   == {"reference", "configuration"}
Window  == {"zoomx", "zoomy", "zooms"}

------------------------------------------------------------------------------
(* the controls of the pages *)

Gains   == <<"x2", "x4", "x8", "x16", "x32", "x64", "x128">>
Effects == <<"no_effect", "negative", "grayscale", "red", "green", "blue", "retro">>
Modes   == <<"auto", "sunny", "cloudy", "office", "home">>
Flags   == {"ashp", "awb", "awbg", "aec", "aec2", "agc", "bpc", "wpc", "rgma", "lenc", "mirror",
            "flip", "dcw", "zoom"}

Lists   == [aecgc |-> Gains, spe |-> Effects, wbm |-> Modes]
Selects == Flags \union DOMAIN Lists
Options == [n \in Selects |-> IF n \in Flags THEN <<"true", "false">> ELSE Lists[n]]

\* What is entered for numbers: a limit that the page sets, or one between.  The configuration page
\* has the same as the other, or wider ones.
Sliders ==
  [bri |-> {-2, 1, 2}, con |-> {-2, 1, 2}, sat |-> {-2, 1, 2}, shp |-> {-2, 1, 2}, ael |-> {-2, 1, 2},
   ledi |-> {0, 50, 100}, zoomx |-> {-960, 200, 960}, zoomy |-> {-720, -200, 720}, zooms |-> {0, 29, 59}]
Fields ==
  [waitb |-> {0, 2, 5}, qual |-> {5, 12, 63}, aecv |-> {0, 600, 1200}, agcg |-> {0, 8, 30}, den |-> {0, 1, 8},
   shp |-> {-3, 1, 3}, ael |-> {-5, 1, 5}]

Numbers == DOMAIN Fields \union DOMAIN Sliders
Settings == Selects \union Numbers

\* The page of the reference image has the settings that are adjusted with a picture.
OnPage(p) ==
  IF p = "reference"
  THEN {"bri", "con", "sat", "shp", "ashp", "zoom", "aec", "aec2", "ael", "mirror", "flip", "spe",
        "ledi"} \union Window
  ELSE Settings

Entered(p, n) ==
  IF n \in Selects THEN 0..Len(Options[n]) - 1
  ELSE IF p = "reference" \/ n \notin DOMAIN Fields THEN Sliders[n] ELSE Fields[n]

\* All that is entered anywhere for the settings of the group.
Controls == UNION {Entered("configuration", n) : n \in group}

Clip(number, low, high) == IF number < low THEN low ELSE IF number > high THEN high ELSE number

\* A slider shows at most its ends; a select shows the option of this name.
Show(p, n, text) ==
  IF n \in Selects THEN (CHOOSE i \in DOMAIN Options[n] : Options[n][i] = text) - 1
  ELSE IF p = "reference" /\ n \in {"bri", "con", "sat", "shp", "ael"} THEN Clip(text, -2, 2)
  ELSE text

Text(n, control) == IF n \in Selects THEN Options[n][control + 1] ELSE control

\* config.ini as the page writes it: what it does not show stays.
Written == [n \in group |-> IF n \in OnPage(page) THEN Text(n, shown[n]) ELSE config[n]]

\* A window that is followed without the switch is one of a zoom.
Zooming == "zoom" \in group => shown["zoom"] = 0

\* The request has 1 for the first option of a flag, which is "true".  For the automatic
\* sharpness the pages compare the option's name with 0 instead of its place.
Sent ==
  [n \in group \intersect OnPage(page) |->
     CASE n = "ashp" -> 0
       [] n \in Flags \ {"ashp"} -> IF shown[n] = 0 THEN 1 ELSE 0
       [] n \in Window -> IF Zooming THEN shown[n] ELSE 0
       [] OTHER -> shown[n]]

------------------------------------------------------------------------------
(* handler_editflow: what a request makes of the settings in use.  Numbers *)
(* are cut to limits, for some settings to those of the sensor; a flag is  *)
(* set by anything but 0.                                                  *)

Older(low, high, newLow, newHigh) == IF pid = "OV2640" THEN <<low, high>> ELSE <<newLow, newHigh>>
PerSensor(limits) == <<-limits[pid], limits[pid]>>

WidthLimit  == [OV2640 |-> 480, OV3660 |-> 704, OV5640 |-> 960]
HeightLimit == [OV2640 |-> 360, OV3660 |-> 528, OV5640 |-> 720]
ZoomLimit   == [OV2640 |-> 29, OV3660 |-> 43, OV5640 |-> 59]

TrialPicture ==
  [aecgc |-> <<0, 6>>, qual |-> <<6, 63>>, bri |-> <<-2, 2>>, con |-> <<-2, 2>>, sat |-> <<-2, 2>>,
   shp |-> Older(-2, 2, -3, 3)]
TrialColours  == [spe |-> <<0, 6>>, wbm |-> <<0, 4>>]
TrialExposure == [ael |-> Older(-2, 2, -5, 5), aecv |-> <<0, 1200>>, agcg |-> <<0, 30>>]
TrialGeometry ==
  [den |-> Older(0, 0, 0, 8), zoomx |-> PerSensor(WidthLimit), zoomy |-> PerSensor(HeightLimit),
   zooms |-> <<0, ZoomLimit[pid]>>, ledi |-> <<0, 100>>]

Within(limits, number) == Clip(number, limits[1], limits[2])

Trial(n, number) ==
  CASE n \in Flags -> number # 0
    [] n = "waitb" -> number
    [] n \in DOMAIN TrialPicture -> Within(TrialPicture[n], number)
    [] n \in DOMAIN TrialColours -> Within(TrialColours[n], number)
    [] n \in DOMAIN TrialExposure -> Within(TrialExposure[n], number)
    [] OTHER -> Within(TrialGeometry[n], number)

EditFlow == [n \in group |-> IF n \in DOMAIN Sent THEN Trial(n, Sent[n]) ELSE cc[n]]

------------------------------------------------------------------------------
(* ClassFlowTakeImage::ReadParameter: what a restart makes of config.ini   *)

ReadWords ==
  [aecgc |-> <<"x4", "x8", "x16", "x32", "x64", "x128">>,
   spe   |-> <<"negative", "grayscale", "red", "green", "blue", "retro">>,
   wbm   |-> <<"sunny", "cloudy", "office", "home">>]

\* Any other word is the first value, 0.
Word(words, text) ==
  IF \E i \in DOMAIN words : words[i] = text THEN CHOOSE i \in DOMAIN words : words[i] = text ELSE 0

ReadPicture ==
  [qual |-> <<6, 63>>, bri |-> <<-2, 2>>, con |-> <<-2, 2>>, sat |-> <<-2, 2>>, shp |-> Older(-2, 2, -3, 3)]
\* Mutant: the level of exposure has the limits of the older sensor on every other.
ReadExposureOlder == [ael |-> <<-2, 2>>, aecv |-> <<0, 1200>>, agcg |-> <<0, 30>>]

ReadExposure == [ael |-> Older(-2, 2, -5, 5), aecv |-> <<0, 1200>>, agcg |-> <<0, 30>>]
ReadGeometry ==
  [den |-> Older(0, 0, 0, 8), zoomx |-> PerSensor(WidthLimit), zoomy |-> PerSensor(HeightLimit),
   zooms |-> <<0, ZoomLimit[pid]>>, ledi |-> <<0, 100>>]

Read(n, text) ==
  CASE n \in Flags -> text = "true"
    [] n = "waitb" -> IF text = 0 THEN 2 ELSE text
    [] n \in DOMAIN ReadWords -> Word(ReadWords[n], text)
    [] n \in DOMAIN ReadPicture -> Within(ReadPicture[n], text)
    [] n \in DOMAIN ReadExposure -> Within(ReadExposure[n], text)
    [] OTHER -> Within(ReadGeometry[n], text)

ReadParameter(texts) == [n \in group |-> Read(n, texts[n])]

------------------------------------------------------------------------------
(* setCFstatusToCam, setSensorDatenFromCCstatus, SetQualityZoomSize: the   *)
(* registers that settings end in                                          *)

Width  == 640
Height == 480
FrameX == [OV2640 |-> 1600, OV3660 |-> 2048, OV5640 |-> 2592]
FrameY == [OV2640 |-> 1200, OV3660 |-> 1536, OV5640 |-> 1944]

Abs(number) == IF number < 0 THEN -number ELSE number

\* An offset counts from the middle; one that does not fit becomes the nearest that does.
Sanitize(free, offset) ==
  IF Abs(offset) * 2 > free THEN IF offset > 0 THEN free ELSE 0 ELSE free \div 2 + offset

Zoomed(x, y, size) ==
  LET steps == IF size < ZoomLimit[pid] THEN ZoomLimit[pid] - size ELSE 0
      width  == Width + steps * 32
      height == Height + steps * 24
  IN  [x |-> Sanitize(FrameX[pid] - width, x), y |-> Sanitize(FrameY[pid] - height, y),
       width |-> width, height |-> height]

WholeFrame == [x |-> 0, y |-> 0, width |-> FrameX[pid], height |-> FrameY[pid]]

\* ov2640_set_sharpness looks a level up that is 0 unless it is out of range.
Level(sharpness) == IF sharpness < -3 THEN -3 ELSE IF sharpness > 3 THEN 3 ELSE 0

\* Only the older sensor has an automatic sharpness.
Sharpness(automatic, level) ==
  IF automatic THEN [automatic |-> pid = "OV2640", level |-> 0]
  ELSE [automatic |-> FALSE,
        level |-> IF pid = "OV2640" THEN Level(Clip(level, -2, 2)) ELSE Clip(level, -3, 3)]

Value(values, n, otherwise) == IF n \in DOMAIN values THEN values[n] ELSE otherwise

Registers(values) ==
  [sharpness |-> Sharpness(Value(values, "ashp", FALSE), Value(values, "shp", 0)),
   window    |-> IF Value(values, "zoom", DOMAIN values \intersect Window # {})
                 THEN Zoomed(Value(values, "zoomx", 0), Value(values, "zoomy", 0), Value(values, "zooms", 0))
                 ELSE WholeFrame,
   others    |-> [n \in DOMAIN values \ ({"shp", "ashp", "zoom", "waitb"} \union Window) |->
                    IF n = "qual" /\ pid = "OV5640" THEN Clip(values[n], 8, 63) ELSE values[n]]]

------------------------------------------------------------------------------
Init ==
  /\ pid \in Sensors /\ group \in Followed
  /\ \E controls \in [group -> Controls] :
       /\ \A n \in group : controls[n] \in Entered("configuration", n)
       /\ config = [n \in group |-> Text(n, controls[n])]
  /\ cc = ReadParameter(config) /\ sensor = Registers(cc) /\ changed = FALSE
  /\ page = Nothing /\ shown = <<>> /\ phase = "viewed" /\ touched = FALSE /\ unsent = {}

device == <<pid, group, config, cc, sensor, changed>>

\* init, showReference, LoadConfigNeu: a page shows what config.ini says.
Open(p) ==
  /\ phase # "saving"
  /\ page' = p /\ shown' = [n \in group \intersect OnPage(p) |-> Show(p, n, config[n])]
  /\ phase' = "viewed" /\ touched' = FALSE
  /\ UNCHANGED <<device, unsent>>

\* The page of the reference image lets nothing be changed before the first trial.  The window can
\* be changed while there is a zoom, the sharpness unless it is automatic.
Enabled(n) ==
  /\ page = "reference" => phase # "viewed"
  /\ n \in Window => Zooming
  /\ n = "shp" /\ "ashp" \in group => shown["ashp"] # 0

Change(n) ==
  /\ page # Nothing /\ phase # "saving" /\ n \in DOMAIN shown /\ Enabled(n)
  /\ \E control \in Entered(page, n) : shown' = [shown EXCEPT ![n] = control]
  /\ phase' = "changed" /\ touched' = TRUE
  /\ UNCHANGED <<device, page, unsent>>

\* doTakeReference, test_take: what is shown goes to the sensor, whatever is in use.
Try ==
  /\ page = "reference" /\ phase # "saving" /\ phase' = "asked"
  /\ sensor' = Registers(EditFlow) /\ changed' = TRUE
  /\ UNCHANGED <<pid, group, config, cc, page, shown, touched, unsent>>

\* The device was busy ten times: the page goes on without a picture.
TryInVain ==
  /\ page = "reference" /\ phase # "saving" /\ phase' = "tried"
  /\ UNCHANGED <<device, page, shown, touched, unsent>>

\* SendRawJPG: the picture is exposed when it is loaded, with what the sensor has then.
Load == phase = "asked" /\ phase' = "tried" /\ UNCHANGED <<device, page, shown, touched, unsent>>

\* doFlow, and the camera's own pages: a picture is taken with the settings in use.
Round ==
  /\ changed /\ changed' = FALSE
  /\ sensor' = Registers(cc)
  /\ UNCHANGED <<pid, group, config, cc, page, shown, phase, touched, unsent>>

\* SaveReference after a trial, saveTextAsFile: config.ini is written, then the settings are sent,
\* by the configuration page only when it has changed one.
Save ==
  /\ page # Nothing /\ phase # "saving"
  /\ page = "reference" => phase \in {"asked", "tried"}
  /\ config' = Written
  /\ IF page = "reference" \/ touched THEN phase' = "saving" /\ unsent' = unsent \union DOMAIN shown
     ELSE phase' = "viewed" /\ UNCHANGED unsent
  /\ UNCHANGED <<pid, group, cc, sensor, changed, page, shown, touched>>

\* SetLEDIntensity takes effect while the request is parsed.
Lit(registers, values) ==
  IF "ledi" \in DOMAIN Sent THEN [registers EXCEPT !.others["ledi"] = values["ledi"]] ELSE registers

\* camSettingsSet, cam_settings: the settings are sent again until the device is not busy; they
\* are in use from then on, and reach the sensor with the next picture of a round.
Set ==
  /\ phase = "saving" /\ phase' = "viewed" /\ unsent' = unsent \ DOMAIN shown
  /\ cc' = EditFlow /\ changed' = TRUE /\ sensor' = Lit(sensor, EditFlow)
  /\ UNCHANGED <<pid, group, config, page, shown, touched>>

\* The device was busy ten times.
GiveUp ==
  /\ phase = "saving" /\ phase' = "viewed"
  /\ UNCHANGED <<device, page, shown, touched, unsent>>

\* The page stays open meanwhile.
Restart ==
  /\ cc' = ReadParameter(config) /\ unsent' = {}
  /\ sensor' = Registers(cc') /\ changed' = FALSE
  /\ UNCHANGED <<pid, group, config, page, shown, phase, touched>>

Next ==
  \/ \E p \in Pages : Open(p)
  \/ \E n \in Settings : Change(n)
  \/ Try \/ TryInVain \/ Load \/ Round \/ Save \/ Set \/ GiveUp \/ Restart

Spec == Init /\ [][Next]_vars

------------------------------------------------------------------------------
TypeOK ==
  /\ pid \in Sensors /\ group \in Followed /\ DOMAIN config = group /\ DOMAIN cc = group
  /\ page \in Pages \union {Nothing} /\ phase \in {"viewed", "changed", "asked", "tried", "saving"}
  /\ page # Nothing => DOMAIN shown = group \intersect OnPage(page)
  /\ changed \in BOOLEAN /\ touched \in BOOLEAN /\ unsent \subseteq group

\* The wait before a picture; one of 0 s is 2 s from the next start on.
Waits(values) == IF Value(values, "waitb", 1) = 0 THEN 2 ELSE Value(values, "waitb", 1)

\* The picture of a trial is exposed as a restart would after saving.
TrialExposes ==
  phase = "asked" /\ changed /\ unsent \subseteq OnPage("reference") =>
    sensor = Registers(ReadParameter(Written))
\* What was saved and acknowledged is in use as config.ini has it.
SavedInUse ==
  unsent = {} => LET restarted == ReadParameter(config) IN
                   Registers(cc) = Registers(restarted) /\ Waits(cc) = Waits(restarted)
\* A round exposes with the settings in use, whatever was tried before.
RoundExposes == ~changed => sensor = Registers(cc)

(* The picture of a trial is exposed as a restart would after saving the   *)
(* page, unless a round came before it, and settings that were saved and   *)
(* acknowledged are in use as config.ini has them: the request and the     *)
(* file are read alike for every sensor.  A save that was cut short leaves *)
(* trials with the old values of the settings that their page lacks.  A    *)
(* round exposes with the settings in use, whatever was tried before       *)
(* (handler_editflow, ClassFlowTakeImage::ReadParameter and doFlow).       *)
TrialsTrue == TrialExposes /\ SavedInUse /\ RoundExposes

(* The window of a zoom lies within the sensor's frame and is no smaller   *)
(* than the picture, whatever is entered (SetZoomSize, SanitizeZoomParams).*)
Inside(window) ==
  /\ window.x >= 0 /\ window.x + window.width <= FrameX[pid] /\ window.width >= Width
  /\ window.y >= 0 /\ window.y + window.height <= FrameY[pid] /\ window.height >= Height
ZoomInside == Inside(sensor.window)

------------------------------------------------------------------------------
(* The inductive invariant of the proofs.                                  *)

\* Whatever settings are followed together; the automatic sharpness is sent as off by both pages.
SettingsAssumption == \A g \in Followed : g \subseteq Settings \ {"ashp"}

\* What config.ini may say of a setting, and a page may show.
Texts(n)     == IF n \in Selects THEN {Options[n][i] : i \in DOMAIN Options[n]} ELSE Int
Positions(n) == IF n \in Selects THEN 0..Len(Options[n]) - 1 ELSE Int

\* A size that is in use is not negative: it was cut to its limits, by a request or a start.
ValuesSound ==
  /\ config = [n \in group |-> config[n]] /\ \A n \in group : config[n] \in Texts(n)
  /\ page # Nothing => \A n \in DOMAIN shown : shown[n] \in Positions(n)
  /\ \A n \in group \intersect Window : cc[n] \in Int /\ (n = "zooms" => cc[n] >= 0)
  /\ DOMAIN sensor = {"sharpness", "window", "others"}

\* A value in use is what config.ini says; without a zoom its window does not matter.
Agrees(values, texts, n) ==
  \/ values[n] = Read(n, texts[n])
  \/ n = "waitb" /\ values[n] = texts[n]
  \/ n \in Window /\ "zoom" \in group /\ texts["zoom"] # "true"
InUse == \A n \in group \ unsent : Agrees(cc, config, n)

\* What is about to be sent has been written, and so has what a page shows that nobody has touched.
PagesSound ==
  /\ phase = "saving" => page # Nothing /\ Written = config
  /\ page = "configuration" /\ ~touched => Written = config
  /\ phase = "asked" => page = "reference"

Inductive ==
  TypeOK /\ TrialExposes /\ RoundExposes /\ ZoomInside /\ ValuesSound /\ InUse /\ PagesSound
=============================================================================
