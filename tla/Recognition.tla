------------------------------ MODULE Recognition ------------------------------
(***************************************************************************)
(* From the picture of a round to what its dials show: the two reference   *)
(* marks are looked for (ClassFlowAlignment, CFindTemplate), the picture   *)
(* is moved so that they are where they should be, a piece is cut out for  *)
(* each dial (CAlignAndCutImage) and a network looks at the pieces         *)
(* (ClassFlowCNNGeneral, CTfLiteClass); or the polar reader registers the  *)
(* picture itself and reads six dials or none.  The model file, the        *)
(* templates and align.txt are on the card, where an upload replaces them  *)
(* and a power loss cuts their writing short.                              *)
(***************************************************************************)
EXTENDS Integers, Sequences, FiniteSets

CONSTANTS
  Places,    \* Places[m]: where mark m may be in a picture
  Window,    \* Window[m]: those within its search field
  Count,     \* how many dials there are
  Fits,      \* the dials whose piece lies within the picture
  Setups,    \* what the configuration asks for: reader and alignment
  Networks,  \* the kinds of network (t_CNNType) that are used
  Unset,
  Part       \* a line of a file that is cut short

Marks == {1, 2}
Dials == 1..Count

\* What the constants must be; assumed where they have values.
RecognitionAssumption ==
  /\ \A m \in Marks : Window[m] \subseteq Places[m] /\ Unset \notin Places[m]
  /\ Places[1] \cap Places[2] = {}
  /\ \A m \in Marks : Part \notin Places[m]
  /\ Unset \notin {Part, << >>}
  /\ Networks \subseteq {"Analogue", "Analogue100", "Digit", "Digit100", "DoubleHyprid10"}
  /\ Count \in Nat \ {0} /\ Fits \subseteq Dials
  /\ Setups \subseteq [reader : {"tflite", "polar", "unsupported"},
                       algo : {"default", "fast", "off"}]

VARIABLES
  setup,     \* the configuration in use
  network,   \* the model on the card: its kind, "foreign" or "unusable"; or "bundle", both models
             \* of the polar reader
  type,      \* CNNType, or "auto" when the model's was not recognised
  disabled,
  template,  \* template[m]: the picture of mark m on the card can be read
  fast,      \* References[m].fastalg_x and _y
  found,     \* References[m].found_x and _y
  saved,     \* the lines of align.txt, or Unset
  place,     \* where the marks are in this round's picture
  stage,     \* progress of the round
  dial,      \* the dial the polar reader has come to
  piece,     \* piece[d]: of which picture image_org is, and whether moved as it should
  result,    \* result[d]: of which piece, and whether it is accepted
  okay,      \* the round has come this far without an error
  doubt      \* history: what has gone wrong that the code does not look at

config == <<setup, type, disabled>>
card   == <<network, template, saved>>
marks  == <<fast, found, place>>
dials  == <<piece, result>>
vars   == <<config, card, marks, stage, dial, dials, okay, doubt>>

Kinds  == Networks \cup {"foreign"}
Models == (IF setup.reader = "polar" THEN {"bundle"} ELSE Kinds) \cup {"unusable"}
Seen   == {"nothing", "older", "own", "foreign"}

------------------------------------------------------------------------------
(* align.txt: a line for each mark.  When the last line is missing fgets   *)
(* leaves the line before it in the buffer, which is read again; a line    *)
(* that is cut short is turned down, with what was read before it in use.  *)
Readable(file) == file \notin {Unset, << >>} /\ file[Len(file)] # Part
Remembered(file, default) ==
  IF file \in {Unset, << >>} THEN default
  ELSE IF Len(file) = 1 THEN <<file[1], file[1]>>
  ELSE <<file[1], IF file[2] = Part THEN default[2] ELSE file[2]>>

\* What a card keeps of the file when it takes only part of it; without a whole line of a mark
\* there is nothing in it.
CutShort(file) == {<< >>, <<file[1]>>, <<file[1], Part>>}

(* CFindTemplate::FindTemplate for mark m; `similar` is the verdict on the *)
(* remembered place, which compares more than the template, and `p` what a *)
(* search of the whole field comes to.                                     *)
MayBeSimilar(m) == setup.algo = "fast" /\ fast[m] # Unset /\ template[m]
Searched(m)     == IF place[m] \in Window[m] THEN {place[m]} ELSE Window[m]
Found(m, similar, p) ==
  IF ~template[m] THEN found[m] ELSE IF similar THEN fast[m] ELSE p
Fast(m, similar, p) ==
  IF ~template[m] \/ similar THEN fast[m] ELSE p

(* getNetworkParameter of the reader that was asked for: a reader nobody   *)
(* knows is refused, and PolarV1 takes the models of its bundle only and   *)
(* a picture that nobody else moves (HasFrozenPolarAlignment).             *)
Valid(model) ==
  CASE setup.reader = "tflite" -> model \in Kinds
    [] setup.reader = "polar"  -> model = "bundle" /\ setup.algo = "off"
    [] OTHER                   -> FALSE
TypeOf(model) ==
  IF setup.reader = "polar" /\ Valid(model) THEN "Analogue"
  ELSE IF setup.reader # "unsupported" /\ model \in Networks THEN model ELSE "auto"

\* isReject: one type has a fit that is compared with a threshold, two are always accepted, and
\* the others leave what was there.
Accepted(d, rejected) ==
  CASE type = "DoubleHyprid10"              -> d \notin rejected
    [] type \in {"Analogue100", "Digit100"} -> TRUE
    [] OTHER                                -> result[d].accepted

MaybeUnset(S) == S \cup {Unset}

NoMarks   == <<Unset, Unset>>
NoPieces  == [d \in Dials |-> [of |-> "nothing", moved |-> FALSE]]
NoResults == [d \in Dials |-> [of |-> "nothing", accepted |-> FALSE]]
Pictures  == {p \in [Marks -> Places[1] \cup Places[2]] : \A m \in Marks : p[m] \in Places[m]}

(* A device that has never aligned a picture, as InitFlow sets it up.      *)
Init ==
  /\ setup \in Setups
  /\ network \in Models /\ disabled = ~Valid(network) /\ type = TypeOf(network)
  /\ template \in [Marks -> BOOLEAN] /\ saved = Unset
  /\ fast = NoMarks /\ found = NoMarks /\ place \in Pictures
  /\ stage = "idle" /\ dial = 1 /\ okay = FALSE /\ doubt = {}
  /\ piece = NoPieces /\ result = NoResults

------------------------------------------------------------------------------
Fails ==
  stage' = "idle" /\ okay' = FALSE

Ageing(of) == IF of = "own" THEN "older" ELSE of

(* The picture of a round is in rawImage, and AlignAndCutImage is on it.   *)
TakePicture ==
  /\ stage = "idle"
  /\ place' \in Pictures
  /\ piece' = [d \in Dials |-> [piece[d] EXCEPT !.of = Ageing(@)]]
  /\ result' = [d \in Dials |-> [result[d] EXCEPT !.of = Ageing(@)]]
  /\ stage' = "align" /\ okay' = FALSE
  /\ doubt' = doubt \cap {"cut"}
  /\ UNCHANGED <<config, card, fast, found, dial>>

NotAligned ==
  /\ stage = "align" /\ setup.algo = "off"
  /\ stage' = "cut"
  /\ UNCHANGED <<config, card, marks, dial, dials, okay, doubt>>

(* CAlignAndCutImage::Align moves and turns the picture by what was found, *)
(* whether or not the templates could be read.                             *)
Align ==
  /\ stage = "align" /\ setup.algo # "off"
  /\ \E similar \in [Marks -> BOOLEAN], p \in [Marks -> UNION {Window[m] : m \in Marks}] :
       /\ \A m \in Marks : p[m] \in Searched(m) /\ (similar[m] => MayBeSimilar(m))
       /\ found' = [m \in Marks |-> Found(m, similar[m], p[m])]
       /\ fast' = [m \in Marks |-> Fast(m, similar[m], p[m])]
       /\ stage' = IF \A m \in Marks : similar[m] THEN "load" ELSE "save"
       /\ doubt' = doubt \cup {"template" : m \in {x \in Marks : ~template[x]}}
                         \cup {"window" : m \in {x \in Marks : place[x] \notin Window[x]}}
                         \cup {"similar" : m \in {x \in Marks : similar[x] /\ fast[x] # place[x]}}
  /\ UNCHANGED <<config, card, place, dial, dials, okay>>

SaveReferenceAlignmentValues ==
  /\ stage = "save"
  /\ saved' = fast
  /\ stage' = "load"
  /\ UNCHANGED <<config, network, template, marks, dial, dials, okay, doubt>>

(* A card that takes only part of what is written is not noticed before    *)
(* the file is read again.                                                 *)
SavesPart ==
  /\ stage = "save"
  /\ saved' \in CutShort(fast)
  /\ stage' = "load"
  /\ doubt' = doubt \cup {"cut"}
  /\ UNCHANGED <<config, network, template, marks, dial, dials, okay>>

LoadReferenceAlignmentValues ==
  /\ stage = "load"
  /\ fast' = Remembered(saved, fast)
  /\ IF Readable(saved) THEN stage' = "cut" /\ okay' = okay ELSE Fails
  /\ UNCHANGED <<config, card, found, place, dial, dials, doubt>>

(* Nothing can be read from an empty file: the buffer on the stack is used *)
(* as it is, and may hold a line that was read earlier.                    *)
LoadsLeftover ==
  /\ stage = "load" /\ saved = << >>
  /\ \E p \in MaybeUnset(Window[1] \cup Window[2]) : fast' = <<p, p>>
  /\ stage' = "cut"
  /\ UNCHANGED <<config, card, found, place, dial, dials, okay, doubt>>

Moved == setup.algo = "off" \/ found = place

(* ClassFlowCNNGeneral::doFlow of a flow that could not be set up: without *)
(* an explicit reader it has nothing to do.                                *)
Disabled ==
  /\ stage = "cut" /\ disabled
  /\ stage' = "idle" /\ okay' = (setup.reader = "tflite")
  /\ UNCHANGED <<config, card, marks, dial, dials, doubt>>

\* It returns without a word when the piece does not fit.
CutAndSave(d) == IF d \in Fits THEN [of |-> "own", moved |-> Moved] ELSE piece[d]

DoAlignAndCut ==
  /\ stage = "cut" /\ ~disabled /\ setup.reader = "tflite"
  /\ piece' = [d \in Dials |-> CutAndSave(d)]
  /\ stage' = "net"
  /\ UNCHANGED <<config, card, marks, dial, result, okay, doubt>>

(* ReadFileToModel, or MakeAllocate with a model that was read.            *)
LoadFails ==
  /\ stage = "net"
  /\ Fails
  /\ UNCHANGED <<config, card, marks, dial, dials, doubt>>

(* The network takes what it was given at the type the flow was set up     *)
(* with; Invoke's status is dropped, so a dial it fails on shows what the  *)
(* tensor held before; a value may be turned down for its fit.             *)
DoNeuralNetwork ==
  /\ stage = "net" /\ network \in Kinds
  /\ \E failed, rejected \in SUBSET Dials :
       /\ result' = [d \in Dials |->
            IF type = "auto" THEN result[d]
            ELSE [of |-> IF network # type \/ d \in failed THEN "foreign" ELSE piece[d].of,
                  accepted |-> Accepted(d, rejected)]]
       /\ doubt' = doubt \cup (IF failed # {} THEN {"invoke"} ELSE {})
                         \cup (IF network # type THEN {"network"} ELSE {})
  /\ stage' = "idle" /\ okay' = TRUE
  /\ UNCHANGED <<config, card, marks, dial, piece>>

------------------------------------------------------------------------------
(* A dial shown as soon as it has been read.                               *)
PolarDialShown ==
  /\ stage = "polar" /\ dial <= Count
  /\ dial \in {1, Count} => network = "bundle"
  /\ piece' = [piece EXCEPT ![dial] = [of |-> "own", moved |-> TRUE]]
  /\ result' = [result EXCEPT ![dial] = [of |-> "own", accepted |-> TRUE]]
  /\ dial' = dial + 1
  /\ UNCHANGED <<config, card, marks, stage, okay, doubt>>

(* The polar reader (doPolarNetwork): nothing of the last round is left    *)
(* before anything can fail, and nothing of this one is shown before       *)
(* everything has succeeded.                                               *)
PolarBegins ==
  /\ stage = "cut" /\ ~disabled /\ setup.reader = "polar"
  /\ result' = [d \in Dials |-> [of |-> "nothing", accepted |-> FALSE]]
  /\ stage' = "polar" /\ dial' = 1
  /\ UNCHANGED <<config, card, marks, piece, okay, doubt>>

(* Geometry, picture, models by their digests, workspace, registration,    *)
(* any dial, the preview or the accounting may turn the picture down.      *)
PolarFails ==
  /\ stage = "polar" /\ Fails
  /\ UNCHANGED <<config, card, marks, dial, dials, doubt>>

PolarDial ==
  /\ stage = "polar" /\ dial <= Count
  /\ dial \in {1, Count} => network = "bundle"   \* loadRole, Main and Secondary
  /\ piece' = [piece EXCEPT ![dial] = [of |-> "own", moved |-> TRUE]]
  /\ dial' = dial + 1
  /\ UNCHANGED <<config, card, marks, stage, result, okay, doubt>>

PolarPublishes ==
  /\ stage = "polar" /\ dial = Count + 1
  /\ result' = [d \in Dials |-> [of |-> piece[d].of, accepted |-> TRUE]]
  /\ stage' = "idle" /\ okay' = TRUE
  /\ UNCHANGED <<config, card, marks, dial, piece, doubt>>

------------------------------------------------------------------------------
(* The file manager and the pages that make a reference picture.           *)
Upload ==
  /\ \/ network' \in Models \ {network} /\ UNCHANGED template
     \/ \E m \in Marks : template' = [template EXCEPT ![m] = ~@] /\ UNCHANGED network
  /\ UNCHANGED <<config, saved, marks, stage, dial, dials, okay, doubt>>

(* align.txt that cannot be opened for writing ends in a restart as well.  *)
Restart ==
  /\ \/ UNCHANGED saved /\ doubt' = doubt \cap {"cut"}
     \/ /\ stage = "save"
        /\ saved' \in CutShort(fast)
        /\ doubt' = {"cut"}
  /\ fast' = IF setup.algo = "off" THEN NoMarks ELSE Remembered(saved', NoMarks)
  /\ found' = NoMarks
  /\ disabled' = ~Valid(network) /\ type' = TypeOf(network)
  /\ piece' = NoPieces /\ result' = NoResults
  /\ stage' = "idle" /\ dial' = 1 /\ okay' = FALSE
  /\ UNCHANGED <<setup, network, template, place>>

Next ==
  \/ TakePicture \/ NotAligned \/ Align
  \/ SaveReferenceAlignmentValues \/ SavesPart \/ LoadReferenceAlignmentValues \/ LoadsLeftover
  \/ Disabled \/ DoAlignAndCut \/ LoadFails \/ DoNeuralNetwork
  \/ PolarBegins \/ PolarFails \/ PolarDial \/ PolarPublishes
  \/ Upload \/ Restart

Spec == Init /\ [][Next]_vars

------------------------------------------------------------------------------
Remembers(file) ==
  \/ file = << >>
  \/ \E first \in MaybeUnset(Window[1] \cup Window[2]) :
       \/ file = <<first>>
       \/ \E second \in MaybeUnset(Window[1] \cup Window[2]) \cup {Part} : file = <<first, second>>
ReaderTypes ==
  /\ setup \in Setups /\ network \in Models /\ type \in Networks \cup {"auto", "Analogue"}
  /\ disabled \in BOOLEAN /\ okay \in BOOLEAN
  /\ stage \in {"idle", "align", "save", "load", "cut", "net", "polar"}
  /\ doubt \subseteq {"template", "window", "similar", "cut", "invoke", "network"}
MarkTypes ==
  /\ template \in [Marks -> BOOLEAN] /\ place \in Pictures
  /\ fast \in [Marks -> MaybeUnset(Window[1] \cup Window[2])]
  /\ found \in [Marks -> MaybeUnset(Window[1] \cup Window[2])]
  /\ saved = Unset \/ Remembers(saved)
DialTypes ==
  /\ dial \in 1..(Count + 1)
  /\ piece \in [Dials -> [of : Seen, moved : BOOLEAN]]
  /\ result \in [Dials -> [of : Seen, accepted : BOOLEAN]]
TypeOK == ReaderTypes /\ MarkTypes /\ DialTypes

Rested == stage = "idle" /\ okay

(* After a round without an error every dial whose piece lies within the   *)
(* picture shows what was read from its own piece of this round's picture, *)
(* as long as the model is of the kind that was looked at when the flow    *)
(* was set up and no inference failed (doAlignAndCut, doNeuralNetwork).    *)
ReadFromOwnPicture ==
  Rested /\ ~disabled /\ type # "auto" /\ doubt \cap {"invoke", "network"} = {} =>
    \A d \in Dials : setup.reader = "polar" \/ d \in Fits => result[d].of = "own"

(* The pieces are cut where the marks say, unless a template could not be  *)
(* read, a mark left its search field, or a picture that only resembles    *)
(* the remembered one passed for it (CAlignAndCutImage::Align).            *)
CutWhereMarked ==
  Rested /\ doubt \cap {"template", "window", "similar"} = {} =>
    \A d \in Dials : piece[d].of = "own" => piece[d].moved

(* The polar reader shows all dials of one picture or none, at any moment  *)
(* somebody looks; and a reader that was asked for and cannot be set up    *)
(* ends no round well (doPolarNetwork, ClassFlowCNNGeneral::doFlow).       *)
AllDialsOrNone ==
  setup.reader # "tflite" =>
    /\ \/ \A d \in Dials : ~result[d].accepted
       \/ \E of \in {"own", "older"} : \A d \in Dials : result[d] = [of |-> of, accepted |-> TRUE]
    /\ Rested => ~disabled /\ \A d \in Dials : result[d].accepted

(* What is remembered of a mark is a place that mark was found at, through *)
(* restarts and uploads, unless align.txt was cut short; and the round     *)
(* that ends well leaves in memory what a restart would read from a file   *)
(* (SaveReferenceAlignmentValues, LoadReferenceAlignmentValues).           *)
RemembersOwnMark ==
  /\ "cut" \notin doubt => \A m \in Marks : fast[m] \in MaybeUnset(Window[m])
  /\ Rested /\ setup.algo # "off" /\ saved # << >> => fast = Remembered(saved, NoMarks)

RecognitionTrue ==
  ReadFromOwnPicture /\ CutWhereMarked /\ AllDialsOrNone /\ RemembersOwnMark

------------------------------------------------------------------------------
(* The inductive invariant                                                 *)

\* What a reader relies on when a round has come to a step.
StageSound ==
  /\ okay => stage = "idle"
  /\ setup.reader = "unsupported" => disabled
  /\ stage = "net" => setup.reader = "tflite" /\ ~disabled
  /\ stage = "polar" => setup.reader = "polar" /\ ~disabled
  /\ stage \in {"save", "load"} => setup.algo # "off"

\* The pieces are of this picture from the cut on, in order for the polar reader, and from the
\* place where the marks are.
PiecesSound ==
  /\ stage \in {"align", "save", "load", "cut"} => \A d \in Dials : piece[d].of # "own"
  /\ stage = "net" => \A d \in Fits : piece[d].of = "own"
  /\ stage = "polar" => \A d \in Dials : IF d < dial THEN piece[d] = [of |-> "own", moved |-> TRUE]
                                         ELSE piece[d].of # "own"
  /\ stage \in {"net", "polar"} /\ doubt \cap {"template", "window", "similar"} = {} =>
       \A d \in Dials : piece[d].of = "own" => piece[d].moved

\* What was looked for is found, unless there is a doubt.
MarksFound ==
  stage \in {"save", "load", "cut", "net", "polar"} /\ setup.algo # "off"
    /\ doubt \cap {"template", "window", "similar"} = {} => found = place

\* align.txt remembers each mark's own places, and once it was read again memory has what it has.
FileSound ==
  /\ "cut" \notin doubt /\ saved # Unset =>
       saved \in [Marks -> MaybeUnset(Window[1] \cup Window[2])] /\ \A m \in Marks : saved[m] \in MaybeUnset(Window[m])
  /\ stage \in {"cut", "net", "polar"} /\ setup.algo # "off" /\ saved # << >> =>
       Readable(saved) /\ fast = Remembered(saved, NoMarks)

Inductive == TypeOK /\ RecognitionTrue /\ StageSound /\ PiecesSound /\ MarksFound /\ FileSound
=============================================================================
