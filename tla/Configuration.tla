------------------------------ MODULE Configuration ------------------------------
(***************************************************************************)
(* How config.ini becomes the stages of a round.  InitFlow looks at the    *)
(* line in hand: a known header makes a stage, which then reads its own    *)
(* lines and leaves the next header in hand; any other line is skipped.    *)
(* So every stage decides where its section ends, and which of the lines   *)
(* in between count for which number.  A line is a record: a header that   *)
(* is on or commented out, a setting, the place of a dial or a comment.    *)
(***************************************************************************)
EXTENDS Naturals, Sequences, FiniteSets

CONSTANTS Files,      \* the files: sequences of lines
          Supported,  \* the sections this build has stages for
          Inits,      \* bound on the calls of doInit
          Memory,     \* stages the memory has room for
          None

\* The sections by how they are read: pictures and marks, the readers, the rest.
Plain    == {"TakeImage", "Alignment"}
Readers  == {"Analog", "Digits"}
Own      == {"System", "AutoTimer", "Debug", "DataLogging"}
SectionNames == Plain \union Readers \union Own \union {"PostProcessing", "MQTT"}
Exact    == Plain \union {"PostProcessing"}

Header(s, on, exact)   == [is |-> "header", section |-> s, on |-> on, exact |-> exact]
Setting(key, number, v) == [is |-> "setting", key |-> key, number |-> number, value |-> v]
Dial(number)           == [is |-> "dial", number |-> number]
Comment                == [is |-> "comment"]
Keys    == {"SaveAllFiles", "DecimalShift", "DomoticzIDX", "Reader"}
Known   == [s \in SectionNames |->
              CASE s \in Plain -> {"SaveAllFiles"} [] s \in Readers -> {"SaveAllFiles", "Reader"}
                [] s = "PostProcessing" -> {"DecimalShift"} [] s = "MQTT" -> {"DomoticzIDX"}
                [] OTHER -> {"SaveAllFiles"}]

HeaderLines(f) == {n \in DOMAIN f : f[n].is = "header"}

\* What the constants must be; assumed where they have values.
ConfigurationAssumption ==
  /\ Files # {} /\ \A f \in Files : DOMAIN f = 1..Len(f) /\ Len(f) \in Nat
  /\ \A f \in Files : \A n \in DOMAIN f :
       /\ f[n].is \in {"header", "setting", "dial", "comment"}
       /\ f[n].is = "dial" => f[n].number # None
       /\ f[n].is = "header" => f[n].on \in BOOLEAN /\ f[n].exact \in BOOLEAN
  /\ "PostProcessing" \in Supported /\ Supported \subseteq SectionNames
  /\ Inits \in Nat \ {0} /\ Memory \in Nat \ {0}
  \* There is memory for the stages of one file.
  /\ \A f \in Files : Cardinality(HeaderLines(f)) <= Memory

VARIABLES
  file,    \* config.ini as InitFlow has opened it
  at,      \* "idle", "flows" (InitFlow), "section" (ReadParameter of the last stage) or "crashed"
  line,    \* the line in hand, by its place
  flows,   \* FlowControll: section, line of the header, disabled, numbers and settings of every stage
  own,     \* the settings of ClassFlowControll itself
  reading, \* the stage whose section is read: its place in flows, or 0 for ClassFlowControll
  first,   \* the first stage of the last InitFlow
  inits    \* how often InitFlow has been called

vars == <<file, at, line, flows, own, reading, first, inits>>

Init ==
  /\ file = <<>> /\ at = "idle" /\ line = 0 /\ flows = <<>> /\ own = None
  /\ reading = 0 /\ first = 1 /\ inits = 0

------------------------------------------------------------------------------
IsHeader(n) == n <= Len(file) /\ file[n].is = "header"

\* getNextLine: comments and empty lines are passed over; one behind the last line is the end.
NextLine(n) ==
  CHOOSE m \in (n + 1)..(Len(file) + 1) :
    /\ m = Len(file) + 1 \/ file[m].is # "comment"
    /\ \A k \in (n + 1)..(m - 1) : file[k].is = "comment"

\* The last stage of a section that has been made, 0 when there is none.
LastOf(section) ==
  LET Of == {i \in DOMAIN flows : flows[i].section = section}
  IN IF Of = {} THEN 0 ELSE CHOOSE i \in Of : \A j \in Of : j <= i

\* The names in a list of numbers, which has with each the line of its first dial.
NamesOf(numbers) == {e.name : e \in numbers}

\* GetGENERAL and UpdateNameNumbers: a name that is in the list is not added to it.
With(numbers, more) == numbers \union {e \in more : e.name \notin NamesOf(numbers)}

\* The numbers of the digits, then those of the dials.
NumbersOf(readers) ==
  LET Listed(i) == IF i = 0 THEN {} ELSE flows[i].numbers
  IN With(Listed(readers["Digits"]), Listed(readers["Analog"]))

Stage(section) ==
  [section |-> section, header |-> line, disabled |-> FALSE,
   \* InitNUMBERS takes the readers as they were when the stage was made.
   numbers |-> IF section = "PostProcessing" THEN NumbersOf([r \in Readers |-> LastOf(r)]) ELSE {},
   \* ClassFlowMQTT looks for the post processing in the list.
   post |-> IF section = "MQTT" THEN LastOf("PostProcessing") ELSE 0,
   set |-> {}]

\* A value that comes later counts instead of one that came before.
Put(set, key, numbers, v) ==
  {s \in set : s.key # key \/ s.number \notin numbers}
    \union {[key |-> key, number |-> n, value |-> v] : n \in numbers}

\* The numbers a setting is for: one by its name, or all of them.
For(numbers, number) == {n \in NamesOf(numbers) : number \in {"default", n}}

------------------------------------------------------------------------------
\* The file is opened and its first line is in hand.  The stages of an earlier call stay.
InitFlow ==
  /\ at \in {"idle", "crashed"} /\ inits < Inits
  /\ \E f \in Files : file' = f
  /\ IF at = "crashed" THEN flows' = <<>> /\ own' = None /\ first' = 1     \* a restart
     ELSE first' = Len(flows) + 1 /\ UNCHANGED <<flows, own>>
  /\ at' = "flows" /\ line' = 1 /\ reading' = 0 /\ inits' = inits + 1

\* CreateClassFlow knows the header.  A stage that wants its header spelled exactly turns
\* it down otherwise, and the line stays in hand.
Create ==
  /\ at = "flows" /\ IsHeader(line) /\ file[line].on /\ file[line].section \in Supported
  /\ IF file[line].section \in Own
     THEN at' = "section" /\ reading' = 0 /\ UNCHANGED flows
     ELSE /\ Len(flows) < Memory
          /\ flows' = Append(flows, Stage(file[line].section))
          /\ at' = (IF file[line].section \in Exact /\ ~file[line].exact THEN "flows" ELSE "section")
          /\ reading' = Len(flows')
  /\ UNCHANGED <<file, line, own, first, inits>>

\* No memory is left for another stage.
OutOfMemory ==
  /\ at = "flows" /\ IsHeader(line) /\ file[line].on /\ file[line].section \in Supported \ Own
  /\ Len(flows) = Memory /\ at' = "crashed"
  /\ UNCHANGED <<file, line, flows, own, reading, first, inits>>

\* Any other line: a section that is commented out or unknown, or the rest of one that was given up.
Skip ==
  /\ at = "flows" /\ line <= Len(file)
  /\ ~(IsHeader(line) /\ file[line].on /\ file[line].section \in Supported)
  /\ line' = line + 1
  /\ UNCHANGED <<file, at, flows, own, reading, first, inits>>

Done ==
  /\ at = "flows" /\ line > Len(file) /\ at' = "idle"
  /\ UNCHANGED <<file, line, flows, own, reading, first, inits>>

------------------------------------------------------------------------------
(* ReadParameter of the stage: the next line of its section                *)

section == IF reading = 0 THEN "System" ELSE flows[reading].section

Takes(is) ==
  /\ at = "section"
  /\ line' = NextLine(line) /\ line' <= Len(file) /\ file[line'].is = is
  /\ UNCHANGED <<file, reading, first, inits>>

ReadUnknown ==
  /\ \/ Takes("setting") /\ file[line'].key \notin Known[section]
     \/ Takes("dial") /\ section \notin Readers
  /\ UNCHANGED <<at, flows, own>>

ReadOwn ==
  /\ Takes("setting") /\ reading = 0 /\ file[line'].key \in Known[section]
  /\ own' = file[line'].value /\ UNCHANGED <<at, flows>>

ReadSetting ==
  /\ Takes("setting") /\ reading # 0 /\ section \in Plain \union Readers /\ file[line'].key = "SaveAllFiles"
  /\ flows' = [flows EXCEPT ![reading].set = Put(@, "SaveAllFiles", {None}, file[line'].value)]
  /\ UNCHANGED <<at, own>>

\* Mutant: a setting without a name is only for the numbers that have none of their own yet.
ReadNumberSettingMissing ==
  /\ Takes("setting") /\ section = "PostProcessing" /\ file[line'].key = "DecimalShift"
  /\ flows' = [flows EXCEPT ![reading].set =
       Put(@, "DecimalShift",
           {n \in For(flows[reading].numbers, file[line'].number) :
              file[line'].number = "default" => \A s \in flows[reading].set : s.number # n},
           file[line'].value)]
  /\ UNCHANGED <<at, own>>

\* handleDecimalSeparator and the like: for the number with that name, or for every one.
ReadNumberSetting ==
  /\ Takes("setting") /\ section = "PostProcessing" /\ file[line'].key = "DecimalShift"
  /\ flows' = [flows EXCEPT ![reading].set =
       Put(@, "DecimalShift", For(flows[reading].numbers, file[line'].number), file[line'].value)]
  /\ UNCHANGED <<at, own>>

\* handleIdx writes into the numbers of the post processing, wherever that is.
ReadIdx ==
  /\ Takes("setting") /\ section = "MQTT" /\ file[line'].key = "DomoticzIDX"
  /\ LET post == flows[reading].post
     IN IF post = 0 THEN at' = "crashed" /\ UNCHANGED flows
        ELSE /\ flows' = [flows EXCEPT ![post].set =
                  Put(@, "DomoticzIDX", For(flows[post].numbers, file[line'].number), file[line'].value)]
             /\ UNCHANGED at
  /\ UNCHANGED own

\* A reader that is not supported, or not for these: the rest of the section is not read.
ReadReader ==
  /\ Takes("setting") /\ section \in Readers /\ file[line'].key = "Reader"
  /\ IF section = "Analog" /\ file[line'].value = "PolarV1"
     THEN UNCHANGED <<at, flows>>
     ELSE at' = "flows" /\ flows' = [flows EXCEPT ![reading].disabled = TRUE]
  /\ UNCHANGED own

\* GetGENERAL: a dial, or a digit, of a number.
ReadDial ==
  /\ Takes("dial") /\ section \in Readers
  /\ flows' = [flows EXCEPT ![reading].numbers = With(@, {[name |-> file[line'].number, line |-> line']})]
  /\ UNCHANGED <<at, own>>

\* The next header, or the end: it stays in hand.  A reader whose network does not load is disabled.
SectionEnds ==
  /\ at = "section"
  /\ line' = NextLine(line) /\ (line' <= Len(file) => file[line'].is = "header")
  /\ at' = "flows"
  /\ \/ UNCHANGED flows
     \/ section \in Readers /\ flows' = [flows EXCEPT ![reading].disabled = TRUE]
  /\ UNCHANGED <<file, own, reading, first, inits>>

Next ==
  \/ InitFlow \/ Create \/ OutOfMemory \/ Skip \/ Done
  \/ ReadUnknown \/ ReadOwn \/ ReadSetting \/ ReadNumberSetting \/ ReadIdx \/ ReadReader \/ ReadDial
  \/ SectionEnds

Spec == Init /\ [][Next]_vars

------------------------------------------------------------------------------
(* What the file says, whoever reads it                                    *)

\* The lines of the section that begins with this header.
LinesOf(h) ==
  {n \in (h + 1)..Len(file) : file[n].is # "comment" /\ \A k \in (h + 1)..n : file[k].is # "header"}

\* A reader has read its section up to the first line it cannot accept.
Accepted(h, s) ==
  {n \in LinesOf(h) : s \in Readers =>
     \A k \in LinesOf(h) : k <= n /\ file[k].is = "setting" /\ file[k].key = "Reader"
                           => s = "Analog" /\ file[k].value = "PolarV1"}

Written(s) == {h \in 1..Len(file) : file[h].is = "header" /\ file[h].on /\ file[h].section = s}

\* The last line for this key and this number says what it is.
LastValue(lines, key, number) ==
  LET of == {n \in lines : /\ file[n].is = "setting" /\ file[n].key = key
                           /\ number = None \/ file[n].number \in {"default", number}}
  IN IF of = {} THEN {} ELSE {[key |-> key, number |-> number,
                               value |-> file[CHOOSE n \in of : \A k \in of : k <= n].value]}

Misspelt   == \E s \in Exact \intersect Supported : \E h \in Written(s) : ~file[h].exact
Misordered ==
  \E h \in Written("MQTT") :
    /\ \E n \in LinesOf(h) : file[n].is = "setting" /\ file[n].key = "DomoticzIDX"
    /\ \A p \in Written("PostProcessing") : h < p

TypeOK ==
  /\ at \in {"idle", "flows", "section", "crashed"} /\ line \in 0..(Len(file) + 1)
  /\ Len(flows) <= Memory /\ reading \in 0..Len(flows) /\ first \in 1..(Len(flows) + 1) /\ inits \in 0..Inits
  /\ \A i \in DOMAIN flows : flows[i].section \in SectionNames \ Own /\ flows[i].post \in 0..Len(flows)

(* When the file has been read, the stages of this call are those of the   *)
(* sections that are switched on, in their order, and each has what its    *)
(* own section says: for every number what was said last, be it by its     *)
(* name or for all, with the numbers of the readers that came before; a    *)
(* line of a section that is commented out, of another section, or behind  *)
(* a reader that was turned down counts nowhere.  Reading comes to its end *)
(* unless a section wants its header spelled exactly and does not find it, *)
(* or MQTT counts numbers before there is a post processing                *)
(* (InitFlow, ReadParameter of the stages, handleDecimalSeparator).        *)
ConfigurationTrue ==
  /\ at = "idle" /\ inits > 0 =>
       LET now     == first..Len(flows)
           headers == {flows[i].header : i \in now}
       IN /\ headers = UNION {Written(s) : s \in Supported \ Own}
          /\ \A i, j \in now : i < j <=> flows[i].header < flows[j].header
          /\ \A i \in now :
               LET s == flows[i].section
                   lines == Accepted(flows[i].header, s)
               IN /\ flows[i].header \in Written(s)
                  /\ s \in Plain \union Readers => flows[i].set = LastValue(lines, "SaveAllFiles", None)
                  /\ s \in Readers =>
                       NamesOf(flows[i].numbers) = {file[n].number : n \in {k \in lines : file[k].is = "dial"}}
                  /\ s = "PostProcessing" =>
                       /\ \A d, e \in flows[i].numbers : d.name = e.name => d = e
                       /\ {v \in flows[i].set : v.key = "DecimalShift"} =
                            UNION {LastValue(lines, "DecimalShift", n) : n \in NamesOf(flows[i].numbers)}
                       /\ LET from == {m \in now : flows[m].section = "MQTT" /\ flows[m].post = i}
                          IN {v \in flows[i].set : v.key = "DomoticzIDX"} =
                               UNION {LastValue(UNION {LinesOf(flows[m].header) : m \in from}, "DomoticzIDX", n) :
                                        n \in NamesOf(flows[i].numbers)}
  /\ at = "crashed" => Misspelt \/ Misordered \/ (Len(flows) = Memory /\ first > 1)

------------------------------------------------------------------------------
(* The inductive invariant of the proofs.                                  *)

Now == first..Len(flows)

\* The lines that the stage has been given so far.
Got(i) == {n \in Accepted(flows[i].header, flows[i].section) : n <= line}

\* The stage has turned its header down, which is still the line in hand.
Stuck(i) ==
  /\ at = "flows" /\ flows[i].header = line
  /\ flows[i].section \in Exact /\ ~file[line].exact

\* The lists of all stages, those of an earlier call as well.
StagesSound ==
  /\ file \in Files \union {<<>>} /\ (at # "idle" => file \in Files /\ line > 0)
  /\ at = "idle" /\ inits > 0 => line > Len(file)
  /\ flows \in Seq({flows[i] : i \in DOMAIN flows})
  /\ \A i \in DOMAIN flows :
       /\ DOMAIN flows[i] = {"section", "header", "disabled", "numbers", "post", "set"}
       /\ \A d, e \in flows[i].numbers : d.name = e.name => d = e
       /\ None \notin NamesOf(flows[i].numbers)
       /\ flows[i].post # 0 => flows[flows[i].post].section = "PostProcessing"

\* The stages of this call are those of the headers that are behind, in their order.
HeadersMade ==
  /\ \A i \in Now :
       /\ flows[i].section \in Supported \ Own /\ flows[i].header \in Written(flows[i].section)
       /\ flows[i].header < line \/ Stuck(i) \/ (at = "section" /\ reading = i /\ flows[i].header = line)
       /\ \A j \in Now : i < j => flows[i].header < flows[j].header \/ (Stuck(i) /\ Stuck(j))
       /\ flows[i].section = "MQTT" /\ flows[i].post = 0 =>
            \A j \in Now : flows[j].section = "PostProcessing" => i < j
  /\ \A s \in Supported \ Own : \A h \in Written(s) :
       h < line \/ (h = line /\ at = "section") => \E i \in Now : flows[i].header = h

\* The section that is read goes on to the line in hand.
SectionOpen ==
  at = "section" =>
    /\ line \in 1..Len(file)
    /\ reading # 0 =>
         /\ reading = Len(flows) /\ reading \in Now
         /\ line = flows[reading].header \/ line \in Accepted(flows[reading].header, section)

\* The sections of all other stages are behind.
SectionsOver ==
  \A i \in Now : (at = "section" /\ reading = i) \/ Stuck(i) \/
    \A n \in Accepted(flows[i].header, flows[i].section) : n <= line

\* What a stage has is what the lines say that it has been given.
SettingsRead ==
  \A i \in Now : flows[i].section \in Plain \union Readers =>
    flows[i].set = LastValue(Got(i), "SaveAllFiles", None)
DialsRead ==
  \A i \in Now : flows[i].section \in Readers =>
    NamesOf(flows[i].numbers) = {file[n].number : n \in {k \in Got(i) : file[k].is = "dial"}}
ShiftsRead ==
  \A i \in Now : flows[i].section = "PostProcessing" =>
    {v \in flows[i].set : v.key = "DecimalShift"} =
      UNION {LastValue(Got(i), "DecimalShift", n) : n \in NamesOf(flows[i].numbers)}

\* The stages of MQTT write into this one.
Writers(i) == {m \in Now : flows[m].section = "MQTT" /\ flows[m].post = i}
IdxRead ==
  \A i \in Now : flows[i].section = "PostProcessing" =>
    {v \in flows[i].set : v.key = "DomoticzIDX"} =
      UNION {LastValue(UNION {Got(m) : m \in Writers(i)}, "DomoticzIDX", n) : n \in NamesOf(flows[i].numbers)}

\* A stage for each header, unless one is turned down.
HeadersUpTo(n) == {k \in HeaderLines(file) : k <= n}
MemoryEnough   == \A i \in Now : Misspelt \/ i - first + 1 <= Cardinality(HeadersUpTo(flows[i].header))

CrashMeant == at = "crashed" => Misspelt \/ Misordered \/ (Len(flows) = Memory /\ first > 1)

Inductive ==
  /\ TypeOK /\ StagesSound /\ CrashMeant
  /\ at # "crashed" => HeadersMade /\ SectionOpen /\ SectionsOver /\ MemoryEnough
                     /\ SettingsRead /\ DialsRead /\ ShiftsRead /\ IdxRead
=============================================================================
