--------------------------------- MODULE Access ---------------------------------
(***************************************************************************)
(* The password of the website.  One record in NVS holds it; it is set     *)
(* once with a code that the device prints on USB, changed by somebody who *)
(* is signed in, and removed only by a command on USB that repeats a       *)
(* second code.  Requests and USB commands are jobs of one server task,    *)
(* one at a time; the USB reader only queues them.  Power may go at any    *)
(* step, and every access to the record may fail.                          *)
(***************************************************************************)
EXTENDS Naturals, Sequences

CONSTANTS Passwords,  \* acceptable passwords
          Codes,      \* bound on the codes that are drawn
          Jobs,       \* length of the queue of the server task
          None

\* What the constants must be; assumed where they have values.
AccessAssumption ==
  /\ Passwords # {} /\ None \notin Passwords /\ Codes \in Nat /\ Jobs \in Nat \ {0}
  \* What stands for a record that is no password.
  /\ {"damaged", "unsure"} \cap (Passwords \union {None}) = {}

VARIABLES
  stored,    \* the record in NVS: a password, "damaged", or None
  state,     \* Credential::current
  active,    \* the record in memory: a password or None
  cached,    \* the password whose fingerprint is remembered, or None
  code,      \* setupToken, 0 when it is not ready
  delayed,   \* now < nextAttempt
  recovery,  \* recoveryToken, 0 when none is pending, and whether its minute is over
  drawn,     \* how many codes have been drawn
  work,      \* the job that has come to the record: what it does and what comes next
  line,      \* SerialParser::line: "empty", "part", "command" or "other"
  discarded, \* SerialParser::discarded
  since,     \* what was typed since the last pause without noise: "noise", or part of a command
  queue,     \* the commands queued for the server task
  told,      \* history: the password last reported as saved, None once removed, or "unsure"
  wrong      \* history: what a request or a command has come to and should not

memory == <<state, active, cached, code, delayed, recovery>>
serial == <<line, discarded, since, queue>>
vars   == <<stored, memory, drawn, work, serial, told, wrong>>

Idle     == [does |-> "nothing"]
NoCode   == [code |-> 0, over |-> FALSE]
Command(do, c) == [do |-> do, code |-> c]
Commands == {Command("setup", 0), Command("reset", 0)} \union {Command("confirm", c) : c \in 1..Codes}
Records  == Passwords \union {"damaged", None}

\* Credential::load: the record, unless it cannot be read, is what is in use.
Loaded(record) ==
  IF record = None THEN "NeedsSetup" ELSE IF record = "damaged" THEN "StorageError" ELSE "Ready"

\* WebsiteAccess::initialize, with a new code when there is no record.
Initialize ==
  /\ \E readable \in BOOLEAN :
       /\ state' = (IF readable THEN Loaded(stored) ELSE "StorageError")
       /\ active' = (IF state' = "Ready" THEN stored ELSE None)
  /\ cached' = None /\ delayed' = FALSE /\ recovery' = NoCode
  /\ IF state' = "NeedsSetup"
     THEN drawn < Codes /\ drawn' = drawn + 1 /\ code' = drawn'
     ELSE code' = 0 /\ UNCHANGED drawn

Init ==
  /\ stored \in Passwords \union {None} /\ told = stored
  /\ state = "Uninitialized" /\ active = None /\ cached = None /\ code = 0
  /\ delayed = FALSE /\ recovery = NoCode /\ drawn = 0 /\ work = Idle
  /\ line = "empty" /\ discarded = FALSE /\ since = "noise" /\ queue = <<>>
  /\ wrong = {}

\* init_basic_auth: a start, and a start after power was lost in the middle of anything.
Start ==
  /\ Initialize
  /\ work' = Idle /\ line' = "empty" /\ discarded' = FALSE /\ since' = "noise" /\ queue' = <<>>
  /\ UNCHANGED <<stored, told, wrong>>

------------------------------------------------------------------------------
(* Credential::save: random bytes, derivation and digest may fail before   *)
(* anything has changed; from there on nothing counts until it is read     *)
(* back.                                                                   *)

Saves(password, by) ==
  /\ state' = "StorageError" /\ active' = None
  /\ work' = [does |-> "save", password |-> password, by |-> by, next |-> "write"]

\* setup: the code is checked before the password.
Setup(c, password) ==
  /\ work = Idle /\ state = "NeedsSetup" /\ code # 0 /\ c = code
  /\ Saves(password, "setup")
  /\ UNCHANGED <<stored, cached, code, delayed, recovery, drawn, serial, told, wrong>>

\* handle, then change: whoever changes the password has just given the one in use.
Change(password) ==
  /\ work = Idle /\ state = "Ready"
  /\ ~delayed \/ cached = active
  /\ cached' = active /\ Saves(password, "change")
  /\ UNCHANGED <<stored, code, delayed, recovery, drawn, serial, told, wrong>>

\* nvs_set_blob and nvs_commit: a failure leaves the old record, the new one, or half of one.
SaveWrites ==
  /\ work.does = "save" /\ work.next = "write"
  /\ told' = "unsure"
  /\ \/ stored' = work.password /\ work' = [work EXCEPT !.next = "read"]
     \/ stored' \in {stored, work.password, "damaged"} /\ work' = [work EXCEPT !.next = "refuse"]
  /\ UNCHANGED <<memory, drawn, serial, wrong>>

\* Mutant: a change of the password leaves the remembered fingerprint in place.
SavedChangeCached ==
  /\ work.does = "save" /\ work.next = "read" /\ stored = work.password
  /\ state' = "Ready" /\ active' = stored /\ told' = stored /\ work' = Idle
  /\ code' = 0 /\ delayed' = (IF work.by = "change" THEN FALSE ELSE delayed)
  /\ UNCHANGED <<stored, cached, recovery, drawn, serial, wrong>>

\* The record is read back as it was written: the password is reported as saved.
Saved ==
  /\ work.does = "save" /\ work.next = "read" /\ stored = work.password
  /\ state' = "Ready" /\ active' = stored /\ told' = stored /\ work' = Idle
  /\ IF work.by = "setup"
     THEN code' = 0 /\ UNCHANGED <<cached, delayed>>
     ELSE cached' = None /\ delayed' = FALSE /\ UNCHANGED code
  /\ UNCHANGED <<stored, recovery, drawn, serial, wrong>>

\* Written or read back with an error: nobody gets in before the next start.
NotSaved ==
  /\ work.does = "save" /\ work.next \in {"read", "refuse"}
  /\ work' = Idle
  /\ IF work.by = "setup"
     THEN code' = 0 /\ UNCHANGED <<cached, delayed>>
     ELSE cached' = None /\ delayed' = FALSE /\ UNCHANGED code
  /\ UNCHANGED <<stored, state, active, recovery, drawn, serial, told, wrong>>

------------------------------------------------------------------------------
(* handle: any other request, with the password that comes with it         *)

Answered(guess) == wrong' = wrong \union (IF guess = stored THEN {} ELSE {"stale"})

\* A remembered password is let in at once, any other after a look at the record.
Allowed(guess) ==
  /\ work = Idle /\ state = "Ready"
  /\ guess = cached \/ (guess = active /\ ~delayed)
  /\ cached' = guess /\ Answered(guess)
  /\ UNCHANGED <<stored, state, active, code, delayed, recovery, drawn, work, serial, told>>

\* Another password, or one whose derivation failed; the next second has no more guesses.
Unauthorized(guess) ==
  /\ work = Idle /\ state = "Ready" /\ guess # cached /\ ~delayed
  /\ delayed' = TRUE
  /\ UNCHANGED <<stored, state, active, cached, code, recovery, drawn, work, serial, told, wrong>>

SecondPasses ==
  /\ delayed /\ delayed' = FALSE
  /\ UNCHANGED <<stored, state, active, cached, code, recovery, drawn, work, serial, told, wrong>>

------------------------------------------------------------------------------
(* SerialParser::feed, idle: what arrives on USB, between pauses           *)

Pause ==
  /\ IF discarded THEN discarded' = FALSE /\ line' = "empty" ELSE UNCHANGED <<discarded, line>>
  /\ since' = (IF line' = "empty" THEN "" ELSE since)
  /\ UNCHANGED <<stored, memory, drawn, work, queue, told, wrong>>

\* A byte that is not printable, or one too many: the rest of the line does not count.
Noise ==
  /\ discarded' = TRUE /\ line' = "empty" /\ since' = "noise"
  /\ UNCHANGED <<stored, memory, drawn, work, queue, told, wrong>>

Follows == [empty |-> "part", part |-> "command", command |-> "other", other |-> "other"]

\* Half of a command is typed.
Types ==
  /\ line' = (IF discarded THEN line ELSE Follows[line])
  /\ since' = (IF since = "" THEN "part" ELSE IF since = "part" THEN "command" ELSE "noise")
  /\ UNCHANGED <<stored, memory, drawn, work, discarded, queue, told, wrong>>

\* queueLocalCommand: a command is queued, or refused as busy.
Newline(command) ==
  /\ IF ~discarded /\ line = "command"
     THEN queue' \in {queue} \union (IF Len(queue) < Jobs THEN {Append(queue, command)} ELSE {})
     ELSE UNCHANGED queue
  /\ wrong' = wrong \union (IF since = "command" /\ (discarded \/ line # "command") THEN {"unheard"} ELSE {})
  /\ line' = "empty" /\ discarded' = FALSE /\ since' = ""
  /\ UNCHANGED <<stored, memory, drawn, work, told>>

------------------------------------------------------------------------------
(* localCommand *)

Serves(command) == work = Idle /\ queue # <<>> /\ Head(queue) = command /\ queue' = Tail(queue)

SetupCommand ==
  /\ Serves(Command("setup", 0)) /\ UNCHANGED stored
  /\ IF state = "NeedsSetup" THEN Initialize ELSE UNCHANGED <<memory, drawn>>
  /\ UNCHANGED <<work, line, discarded, since, told, wrong>>

\* beginLocalRecovery: the code is printed; the one before it does not count any more.
ResetCommand ==
  /\ Serves(Command("reset", 0)) /\ drawn < Codes
  /\ drawn' = drawn + 1 /\ recovery' = [code |-> drawn', over |-> FALSE]
  /\ UNCHANGED <<stored, state, active, cached, code, delayed, work, line, discarded, since, told, wrong>>

MinutePasses ==
  /\ recovery.code # 0 /\ ~recovery.over
  /\ recovery' = [recovery EXCEPT !.over = TRUE]
  /\ UNCHANGED <<stored, state, active, cached, code, delayed, drawn, work, serial, told, wrong>>

\* confirmLocalRecovery: a code counts once.  The record is no longer in use before it is erased.
ConfirmCommand(c) ==
  /\ Serves(Command("confirm", c))
  /\ recovery' = NoCode
  /\ IF c = recovery.code /\ ~recovery.over
     THEN /\ state' = "StorageError" /\ active' = None /\ cached' = None /\ code' = 0
          /\ work' = [does |-> "reset", next |-> "erase"]
     ELSE UNCHANGED <<state, active, cached, code, work>>
  /\ UNCHANGED <<stored, delayed, drawn, line, discarded, since, told, wrong>>

\* eraseCredential: a failure may leave the record or not.
Erases ==
  /\ work.does = "reset" /\ work.next = "erase"
  /\ told' = "unsure"
  /\ \/ stored' = None /\ work' = [work EXCEPT !.next = "read"]
     \/ stored' \in {stored, None} /\ work' = Idle
  /\ UNCHANGED <<memory, drawn, serial, wrong>>

\* Nothing is there any more: that is reported, and a code to start with is printed.
Removed ==
  /\ work.does = "reset" /\ work.next = "read" /\ stored = None
  /\ Initialize /\ told' = None /\ work' = Idle
  /\ UNCHANGED <<stored, serial, wrong>>

NotRemoved ==
  /\ work.does = "reset" /\ work.next = "read"
  /\ work' = Idle
  /\ UNCHANGED <<stored, memory, drawn, serial, told, wrong>>

Next ==
  \/ Start \/ SaveWrites \/ Saved \/ NotSaved \/ SecondPasses \/ MinutePasses
  \/ \E p \in Passwords :
       Change(p) \/ Allowed(p) \/ Unauthorized(p) \/ \E c \in 1..Codes : Setup(c, p)
  \/ Pause \/ Noise \/ Types \/ (\E command \in Commands : Newline(command))
  \/ SetupCommand \/ ResetCommand \/ (\E c \in 1..Codes : ConfirmCommand(c))
  \/ Erases \/ Removed \/ NotRemoved

Spec == Init /\ [][Next]_vars

------------------------------------------------------------------------------
RecordTypes ==
  /\ stored \in Records /\ state \in {"Uninitialized", "NeedsSetup", "Ready", "StorageError"}
  /\ active \in Passwords \union {None} /\ cached \in Passwords \union {None}
  /\ told \in Passwords \union {None, "unsure"} /\ delayed \in BOOLEAN
CodesDrawn == drawn \in 0..Codes /\ code \in 0..drawn /\ recovery.code \in 0..drawn
LineTypes ==
  /\ line \in {"empty", "part", "command", "other"} /\ discarded \in BOOLEAN
  /\ wrong \subseteq {"stale", "unheard"}
QueueTypes == queue \in Seq(Commands) /\ Len(queue) <= Jobs
TypeOK == RecordTypes /\ CodesDrawn /\ LineTypes /\ QueueTypes

(* A password that was reported as saved is the one in the record, through *)
(* restarts, failed and interrupted changes that came before, and until    *)
(* something is written again; and what was reported as removed is gone.   *)
(* The device asks for a first password only when there is none, and only  *)
(* then a code from USB counts: no failure leads back to it.  A remembered *)
(* password never outlives the record it was checked with, so that nobody  *)
(* is let in with another than the stored one; and a command typed after a *)
(* pause is heard, whatever noise was before it (Credential::save,         *)
(* WebsiteAccess, SerialParser).                                           *)
AccessTrue ==
  /\ told # "unsure" => stored = told
  /\ state = "NeedsSetup" => stored = None
  /\ code # 0 /\ work = Idle => state = "NeedsSetup"
  /\ state = "Ready" => active = stored /\ cached \in {None, active}
  /\ wrong = {}

------------------------------------------------------------------------------
(* The inductive invariant                                                 *)

Works == {Idle} \union
  [does : {"save"}, password : Passwords, by : {"setup", "change"}, next : {"write", "read", "refuse"}] \union
  [does : {"reset"}, next : {"erase", "read"}]

\* While the record is written nobody uses the one in memory, and what a failure
\* leaves behind is neither a code nor a remembered password.
WorkSound ==
  /\ work \in Works
  /\ work # Idle => state = "StorageError"
  /\ work.does = "save" => IF work.by = "setup" THEN cached = None ELSE code = 0
  /\ work.does = "reset" => code = 0

\* Codes and remembered passwords belong to a state in which they may be used.
MemorySound ==
  /\ code # 0 => state = "NeedsSetup" \/ work.does = "save"
  /\ state \in {"Uninitialized", "NeedsSetup"} => cached = None
  /\ recovery \in [code : Nat, over : BOOLEAN]

\* What was typed since a pause is in the line.
Heard ==
  /\ since \in {"noise", "", "part", "command"}
  /\ since # "noise" => ~discarded
  /\ since = "" => line = "empty"
  /\ since \in {"part", "command"} => line = since

Inductive == TypeOK /\ AccessTrue /\ WorkSound /\ MemorySound /\ Heard
=============================================================================
