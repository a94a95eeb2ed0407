-------------------------- MODULE MCServicesProofs --------------------------
(***************************************************************************)
(* Proofs about the services that work on data: the inductive invariants of *)
(* the file manager, the outputs, the legacy update, the dial readers and   *)
(* the daily files are kept by every step, for all values of the constants, *)
(* and so are those of the composition.                                    *)
(***************************************************************************)
EXTENDS MCServices, SequenceTheorems, WellFoundedInduction, TLAPS

-----------------------------------------------------------------------------
(* The file manager: what it says of the card is so                        *)

\* Nothing is written when the server starts.
LEMMA FilesInitInductive == File!FilesAssumption /\ File!Init => File!Inductive
<1> SUFFICES ASSUME File!FilesAssumption, File!Init PROVE File!Inductive
  OBVIOUS
<1>a. \A f \in CardFiles : card[f] \in Versions \union {Gone} /\ card[f] # Part
  BY DEF File!FilesAssumption, File!Init
<1>1. File!TypeOK
  BY <1>a DEF File!Init, File!TypeOK, File!Contents, File!Idle, File!Nothing, File!Verified,
       File!Held,
     File!SendFile
<1>2. File!AnswersTrue
  BY <1>a DEF File!Init, File!AnswersTrue, File!Nothing
<1>3. File!LockHeld
  BY DEF File!Init, File!LockHeld, File!Requests, File!Idle
<1>4. File!RequestSound /\ File!BundleStands
  BY DEF File!Init, File!RequestSound, File!BundleStands, File!Idle
<1>5. QED
  BY <1>1, <1>2, <1>3, <1>4 DEF File!Inductive

\* What the server's task is doing, by its kind.
LEMMA FilesRequest ==
  ASSUME File!Inductive
  PROVE  /\ request.does = "upload" =>
              request \in [does : {"upload"}, file : CardFiles, version : Versions, sum : BOOLEAN,
                           left : 0..Chunks]
         /\ request.does = "empty" =>
              request \in [does : {"empty"}, dir : {"root", "config", "html"}, rest : SUBSET CardFiles]
<1> DEFINE Uploads == [does : {"upload"}, file : CardFiles, version : Versions, sum : BOOLEAN,
                       left : 0..Chunks]
           Emptyings == [does : {"empty"}, dir : {"root", "config", "html"}, rest : SUBSET CardFiles]
<1>1. request = File!Idle \/ request \in Uploads \/ request \in Emptyings
  BY Zenon DEF File!Inductive, File!LockHeld, File!Requests
<1>2. \A r \in Uploads : r.does = "upload"
  OBVIOUS
<1>3. \A r \in Emptyings : r.does = "empty"
  OBVIOUS
<1>4. File!Idle.does = "nothing"
  BY DEF File!Idle
<1> HIDE DEF Uploads, Emptyings
<1>5. (request.does = "upload" => request \in Uploads) /\ (request.does = "empty" => request \in Emptyings)
  BY <1>1, <1>2, <1>3, <1>4
<1>6. QED
  BY <1>5 DEF Uploads, Emptyings

\* Every step keeps what was said of the card true.
LEMMA FilesStepKeeps ==
  ASSUME File!FilesAssumption, File!Inductive, File!Next
  PROVE  File!Inductive'
<1>0. /\ File!TypeOK /\ File!AnswersTrue /\ File!LockHeld /\ File!RequestSound /\ File!BundleStands
  BY DEF File!Inductive
<1>1. ASSUME NEW f \in CardFiles, NEW form \in File!Forms, File!Refused(f.dir, form) PROVE File!Inductive'
  <2>1. File!TypeOK'
    BY <1>0, <1>1 DEF File!Refused, File!Idle, File!Refusal, File!Tells, File!GenericWriteAllowed,
         File!ConfigJournalAllowsMutation, File!TypeOK, File!Contents, File!Nothing
  <2>2. File!AnswersTrue'
    BY <1>0, <1>1 DEF File!Refused, File!Idle, File!Refusal, File!Tells, File!GenericWriteAllowed,
         File!ConfigJournalAllowsMutation, File!AnswersTrue, File!TypeOK, File!Nothing,
         File!FilesAssumption, File!BundleStands
  <2>3. File!LockHeld'
    BY <1>0, <1>1 DEF File!Refused, File!Idle, File!Refusal, File!Tells, File!GenericWriteAllowed,
         File!ConfigJournalAllowsMutation, File!LockHeld, File!Requests, File!FilesAssumption
  <2>4. File!RequestSound'
    BY <1>0, <1>1 DEF File!Refused, File!Idle, File!Refusal, File!Tells, File!GenericWriteAllowed,
         File!ConfigJournalAllowsMutation, File!RequestSound, File!LockHeld, File!Requests,
         File!TypeOK, File!FilesAssumption, File!Spares
  <2>5. File!BundleStands'
    BY <1>0, <1>1 DEF File!Refused, File!Idle, File!Refusal, File!Tells, File!GenericWriteAllowed,
         File!ConfigJournalAllowsMutation, File!BundleStands, File!Verified, File!Held, File!Page,
         File!SendFile, File!FilesAssumption, File!RequestSound, File!TypeOK
  <2>6. QED
    BY <2>1, <2>2, <2>3, <2>4, <2>5 DEF File!Inductive
<1>2. ASSUME NEW f \in CardFiles, NEW form \in {"plain", "trailing"}, File!UploadRefused(f, form) PROVE File!Inductive'
  <2>1. File!TypeOK'
    BY <1>0, <1>2 DEF File!UploadRefused, File!Idle, File!Refusal, File!Tells,
         File!GenericWriteAllowed, File!ConfigJournalAllowsMutation, File!TypeOK, File!Contents,
         File!Nothing
  <2>2. File!AnswersTrue'
    BY <1>0, <1>2 DEF File!UploadRefused, File!Idle, File!Refusal, File!Tells,
         File!GenericWriteAllowed, File!ConfigJournalAllowsMutation, File!AnswersTrue,
         File!TypeOK, File!Nothing, File!FilesAssumption, File!BundleStands
  <2>3. File!LockHeld'
    BY <1>0, <1>2 DEF File!UploadRefused, File!Idle, File!Refusal, File!Tells,
         File!GenericWriteAllowed, File!ConfigJournalAllowsMutation, File!LockHeld, File!Requests,
         File!FilesAssumption
  <2>4. File!RequestSound'
    BY <1>0, <1>2 DEF File!UploadRefused, File!Idle, File!Refusal, File!Tells,
         File!GenericWriteAllowed, File!ConfigJournalAllowsMutation, File!RequestSound,
         File!LockHeld, File!Requests, File!TypeOK, File!FilesAssumption, File!Spares
  <2>5. File!BundleStands'
    BY <1>0, <1>2 DEF File!UploadRefused, File!Idle, File!Refusal, File!Tells,
         File!GenericWriteAllowed, File!ConfigJournalAllowsMutation, File!BundleStands,
         File!Verified, File!Held, File!Page, File!SendFile, File!FilesAssumption,
         File!RequestSound, File!TypeOK
  <2>6. QED
    BY <2>1, <2>2, <2>3, <2>4, <2>5 DEF File!Inductive
<1>3. ASSUME NEW f \in CardFiles, NEW v \in Versions, NEW sum \in BOOLEAN, File!UploadBegins(f, v, sum) PROVE File!Inductive'
  <2>a. update = "none" /\ journal = "none" /\ f.dir # "bundles"
    BY <1>3 DEF File!UploadBegins, File!Refusal, File!ConfigJournalAllowsMutation,
         File!GenericWriteAllowed
  <2>b. Chunks \in 0..Chunks
    BY DEF File!FilesAssumption
  <2>c. request' = [does |-> "upload", file |-> f, version |-> v, sum |-> sum, left |-> Chunks]
        /\ update' = "web" /\ journal' = journal
    BY <1>3 DEF File!UploadBegins
  <2>1. File!TypeOK'
    BY <1>0, <1>3 DEF File!UploadBegins, File!Idle, File!Nothing, File!Refusal, File!Tells,
         File!GenericWriteAllowed, File!ConfigJournalAllowsMutation, File!TypeOK, File!Contents
  <2>2. File!AnswersTrue'
    BY <1>0, <1>3 DEF File!UploadBegins, File!Idle, File!Nothing, File!Refusal, File!Tells,
         File!GenericWriteAllowed, File!ConfigJournalAllowsMutation, File!AnswersTrue,
         File!TypeOK, File!FilesAssumption, File!BundleStands
  <2>3. File!LockHeld'
    BY <1>0, <1>3, <2>a, <2>b, <2>c DEF File!LockHeld, File!Requests, File!Idle
  <2>4. File!RequestSound'
    BY <1>0, <1>3 DEF File!UploadBegins, File!Idle, File!Nothing, File!Refusal, File!Tells,
         File!GenericWriteAllowed, File!ConfigJournalAllowsMutation, File!RequestSound,
         File!LockHeld, File!Requests, File!TypeOK, File!FilesAssumption, File!Spares
  <2>5. File!BundleStands'
    BY <1>0, <1>3 DEF File!UploadBegins, File!Idle, File!Nothing, File!Refusal, File!Tells,
         File!GenericWriteAllowed, File!ConfigJournalAllowsMutation, File!BundleStands,
         File!Verified, File!Held, File!Page, File!SendFile, File!FilesAssumption,
         File!RequestSound, File!TypeOK
  <2>6. QED
    BY <2>1, <2>2, <2>3, <2>4, <2>5 DEF File!Inductive
<1>4. CASE File!Receives
  <2>a. request \in [does : {"upload"}, file : CardFiles, version : Versions, sum : BOOLEAN, left : 0..Chunks]
    BY <1>4, FilesRequest DEF File!Receives
  <2>b. card' = card /\ answer' = File!Nothing /\ UNCHANGED <<update, journal, selection, bundled, cut>>
        /\ request.does = "upload" /\ request'.does = "upload" /\ request'.file = request.file
    BY <1>4, <2>a DEF File!Receives, File!Tells
  <2>c. request' = [request EXCEPT !.left = request.left - 1] /\ request.left > 0
    BY <1>4 DEF File!Receives
  <2>1. File!TypeOK'
    BY <1>0, <1>4 DEF File!Receives, File!Nothing, File!Tells, File!TypeOK, File!Contents,
         File!Idle
  <2>2. File!AnswersTrue'
    BY <1>0, <2>b DEF File!AnswersTrue, File!Nothing
  <2>3. File!LockHeld'
    BY <1>0, <2>a, <2>b, <2>c DEF File!LockHeld, File!Requests, File!Idle, File!FilesAssumption
  <2>4. File!RequestSound'
    BY <1>0, <1>4 DEF File!Receives, File!Nothing, File!Tells, File!RequestSound, File!LockHeld,
         File!Requests, File!Idle, File!TypeOK, File!FilesAssumption, File!Spares
  <2>5. File!BundleStands'
    BY <1>0, <1>4 DEF File!Receives, File!Nothing, File!Tells, File!BundleStands, File!Verified,
         File!Held, File!Page, File!SendFile, File!FilesAssumption, File!RequestSound, File!TypeOK
  <2>6. QED
    BY <2>1, <2>2, <2>3, <2>4, <2>5 DEF File!Inductive
<1>5. CASE File!UploadFails
  <2>a. request \in [does : {"upload"}, file : CardFiles, version : Versions, sum : BOOLEAN, left : 0..Chunks]
    BY <1>5, FilesRequest DEF File!UploadFails
  <2>b. \/ card' = [card EXCEPT ![request.file] = Gone] /\ cut' = cut
        \/ cut' = cut \union {request.file} /\ card' = card
    BY <1>5 DEF File!UploadFails, File!Unfinished
  <2>c. /\ update' = "none" /\ request' = File!Idle /\ answer' = [said |-> "failed"]
        /\ UNCHANGED <<journal, selection, bundled>> /\ request.does = "upload"
    BY <1>5 DEF File!UploadFails, File!Tells
  <2>1. File!TypeOK'
    BY <1>0, <2>a, <2>b, <2>c DEF File!TypeOK, File!Contents, File!Idle
  <2>2. File!AnswersTrue'
    BY <1>0, <2>a, <2>b, <2>c DEF File!AnswersTrue, File!TypeOK, File!FilesAssumption, File!Idle
  <2>3. File!LockHeld'
    BY <1>0, <2>a, <2>c DEF File!LockHeld, File!Requests, File!Idle
  <2>4. File!RequestSound'
    BY <1>0, <2>c DEF File!RequestSound, File!Idle
  <2>5. File!BundleStands'
    BY <1>0, <2>a, <2>b, <2>c DEF File!BundleStands, File!Verified, File!Held, File!Page,
         File!RequestSound, File!TypeOK
  <2>6. QED
    BY <2>1, <2>2, <2>3, <2>4, <2>5 DEF File!Inductive
<1>6. CASE File!UploadEnds
  <2>a. request \in [does : {"upload"}, file : CardFiles, version : Versions, sum : BOOLEAN, left : 0..Chunks]
    BY <1>6, FilesRequest DEF File!UploadEnds
  <2>b. PICK written \in {Part, request.version} :
        /\ card' = [card EXCEPT ![request.file] = written]
        /\ cut' = (IF written = Part THEN cut \union {request.file} ELSE cut)
        /\ answer' = [said |-> "uploaded", file |-> request.file, version |-> request.version,
                     sum |-> IF request.sum THEN written ELSE Gone]
    BY <1>6 DEF File!UploadEnds, File!Tells
  <2>c. update' = "none" /\ request' = File!Idle /\ UNCHANGED <<journal, selection, bundled>>
    BY <1>6 DEF File!UploadEnds
  <2>1. File!TypeOK'
    BY <1>0, <2>a, <2>b, <2>c DEF File!TypeOK, File!Contents, File!Idle
  <2>2. File!AnswersTrue'
    BY <1>0, <2>a, <2>b, <2>c DEF File!AnswersTrue, File!TypeOK, File!Idle, File!FilesAssumption
  <2>3. File!LockHeld'
    BY <1>0, <1>6 DEF File!UploadEnds, File!Idle, File!Tells, File!LockHeld, File!Requests,
         File!FilesAssumption
  <2>4. File!RequestSound'
    BY <1>0, <1>6 DEF File!UploadEnds, File!Idle, File!Tells, File!RequestSound, File!LockHeld,
         File!Requests, File!TypeOK, File!FilesAssumption, File!Spares
  <2>5. File!BundleStands'
    BY <1>0, <2>a, <2>b, <2>c DEF File!BundleStands, File!Verified, File!Held, File!Page,
         File!RequestSound, File!TypeOK
  <2>6. QED
    BY <2>1, <2>2, <2>3, <2>4, <2>5 DEF File!Inductive
<1>7. ASSUME NEW f \in CardFiles, File!Delete(f) PROVE File!Inductive'
  <2>a. /\ answer' = [said |-> "deleted", files |-> {f}] /\ f.dir # "bundles"
        /\ request = File!Idle /\ UNCHANGED <<update, journal, request, selection, bundled>>
    BY <1>7 DEF File!Delete, File!Tells, File!Refusal, File!GenericWriteAllowed
  <2>b. \/ card' = [card EXCEPT ![f] = Gone] /\ cut' = cut \ {f}
        \/ card' = card /\ cut' = cut \union {f}
    BY <1>7 DEF File!Delete, File!Unlink
  <2>1. File!TypeOK'
    BY <1>0, <2>a, <2>b DEF File!TypeOK, File!Contents
  <2>2. File!AnswersTrue'
    BY <1>0, <2>a, <2>b DEF File!AnswersTrue, File!TypeOK, File!FilesAssumption
  <2>3. File!LockHeld'
    BY <1>0, <2>a DEF File!LockHeld, File!Requests, File!Idle
  <2>4. File!RequestSound'
    BY <1>0, <2>a DEF File!RequestSound, File!Idle
  <2>5. File!BundleStands'
    BY <1>0, <2>a, <2>b DEF File!BundleStands, File!Verified, File!Held, File!Page, File!TypeOK
  <2>6. QED
    BY <2>1, <2>2, <2>3, <2>4, <2>5 DEF File!Inductive
<1>8. ASSUME NEW f \in CardFiles, File!DeleteAllBegins(f.dir) PROVE File!Inductive'
  <2>1. File!TypeOK'
    BY <1>0, <1>8 DEF File!DeleteAllBegins, File!Idle, File!Nothing, File!Refusal, File!Tells,
         File!Spares, File!GenericWriteAllowed, File!ConfigJournalAllowsMutation, File!TypeOK,
         File!Contents
  <2>2. File!AnswersTrue'
    BY <1>0, <1>8 DEF File!DeleteAllBegins, File!Idle, File!Nothing, File!Refusal, File!Tells,
         File!Spares, File!GenericWriteAllowed, File!ConfigJournalAllowsMutation,
         File!AnswersTrue, File!TypeOK, File!FilesAssumption, File!BundleStands
  <2>3. File!LockHeld'
    BY <1>0, <1>8 DEF File!DeleteAllBegins, File!Idle, File!Nothing, File!Refusal, File!Tells,
         File!Spares, File!GenericWriteAllowed, File!ConfigJournalAllowsMutation, File!LockHeld,
         File!Requests, File!FilesAssumption
  <2>4. File!RequestSound'
    BY <1>0, <1>8 DEF File!DeleteAllBegins, File!Idle, File!Nothing, File!Refusal, File!Tells,
         File!Spares, File!GenericWriteAllowed, File!ConfigJournalAllowsMutation,
         File!RequestSound, File!LockHeld, File!Requests, File!TypeOK, File!FilesAssumption
  <2>5. File!BundleStands'
    BY <1>0, <1>8 DEF File!DeleteAllBegins, File!Idle, File!Nothing, File!Refusal, File!Tells,
         File!Spares, File!GenericWriteAllowed, File!ConfigJournalAllowsMutation,
         File!BundleStands, File!Verified, File!Held, File!Page, File!SendFile,
         File!FilesAssumption, File!RequestSound, File!TypeOK
  <2>6. QED
    BY <2>1, <2>2, <2>3, <2>4, <2>5 DEF File!Inductive
<1>9. ASSUME NEW f \in CardFiles, File!Download(f) PROVE File!Inductive'
  <2>1. File!TypeOK'
    BY <1>0, <1>9 DEF File!Download, File!Idle, File!Tells, File!TypeOK, File!Contents,
         File!Nothing
  <2>2. File!AnswersTrue'
    BY <1>0, <1>9 DEF File!Download, File!Idle, File!Tells, File!AnswersTrue, File!TypeOK,
         File!Nothing, File!FilesAssumption, File!BundleStands
  <2>3. File!LockHeld'
    BY <1>0, <1>9 DEF File!Download, File!Idle, File!Tells, File!LockHeld, File!Requests,
         File!FilesAssumption
  <2>4. File!RequestSound'
    BY <1>0, <1>9 DEF File!Download, File!Idle, File!Tells, File!RequestSound, File!LockHeld,
         File!Requests, File!TypeOK, File!FilesAssumption, File!Spares
  <2>5. File!BundleStands'
    BY <1>0, <1>9 DEF File!Download, File!Idle, File!Tells, File!BundleStands, File!Verified,
         File!Held, File!Page, File!SendFile, File!FilesAssumption, File!RequestSound, File!TypeOK
  <2>6. QED
    BY <2>1, <2>2, <2>3, <2>4, <2>5 DEF File!Inductive
<1>10. ASSUME NEW f \in CardFiles, File!Listing(f.dir) PROVE File!Inductive'
  <2>1. File!TypeOK'
    BY <1>0, <1>10 DEF File!Listing, File!Idle, File!Tells, File!TypeOK, File!Contents,
         File!Nothing
  <2>2. File!AnswersTrue'
    BY <1>0, <1>10 DEF File!Listing, File!Idle, File!Tells, File!AnswersTrue, File!TypeOK,
         File!Nothing, File!FilesAssumption, File!BundleStands
  <2>3. File!LockHeld'
    BY <1>0, <1>10 DEF File!Listing, File!Idle, File!Tells, File!LockHeld, File!Requests,
         File!FilesAssumption
  <2>4. File!RequestSound'
    BY <1>0, <1>10 DEF File!Listing, File!Idle, File!Tells, File!RequestSound, File!LockHeld,
         File!Requests, File!TypeOK, File!FilesAssumption, File!Spares
  <2>5. File!BundleStands'
    BY <1>0, <1>10 DEF File!Listing, File!Idle, File!Tells, File!BundleStands, File!Verified,
         File!Held, File!Page, File!SendFile, File!FilesAssumption, File!RequestSound, File!TypeOK
  <2>6. QED
    BY <2>1, <2>2, <2>3, <2>4, <2>5 DEF File!Inductive
<1>11. CASE File!DeletesNext
  <2>a. request \in [does : {"empty"}, dir : {"root", "config", "html"}, rest : SUBSET CardFiles]
    BY <1>11, FilesRequest DEF File!DeletesNext
  <2>b. PICK f \in request.rest :
          /\ \/ card' = [card EXCEPT ![f] = Gone] /\ cut' = cut \ {f}
             \/ card' = card /\ cut' = cut \union {f}
          /\ request' = [request EXCEPT !.rest = request.rest \ {f}]
    BY <1>11 DEF File!DeletesNext, File!Unlink
  <2>c. answer' = File!Nothing /\ UNCHANGED <<update, journal, selection, bundled>>
    BY <1>11 DEF File!DeletesNext, File!Tells
  <2>d. request' \in [does : {"empty"}, dir : {"root", "config", "html"}, rest : SUBSET CardFiles]
        /\ request'.dir = request.dir /\ request'.rest = request.rest \ {f}
    BY <2>a, <2>b
  <2>1. File!TypeOK'
    BY <1>0, <2>a, <2>b, <2>c, <2>d DEF File!TypeOK, File!Contents, File!Nothing
  <2>2. File!AnswersTrue'
    BY <1>0, <1>11, <2>a, <2>b, <2>c, <2>d DEF File!DeletesNext, File!Nothing, File!AnswersTrue,
         File!TypeOK, File!FilesAssumption
  <2>3. File!LockHeld'
    BY <1>0, <1>11 DEF File!DeletesNext, File!Nothing, File!Tells, File!LockHeld, File!Requests,
         File!Idle, File!FilesAssumption
  <2>4. File!RequestSound'
    BY <1>0, <2>a, <2>b, <2>c, <2>d DEF File!RequestSound, File!TypeOK, File!Spares
  <2>5. File!BundleStands'
    BY <1>0, <2>a, <2>b, <2>c, <2>d DEF File!BundleStands, File!Verified, File!Held, File!Page,
         File!RequestSound, File!TypeOK
  <2>6. QED
    BY <2>1, <2>2, <2>3, <2>4, <2>5 DEF File!Inductive
<1>12. CASE File!DeleteAllEnds
  <2>a. request \in [does : {"empty"}, dir : {"root", "config", "html"}, rest : SUBSET CardFiles]
    BY <1>12, FilesRequest DEF File!DeleteAllEnds
  <2>1. File!TypeOK'
    BY <1>0, <1>12 DEF File!DeleteAllEnds, File!Idle, File!Tells, File!Spares, File!TypeOK,
         File!Contents, File!Nothing
  <2>2. File!AnswersTrue'
    BY <1>0, <1>12, <2>a DEF File!DeleteAllEnds, File!Tells, File!AnswersTrue, File!RequestSound
  <2>3. File!LockHeld'
    BY <1>0, <1>12 DEF File!DeleteAllEnds, File!Idle, File!Tells, File!Spares, File!LockHeld,
         File!Requests, File!FilesAssumption
  <2>4. File!RequestSound'
    BY <1>0, <1>12 DEF File!DeleteAllEnds, File!Idle, File!Tells, File!Spares, File!RequestSound,
         File!LockHeld, File!Requests, File!TypeOK, File!FilesAssumption
  <2>5. File!BundleStands'
    BY <1>0, <1>12 DEF File!DeleteAllEnds, File!Idle, File!Tells, File!Spares, File!BundleStands,
         File!Verified, File!Held, File!Page, File!SendFile, File!FilesAssumption,
         File!RequestSound, File!TypeOK
  <2>6. QED
    BY <2>1, <2>2, <2>3, <2>4, <2>5 DEF File!Inductive
<1>13. ASSUME NEW answered \in {"error", "setup", "normal"}, File!HelloMain(answered) PROVE File!Inductive'
  <2>a. selection = "Selected" =>
        bundled = File!SendFile(File!RuntimePath(TRUE), File!RuntimePath(FALSE))
    BY <1>0 DEF File!BundleStands, File!Verified, File!RuntimePath
  <2>b. selection = "Rejected" => File!SendFile(File!RuntimePath(TRUE), File!RuntimePath(FALSE)) = Gone
    BY DEF File!RuntimePath, File!SendFile
  <2>c. selection \in {"Legacy", "Rejected", "Selected"}
    BY <1>0 DEF File!TypeOK
  <2>1. File!TypeOK'
    BY <1>0, <1>13, <2>a, <2>b, <2>c DEF File!HelloMain, File!Idle, File!SendFile, File!Tells,
         File!RuntimePath, File!TypeOK, File!Contents, File!Nothing
  <2>2. File!AnswersTrue'
    BY <1>0, <1>13, <2>a, <2>b, <2>c DEF File!HelloMain, File!Tells, File!AnswersTrue
  <2>3. File!LockHeld'
    BY <1>0, <1>13, <2>a, <2>b, <2>c DEF File!HelloMain, File!Idle, File!SendFile, File!Tells,
         File!RuntimePath, File!LockHeld, File!Requests, File!FilesAssumption
  <2>4. File!RequestSound'
    BY <1>0, <1>13, <2>a, <2>b, <2>c DEF File!HelloMain, File!Idle, File!SendFile, File!Tells,
         File!RuntimePath, File!RequestSound, File!LockHeld, File!Requests, File!TypeOK,
         File!FilesAssumption, File!Spares
  <2>5. File!BundleStands'
    BY <1>0, <1>13, <2>a, <2>b, <2>c DEF File!HelloMain, File!Idle, File!SendFile, File!Tells,
         File!RuntimePath, File!BundleStands, File!Verified, File!Held, File!Page,
         File!FilesAssumption, File!RequestSound, File!TypeOK
  <2>6. QED
    BY <2>1, <2>2, <2>3, <2>4, <2>5 DEF File!Inductive
<1>14. CASE File!TaskBegins
  <2>1. File!TypeOK'
    BY <1>0, <1>14 DEF File!TaskBegins, File!Nothing, File!Tells, File!TypeOK, File!Contents,
         File!Idle
  <2>2. File!AnswersTrue'
    BY <1>0, <1>14 DEF File!TaskBegins, File!Nothing, File!Tells, File!AnswersTrue, File!TypeOK,
         File!Idle, File!FilesAssumption, File!BundleStands
  <2>3. File!LockHeld'
    BY <1>0, <1>14 DEF File!TaskBegins, File!Nothing, File!Tells, File!LockHeld, File!Requests,
         File!Idle, File!FilesAssumption
  <2>4. File!RequestSound'
    BY <1>0, <1>14 DEF File!TaskBegins, File!Nothing, File!Tells, File!RequestSound,
         File!LockHeld, File!Requests, File!Idle, File!TypeOK, File!FilesAssumption, File!Spares
  <2>5. File!BundleStands'
    BY <1>0, <1>14 DEF File!TaskBegins, File!Nothing, File!Tells, File!BundleStands,
         File!Verified, File!Held, File!Page, File!SendFile, File!FilesAssumption,
         File!RequestSound, File!TypeOK
  <2>6. QED
    BY <2>1, <2>2, <2>3, <2>4, <2>5 DEF File!Inductive
<1>15. CASE File!TaskCommits
  <2>a. request = File!Idle /\ request' = request
    BY <1>0, <1>15 DEF File!TaskCommits, File!LockHeld
  <2>1. File!TypeOK'
    BY <1>0, <1>15, <2>a DEF File!TaskCommits, File!Nothing, File!Tells, File!TypeOK,
         File!Contents, File!Idle
  <2>2. File!AnswersTrue'
    BY <1>0, <1>15, <2>a DEF File!TaskCommits, File!Nothing, File!Tells, File!AnswersTrue,
         File!TypeOK, File!Idle, File!FilesAssumption, File!BundleStands
  <2>3. File!LockHeld'
    BY <1>0, <1>15, <2>a DEF File!TaskCommits, File!Nothing, File!Tells, File!LockHeld,
         File!Requests, File!Idle, File!FilesAssumption
  <2>4. File!RequestSound'
    BY <2>a DEF File!RequestSound, File!Idle
  <2>5. File!BundleStands'
    BY <1>0, <1>15, <2>a DEF File!TaskCommits, File!Nothing, File!Tells, File!BundleStands,
         File!Verified, File!Held, File!Page, File!SendFile, File!FilesAssumption,
         File!RequestSound, File!TypeOK
  <2>6. QED
    BY <2>1, <2>2, <2>3, <2>4, <2>5 DEF File!Inductive
<1>16. CASE File!TaskEnds
  <2>1. File!TypeOK'
    BY <1>0, <1>16 DEF File!TaskEnds, File!Nothing, File!Tells, File!TypeOK, File!Contents,
         File!Idle
  <2>2. File!AnswersTrue'
    BY <1>0, <1>16 DEF File!TaskEnds, File!Nothing, File!Tells, File!AnswersTrue, File!TypeOK,
         File!Idle, File!FilesAssumption, File!BundleStands
  <2>3. File!LockHeld'
    BY <1>0, <1>16 DEF File!TaskEnds, File!Nothing, File!Tells, File!LockHeld, File!Requests,
         File!Idle, File!FilesAssumption
  <2>4. File!RequestSound'
    BY <1>0, <1>16 DEF File!TaskEnds, File!Nothing, File!Tells, File!RequestSound, File!LockHeld,
         File!Requests, File!Idle, File!TypeOK, File!FilesAssumption, File!Spares
  <2>5. File!BundleStands'
    BY <1>0, <1>16 DEF File!TaskEnds, File!Nothing, File!Tells, File!BundleStands, File!Verified,
         File!Held, File!Page, File!SendFile, File!FilesAssumption, File!RequestSound, File!TypeOK
  <2>6. QED
    BY <2>1, <2>2, <2>3, <2>4, <2>5 DEF File!Inductive
<1>17. CASE File!Restart
  <2>a. File!Verified \in Versions \union {Gone, Part}
    BY <1>0 DEF File!TypeOK, File!Contents, File!Verified, File!Held, File!SendFile
  <2>b. card' \in [CardFiles -> Versions \union {Gone, Part}]
    BY <1>0, <1>17 DEF File!Restart, File!TypeOK, File!Contents, File!Unfinished
  <2>c. cut' \subseteq CardFiles
    BY <1>0, <1>17, FilesRequest DEF File!Restart, File!TypeOK
  <2>1. File!TypeOK'
    BY <1>0, <1>17, <2>a, <2>b, <2>c DEF File!TypeOK, File!Contents, File!Restart, File!Select,
         File!Idle, File!Nothing
  <2>2. File!AnswersTrue'
    BY <1>0, <1>17 DEF File!Restart, File!Idle, File!Nothing, File!Select, File!Unfinished,
         File!AnswersTrue, File!TypeOK, File!FilesAssumption, File!BundleStands
  <2>3. File!LockHeld'
    BY <1>0, <1>17 DEF File!Restart, File!Idle, File!Nothing, File!Select, File!Unfinished,
         File!LockHeld, File!Requests, File!FilesAssumption
  <2>4. File!RequestSound'
    BY <1>0, <1>17 DEF File!Restart, File!Idle, File!Nothing, File!Select, File!Unfinished,
         File!RequestSound, File!LockHeld, File!Requests, File!TypeOK, File!FilesAssumption,
         File!Spares
  <2>5. File!BundleStands'
    BY <1>0, <1>17 DEF File!Restart, File!Idle, File!Nothing, File!Select, File!Unfinished,
         File!BundleStands, File!Verified, File!Held, File!Page, File!SendFile,
         File!FilesAssumption, File!RequestSound, File!TypeOK
  <2>6. QED
    BY <2>1, <2>2, <2>3, <2>4, <2>5 DEF File!Inductive
<1>18. QED
  BY <1>1, <1>2, <1>3, <1>4, <1>5, <1>6, <1>7, <1>8, <1>9, <1>10, <1>11, <1>12, <1>13, <1>14,
       <1>15, <1>16, <1>17 DEF File!Next

\* So does every step, or none.
LEMMA FilesStepInductive ==
  File!FilesAssumption /\ File!Inductive /\ [File!Next]_File!vars => File!Inductive'
<1> SUFFICES ASSUME File!FilesAssumption, File!Inductive, [File!Next]_File!vars PROVE File!Inductive'
  OBVIOUS
<1>1. CASE UNCHANGED File!vars
  <2>0. /\ File!TypeOK /\ File!AnswersTrue /\ File!LockHeld /\ File!RequestSound /\ File!BundleStands
    BY DEF File!Inductive
  <2>1. File!TypeOK'
    BY <1>1, <2>0 DEF File!vars, File!TypeOK
  <2>2. File!AnswersTrue'
    BY <1>1, <2>0 DEF File!vars, File!AnswersTrue
  <2>3. File!LockHeld'
    BY <1>1, <2>0 DEF File!vars, File!LockHeld
  <2>4. File!RequestSound'
    BY <1>1, <2>0 DEF File!vars, File!RequestSound
  <2>5. File!BundleStands'
    BY <1>1, <2>0 DEF File!vars, File!BundleStands, File!Verified, File!Held
  <2>6. QED
    BY <2>1, <2>2, <2>3, <2>4, <2>5 DEF File!Inductive
<1>2. QED
  BY <1>1, FilesStepKeeps

\* No step changes a file that it should not.
LEMMA FilesCardStep ==
  ASSUME File!FilesAssumption, File!Inductive, File!Next
  PROVE  File!CardStep
<1>0. card \in [CardFiles -> File!Contents] /\ File!LockHeld /\ File!RequestSound
  BY DEF File!Inductive, File!TypeOK
<1>1. CASE UNCHANGED card
  BY <1>1 DEF File!CardStep
<1>2. ASSUME NEW f \in CardFiles, NEW v \in Versions, NEW sum \in BOOLEAN, File!UploadBegins(f, v, sum) PROVE File!CardStep
  BY <1>0, <1>2 DEF File!UploadBegins, File!Refusal, File!ConfigJournalAllowsMutation,
       File!GenericWriteAllowed, File!TypeOK, File!CardStep, File!LockHeld, File!RequestSound,
       File!Idle, File!FilesAssumption
<1>3. CASE File!UploadFails
  BY <1>0, <1>3, FilesRequest DEF File!UploadFails, File!Unfinished, File!CardStep, File!LockHeld,
       File!RequestSound, File!Idle, File!FilesAssumption
<1>4. CASE File!UploadEnds
  BY <1>0, <1>4, FilesRequest DEF File!UploadEnds, File!CardStep, File!LockHeld,
       File!RequestSound, File!Idle, File!FilesAssumption
<1>5. ASSUME NEW f \in CardFiles, File!Delete(f) PROVE File!CardStep
  BY <1>0, <1>5 DEF File!Delete, File!Unlink, File!Refusal, File!ConfigJournalAllowsMutation,
       File!GenericWriteAllowed, File!CardStep, File!LockHeld, File!RequestSound, File!Idle,
       File!FilesAssumption
<1>6. CASE File!DeletesNext
  BY <1>0, <1>6, FilesRequest DEF File!DeletesNext, File!Unlink, File!Spares, File!CardStep, File!LockHeld,
       File!RequestSound, File!Idle, File!FilesAssumption
<1>7. CASE File!TaskCommits
  BY <1>0, <1>7 DEF File!TaskCommits, File!Config, File!CardStep, File!LockHeld,
       File!RequestSound, File!Idle, File!FilesAssumption
<1>8. CASE File!Restart
  BY <1>0, <1>8, FilesRequest DEF File!Restart, File!Unfinished, File!CardStep, File!LockHeld,
       File!RequestSound, File!Idle, File!FilesAssumption
<1>9. QED
  BY <1>1, <1>2, <1>3, <1>4, <1>5, <1>6, <1>7, <1>8 DEF File!Next, File!Refused,
       File!UploadRefused, File!Receives, File!DeleteAllBegins, File!DeleteAllEnds, File!Download,
       File!Listing, File!HelloMain, File!TaskBegins, File!TaskEnds

-----------------------------------------------------------------------------
(* The databases and the webhook: what is sent is of the round it is sent in *)

\* Nothing has been sent when the device starts.
LEMMA OutputsInitInductive == Output!OutputsAssumption /\ Output!Init => Output!Inductive
<1> SUFFICES ASSUME Output!OutputsAssumption, Output!Init PROVE Output!Inductive
  OBVIOUS
<1>a. Output!Times
  BY DEF Output!OutputsAssumption, Output!Init, Output!Times
<1>b. Output!Values
  BY DEF Output!Init, Output!Values
<1>1. Output!TypeOK
  BY <1>a, <1>b DEF Output!Init, Output!TypeOK, Output!Flags, Output!Stages
<1>2. Output!OutputsTrue /\ Output!PointsPast
  BY DEF Output!Init, Output!OutputsTrue, Output!PointsPast
<1>3. Output!RoundSound
  BY DEF Output!Init, Output!RoundSound
<1>4. Output!TimesSaved
  BY DEF Output!Init, Output!TimesSaved
<1>5. QED
  BY <1>1, <1>2, <1>3, <1>4 DEF Output!Inductive

\* Every step keeps what is sent of the round it is sent in.
LEMMA OutputsStepKeeps ==
  ASSUME Output!OutputsAssumption, Output!Inductive, Output!Next
  PROVE  Output!Inductive'
<1>0. /\ Output!Flags /\ Output!Times /\ Output!Values
      /\ Output!OutputsTrue /\ Output!RoundSound /\ Output!TimesSaved /\ Output!PointsPast
  BY DEF Output!Inductive, Output!TypeOK
<1>1. CASE Output!TakePicture
  <2>a. clock' = clock + 1 /\ clock \in Nat /\ clock' \in 0..MaxTime
    BY <1>0, <1>1 DEF Output!TakePicture, Output!Passes, Output!Times, Output!OutputsAssumption
  <2>b. 0..clock \subseteq 0..clock' /\ 1..clock \subseteq 1..clock'
    BY <2>a
  <2>c. UNCHANGED <<aligned, last, since, utc, value, error>> /\ picture' = clock'
    BY <1>1 DEF Output!TakePicture, Output!numbers
  <2>1. Output!Flags'
    BY <1>0, <1>1 DEF Output!TakePicture, Output!numbers, Output!fixed, Output!Passes,
         Output!Flags, Output!Stages
  <2>2. Output!Times'
    BY <1>0, <2>a, <2>b, <2>c DEF Output!Times
  <2>3. Output!Values'
    BY <1>0, <2>b, <2>c DEF Output!Values
  <2>4. Output!OutputsTrue'
    BY <1>0, <1>1 DEF Output!TakePicture, Output!numbers, Output!fixed, Output!Passes,
         Output!OutputsTrue, Output!RoundSound, Output!TimesSaved, Output!PointsPast,
         Output!Times, Output!Values
  <2>5. Output!RoundSound'
    BY <1>0, <1>1 DEF Output!TakePicture, Output!numbers, Output!fixed, Output!Passes,
         Output!RoundSound, Output!Times, Output!Values, Output!Reports
  <2>6. Output!TimesSaved'
    BY <1>0, <1>1 DEF Output!TakePicture, Output!numbers, Output!fixed, Output!Passes,
         Output!TimesSaved, Output!Times
  <2>7. Output!PointsPast'
    BY <1>0, <1>1 DEF Output!TakePicture, Output!numbers, Output!fixed, Output!Passes,
         Output!PointsPast, Output!Times, Output!RoundSound
  <2>8. QED
    BY <2>1, <2>2, <2>3, <2>4, <2>5, <2>6, <2>7 DEF Output!Inductive, Output!TypeOK
<1>2. CASE Output!Align
  <2>1. Output!Flags'
    BY <1>0, <1>2 DEF Output!Align, Output!numbers, Output!fixed, Output!Flags, Output!Stages
  <2>2. Output!Times'
    BY <1>0, <1>2 DEF Output!Align, Output!numbers, Output!fixed, Output!Times,
         Output!OutputsAssumption
  <2>3. Output!Values'
    BY <1>0, <1>2 DEF Output!Align, Output!numbers, Output!fixed, Output!Values, Output!Times
  <2>4. Output!OutputsTrue'
    BY <1>0, <1>2 DEF Output!Align, Output!numbers, Output!fixed, Output!OutputsTrue,
         Output!RoundSound, Output!TimesSaved, Output!PointsPast, Output!Times, Output!Values
  <2>5. Output!RoundSound'
    BY <1>0, <1>2 DEF Output!Align, Output!numbers, Output!fixed, Output!RoundSound, Output!Times,
         Output!Values, Output!Reports
  <2>6. Output!TimesSaved'
    BY <1>0, <1>2 DEF Output!Align, Output!numbers, Output!fixed, Output!TimesSaved, Output!Times
  <2>7. Output!PointsPast'
    BY <1>0, <1>2 DEF Output!Align, Output!numbers, Output!fixed, Output!PointsPast, Output!Times,
         Output!RoundSound
  <2>8. QED
    BY <2>1, <2>2, <2>3, <2>4, <2>5, <2>6, <2>7 DEF Output!Inductive, Output!TypeOK
<1>3. CASE Output!StageFails
  <2>1. Output!Flags'
    BY <1>0, <1>3 DEF Output!StageFails, Output!numbers, Output!fixed, Output!Flags, Output!Stages
  <2>2. Output!Times'
    BY <1>0, <1>3 DEF Output!StageFails, Output!numbers, Output!fixed, Output!Times,
         Output!OutputsAssumption
  <2>3. Output!Values'
    BY <1>0, <1>3 DEF Output!StageFails, Output!numbers, Output!fixed, Output!Values, Output!Times
  <2>4. Output!OutputsTrue'
    BY <1>0, <1>3 DEF Output!StageFails, Output!numbers, Output!fixed, Output!OutputsTrue,
         Output!RoundSound, Output!TimesSaved, Output!PointsPast, Output!Times, Output!Values
  <2>5. Output!RoundSound'
    BY <1>0, <1>3 DEF Output!StageFails, Output!numbers, Output!fixed, Output!RoundSound,
         Output!Times, Output!Values, Output!Reports
  <2>6. Output!TimesSaved'
    BY <1>0, <1>3 DEF Output!StageFails, Output!numbers, Output!fixed, Output!TimesSaved,
         Output!Times
  <2>7. Output!PointsPast'
    BY <1>0, <1>3 DEF Output!StageFails, Output!numbers, Output!fixed, Output!PointsPast,
         Output!Times, Output!RoundSound
  <2>8. QED
    BY <2>1, <2>2, <2>3, <2>4, <2>5, <2>6, <2>7 DEF Output!Inductive, Output!TypeOK
<1>4. CASE Output!Judge
  <2>a. PICK verdict \in [Output!Numbers -> {"read", "rejected", "unknown"}] :
        /\ value' = [n \in Output!Numbers |-> IF verdict[n] = "read" THEN picture ELSE None]
        /\ error' = [n \in Output!Numbers |-> verdict[n] = "rejected"]
        /\ since' = [n \in Output!Numbers |-> IF verdict[n] = "read" THEN picture ELSE since[n]]
        /\ dirty' = (dirty \/ \E n \in Output!Numbers : verdict[n] = "read")
    BY <1>4 DEF Output!Judge
  <2>b. picture \in 1..clock /\ picture \in 0..clock
    BY <1>0, <1>4 DEF Output!Judge, Output!RoundSound, Output!Times
  <2>1. Output!Flags'
    BY <1>0, <1>4 DEF Output!Judge, Output!fixed, Output!Flags, Output!Stages
  <2>2. Output!Times'
    BY <1>0, <1>4, <2>a, <2>b DEF Output!Judge, Output!Times
  <2>3. Output!Values'
    BY <1>0, <1>4, <2>a, <2>b DEF Output!Judge, Output!Values
  <2>4. Output!OutputsTrue'
    BY <1>0, <1>4 DEF Output!Judge, Output!fixed, Output!OutputsTrue, Output!RoundSound,
         Output!TimesSaved, Output!PointsPast, Output!Times, Output!Values
  <2>5. Output!RoundSound'
    BY <1>0, <1>4 DEF Output!Judge, Output!fixed, Output!RoundSound, Output!Times, Output!Values,
         Output!Reports
  <2>6. Output!TimesSaved'
    <3>1. at' = "save" /\ ~dirty' => \A n \in Output!Numbers : value'[n] = None
      BY <2>a
    <3>2. at' = "save"
      BY <1>4 DEF Output!Judge
    <3>3. QED
      BY <3>1, <3>2 DEF Output!TimesSaved
  <2>7. Output!PointsPast'
    BY <1>0, <1>4 DEF Output!Judge, Output!fixed, Output!PointsPast, Output!Times,
         Output!RoundSound
  <2>8. QED
    BY <2>1, <2>2, <2>3, <2>4, <2>5, <2>6, <2>7 DEF Output!Inductive, Output!TypeOK
<1>5. CASE Output!Save
  <2>a. PICK outcome \in {"nothing", "failed", "written"} :
        /\ outcome = "nothing" <=> ~dirty
        /\ utc' = (IF outcome = "written" THEN since ELSE utc)
        /\ at' = (IF outcome = "written" THEN "close" ELSE "v1")
        /\ unsaved' = (unsaved \/ outcome = "failed")
    BY <1>5 DEF Output!Save, Output!SavePreValue, Output!Stamps
  <2>b. at = "save" /\ UNCHANGED <<clock, picture, aligned, value, error, since, dirty, last, points,
        report, setter>>
    BY <1>5 DEF Output!Save
  <2>1. Output!Flags'
    BY <1>0, <2>a, <2>b DEF Output!Flags, Output!Stages
  <2>2. Output!Times'
    BY <1>0, <2>a, <2>b DEF Output!Times
  <2>3. Output!Values'
    BY <1>0, <2>b DEF Output!Values
  <2>4. Output!OutputsTrue'
    BY <1>0, <2>b DEF Output!OutputsTrue
  <2>5. Output!RoundSound'
    BY <1>0, <2>a, <2>b DEF Output!RoundSound
  <2>6. Output!TimesSaved'
    BY <1>0, <2>a, <2>b DEF Output!TimesSaved, Output!RoundSound
  <2>7. Output!PointsPast'
    BY <1>0, <2>b DEF Output!PointsPast
  <2>8. QED
    BY <2>1, <2>2, <2>3, <2>4, <2>5, <2>6, <2>7 DEF Output!Inductive, Output!TypeOK
<1>6. ASSUME NEW database \in {"v1", "v2"}, Output!InfluxDBPublish(database) PROVE Output!Inductive'
  <2>a. ~unsaved => \A n \in Output!Numbers : value[n] # None => picture <= utc[n]
    BY <1>0, <1>6 DEF Output!InfluxDBPublish, Output!TimesSaved
  <2>b. \A n \in Output!Numbers : value[n] # None => value[n] = picture /\ picture > 0 /\ picture <= since[n]
    BY <1>0, <1>6 DEF Output!InfluxDBPublish, Output!RoundSound, Output!Times
  <2>c. \A p \in Output!Sent(database) : p.value = picture /\ p.kept = ~unsaved /\ (~unsaved => p.time >= picture)
        /\ p.time \in 0..clock
    BY <1>0, <2>a, <2>b DEF Output!Sent, Output!Times
  <2>d. points' \subseteq points \union Output!Sent(database) /\ UNCHANGED <<report, picture, clock>>
    BY <1>6 DEF Output!InfluxDBPublish
  <2>1. Output!Flags'
    BY <1>0, <1>6 DEF Output!InfluxDBPublish, Output!numbers, Output!fixed, Output!After,
         Output!Sent, Output!Flags, Output!Stages
  <2>2. Output!Times'
    BY <1>0, <1>6 DEF Output!InfluxDBPublish, Output!numbers, Output!fixed, Output!After,
         Output!Sent, Output!Times, Output!OutputsAssumption
  <2>3. Output!Values'
    BY <1>0, <1>6 DEF Output!InfluxDBPublish, Output!numbers, Output!fixed, Output!After,
         Output!Sent, Output!Values, Output!Times
  <2>4. Output!OutputsTrue'
    <3>1. \A p \in points' : p.kept => p.time >= p.value
      BY <1>0, <2>c, <2>d DEF Output!OutputsTrue
    <3>2. ASSUME NEW p \in points', NEW q \in points', p.kept, q.kept, q.database = p.database,
                 q.number = p.number, q.time = p.time
          PROVE  q.value = p.value
      <4>1. CASE p \in points /\ q \in points
        BY <1>0, <3>2, <4>1 DEF Output!OutputsTrue
      <4>2. ASSUME NEW x \in points' PROVE x.time \in Nat /\ (x.value # picture => x.time < picture)
        BY <1>0, <2>c, <2>d DEF Output!PointsPast, Output!Times
      <4>3. ASSUME NEW x \in points', x \notin points, x.kept
            PROVE  x.value = picture /\ x.time >= picture
        BY <1>0, <2>c, <2>d, <4>3 DEF Output!PointsPast, Output!Times
      <4>4. picture \in Nat
        BY <1>0 DEF Output!Times
      <4>5. CASE p \notin points
        <5>1. p.value = picture /\ p.time >= picture
          BY <3>2, <4>3, <4>5
        <5>2. q.time \in Nat /\ (q.value # picture => q.time < picture)
          BY <4>2
        <5>3. p.time \in Nat /\ q.time = p.time
          BY <3>2, <4>2
        <5>4. QED
          BY <4>4, <5>1, <5>2, <5>3
      <4>6. CASE q \notin points
        <5>1. q.value = picture /\ q.time >= picture
          BY <3>2, <4>3, <4>6
        <5>2. p.time \in Nat /\ (p.value # picture => p.time < picture)
          BY <4>2
        <5>3. q.time \in Nat /\ q.time = p.time
          BY <3>2, <4>2
        <5>4. QED
          BY <4>4, <5>1, <5>2, <5>3
      <4>7. QED
        BY <4>1, <4>5, <4>6
    <3>3. QED
      BY <1>0, <1>6, <2>d, <3>1, <3>2 DEF Output!OutputsTrue, Output!InfluxDBPublish, Output!numbers
  <2>5. Output!RoundSound'
    BY <1>0, <1>6 DEF Output!InfluxDBPublish, Output!numbers, Output!fixed, Output!After,
         Output!Sent, Output!RoundSound, Output!Times, Output!Values, Output!Reports
  <2>6. Output!TimesSaved'
    BY <1>0, <1>6 DEF Output!InfluxDBPublish, Output!numbers, Output!fixed, Output!After,
         Output!Sent, Output!TimesSaved, Output!Times
  <2>7. Output!PointsPast'
    BY <1>0, <1>6 DEF Output!InfluxDBPublish, Output!numbers, Output!fixed, Output!After,
         Output!Sent, Output!PointsPast, Output!Times, Output!RoundSound
  <2>8. QED
    BY <2>1, <2>2, <2>3, <2>4, <2>5, <2>6, <2>7 DEF Output!Inductive, Output!TypeOK
<1>7. CASE Output!WebhookPublish
  <2>a. Len(Names) \in Output!Numbers
    BY DEF Output!OutputsAssumption, Output!Numbers
  <2>b. last' = since[Len(Names)] /\ UNCHANGED <<clock, picture, aligned, since, utc, value>>
    BY <1>7 DEF Output!WebhookPublish, Output!numbers
  <2>c. PICK e \in BOOLEAN : report' = [values |-> value, error |-> e, taken |-> picture,
        sent |-> FALSE, picture |-> 0, stamp |-> 0]
    BY <1>7 DEF Output!WebhookPublish
  <2>d. value \in [Output!Numbers -> Nat \union {None}] /\ picture \in Nat
    BY <1>0 DEF Output!Values, Output!Times
  <2>e. report' \in Output!Reports
    BY <2>c, <2>d DEF Output!Reports
  <2>1. Output!Flags'
    BY <1>0, <1>7 DEF Output!WebhookPublish, Output!numbers, Output!fixed, Output!Flags,
         Output!Stages
  <2>2. Output!Times'
    BY <1>0, <2>a, <2>b DEF Output!Times
  <2>3. Output!Values'
    BY <1>0, <1>7 DEF Output!WebhookPublish, Output!numbers, Output!fixed, Output!Values,
         Output!Times
  <2>4. Output!OutputsTrue'
    BY <1>0, <1>7 DEF Output!WebhookPublish, Output!numbers, Output!fixed, Output!OutputsTrue,
         Output!RoundSound, Output!TimesSaved, Output!PointsPast, Output!Times, Output!Values
  <2>5. Output!RoundSound'
    <3>1. at = "webhook" /\ at' = "upload" /\ UNCHANGED <<picture, aligned, value, since>>
      BY <1>7 DEF Output!WebhookPublish, Output!numbers
    <3>2. report'.taken = picture /\ report'.values = value
      BY <2>c
    <3>3. picture > 0 /\ aligned \in {0, picture}
          /\ \A n \in Output!Numbers : value[n] # None => value[n] = picture /\ picture <= since[n]
      BY <1>0, <3>1 DEF Output!RoundSound
    <3>4. QED
      BY <2>e, <3>1, <3>2, <3>3 DEF Output!RoundSound
  <2>6. Output!TimesSaved'
    BY <1>0, <1>7 DEF Output!WebhookPublish, Output!numbers, Output!fixed, Output!TimesSaved,
         Output!Times
  <2>7. Output!PointsPast'
    BY <1>0, <1>7 DEF Output!WebhookPublish, Output!numbers, Output!fixed, Output!PointsPast,
         Output!Times, Output!RoundSound
  <2>8. QED
    BY <2>1, <2>2, <2>3, <2>4, <2>5, <2>6, <2>7 DEF Output!Inductive, Output!TypeOK
<1>8. CASE Output!WebhookUploadPic
  <2>a. report \in Output!Reports /\ report.taken = picture /\ at' = "idle" /\ UNCHANGED value
        /\ \A n \in Output!Numbers : report.values[n] \in {None, picture}
    BY <1>0, <1>8 DEF Output!WebhookUploadPic, Output!RoundSound, Output!numbers
  <2>b. aligned \in Nat /\ last \in Nat /\ aligned \in {0, picture}
    BY <1>0, <1>8 DEF Output!WebhookUploadPic, Output!RoundSound, Output!Times
  <2>c. report' = report \/ report' = [report EXCEPT !.sent = TRUE, !.picture = aligned, !.stamp = last]
    BY <1>8 DEF Output!WebhookUploadPic
  <2>d. report' \in Output!Reports
    BY <2>a, <2>b, <2>c DEF Output!Reports
  <2>1. Output!Flags'
    BY <1>0, <1>8 DEF Output!WebhookUploadPic, Output!numbers, Output!fixed, Output!Flags,
         Output!Stages
  <2>2. Output!Times'
    BY <1>0, <1>8 DEF Output!WebhookUploadPic, Output!numbers, Output!fixed, Output!Times,
         Output!OutputsAssumption
  <2>3. Output!Values'
    BY <1>0, <1>8 DEF Output!WebhookUploadPic, Output!numbers, Output!fixed, Output!Values,
         Output!Times
  <2>4. Output!OutputsTrue'
    BY <1>0, <1>8, <2>a, <2>b, <2>c DEF Output!WebhookUploadPic, Output!OutputsTrue, Output!Reports
  <2>5. Output!RoundSound'
    BY <1>0, <2>a, <2>d DEF Output!RoundSound
  <2>6. Output!TimesSaved'
    BY <1>0, <1>8 DEF Output!WebhookUploadPic, Output!numbers, Output!fixed, Output!TimesSaved,
         Output!Times
  <2>7. Output!PointsPast'
    BY <1>0, <1>8 DEF Output!WebhookUploadPic, Output!numbers, Output!fixed, Output!PointsPast,
         Output!Times, Output!RoundSound
  <2>8. QED
    BY <2>1, <2>2, <2>3, <2>4, <2>5, <2>6, <2>7 DEF Output!Inductive, Output!TypeOK
<1>9. ASSUME NEW n \in Output!Numbers, Output!SetPreValue(n) PROVE Output!Inductive'
  <2>a. clock' = clock + 1 /\ clock \in Nat /\ clock' \in 0..MaxTime
    BY <1>0, <1>9 DEF Output!SetPreValue, Output!Passes, Output!Times, Output!OutputsAssumption
  <2>b. 0..clock \subseteq 0..clock' /\ 1..clock \subseteq 1..clock'
    BY <2>a
  <2>c. UNCHANGED <<at, aligned, last, picture, value, error, utc, points, report, unsaved>>
    BY <1>9 DEF Output!SetPreValue
  <2>d. since' = [since EXCEPT ![n] = clock'] /\ dirty' = TRUE /\ setter' = "save"
    BY <1>9 DEF Output!SetPreValue
  <2>1. Output!Flags'
    BY <1>0, <2>c, <2>d DEF Output!Flags
  <2>2. Output!Times'
    BY <1>0, <2>a, <2>b, <2>c, <2>d DEF Output!Times
  <2>3. Output!Values'
    BY <1>0, <2>b, <2>c DEF Output!Values
  <2>4. Output!OutputsTrue'
    BY <1>0, <2>c DEF Output!OutputsTrue
  <2>5. Output!RoundSound'
    <3>1. \A m \in Output!Numbers : picture <= since[m] => picture <= since'[m]
      BY <1>0, <2>a, <2>d DEF Output!Times
    <3>2. QED
      BY <1>0, <2>c, <3>1 DEF Output!RoundSound
  <2>6. Output!TimesSaved'
    BY <1>0, <2>c, <2>d DEF Output!TimesSaved
  <2>7. Output!PointsPast'
    BY <1>0, <2>b, <2>c DEF Output!PointsPast
  <2>8. QED
    BY <2>1, <2>2, <2>3, <2>4, <2>5, <2>6, <2>7 DEF Output!Inductive, Output!TypeOK
<1>10. CASE Output!Close \/ Output!RequestCloses
  <2>a. UNCHANGED <<clock, picture, aligned, value, error, since, utc, last, points, report>>
    BY <1>10 DEF Output!Close, Output!RequestCloses
  <2>d. dirty' = FALSE \/ dirty' = dirty
    BY <1>10 DEF Output!Close, Output!RequestCloses, Output!ClosePreValue
  <2>b. \/ at = "close" /\ at' = "v1" /\ UNCHANGED <<setter, unsaved>>
        \/ /\ UNCHANGED at /\ setter' = "none"
           /\ unsaved' = (unsaved \/ (at = "save" /\ dirty' # dirty))
    BY <1>10 DEF Output!Close, Output!RequestCloses
  <2>1. Output!Flags'
    BY <1>0, <2>b, <2>d DEF Output!Flags, Output!Stages
  <2>2. Output!Times'
    BY <1>0, <2>a DEF Output!Times
  <2>3. Output!Values'
    BY <1>0, <2>a DEF Output!Values
  <2>4. Output!OutputsTrue'
    BY <1>0, <2>a DEF Output!OutputsTrue
  <2>5. Output!RoundSound'
    BY <1>0, <2>a, <2>b DEF Output!RoundSound
  <2>6. Output!TimesSaved'
    BY <1>0, <2>a, <2>b, <2>d DEF Output!TimesSaved
  <2>7. Output!PointsPast'
    BY <1>0, <2>a DEF Output!PointsPast
  <2>8. QED
    BY <2>1, <2>2, <2>3, <2>4, <2>5, <2>6, <2>7 DEF Output!Inductive, Output!TypeOK
<1>11. CASE Output!RequestSaves
  <2>a. /\ utc' \in {since, utc} /\ setter' \in {"none", "close"}
        /\ UNCHANGED <<clock, at, picture, aligned, value, error, since, dirty, last, points, report,
                       unsaved>>
    BY <1>11 DEF Output!RequestSaves, Output!SavePreValue, Output!Stamps
  <2>1. Output!Flags'
    BY <1>0, <2>a DEF Output!Flags
  <2>2. Output!Times'
    BY <1>0, <2>a DEF Output!Times
  <2>3. Output!Values'
    BY <1>0, <2>a DEF Output!Values
  <2>4. Output!OutputsTrue'
    BY <1>0, <2>a DEF Output!OutputsTrue
  <2>5. Output!RoundSound'
    BY <1>0, <2>a DEF Output!RoundSound
  <2>6. Output!TimesSaved'
    BY <1>0, <2>a DEF Output!TimesSaved, Output!RoundSound
  <2>7. Output!PointsPast'
    BY <1>0, <2>a DEF Output!PointsPast
  <2>8. QED
    BY <2>1, <2>2, <2>3, <2>4, <2>5, <2>6, <2>7 DEF Output!Inductive, Output!TypeOK
<1>12. QED
  BY <1>1, <1>2, <1>3, <1>4, <1>5, <1>6, <1>7, <1>8, <1>9, <1>10, <1>11 DEF Output!Next,
     Output!InfluxDBFlow, Output!InfluxDBv2Flow

\* So does every step, or none.
LEMMA OutputsStepInductive ==
  Output!OutputsAssumption /\ Output!Inductive /\ [Output!Next]_Output!vars => Output!Inductive'
<1> SUFFICES ASSUME Output!OutputsAssumption, Output!Inductive, [Output!Next]_Output!vars PROVE Output!Inductive'
  OBVIOUS
<1>1. CASE UNCHANGED Output!vars
  <2>0. /\ Output!Flags /\ Output!Times /\ Output!Values
        /\ Output!OutputsTrue /\ Output!RoundSound /\ Output!TimesSaved /\ Output!PointsPast
    BY DEF Output!Inductive, Output!TypeOK
  <2>1. Output!Flags'
    BY <1>1, <2>0 DEF Output!vars, Output!numbers, Output!fixed, Output!Flags
  <2>2. Output!Times'
    BY <1>1, <2>0 DEF Output!vars, Output!numbers, Output!fixed, Output!Times
  <2>3. Output!Values'
    BY <1>1, <2>0 DEF Output!vars, Output!numbers, Output!fixed, Output!Values
  <2>4. Output!OutputsTrue'
    BY <1>1, <2>0 DEF Output!vars, Output!numbers, Output!fixed, Output!OutputsTrue
  <2>5. Output!RoundSound'
    BY <1>1, <2>0 DEF Output!vars, Output!numbers, Output!fixed, Output!RoundSound
  <2>6. Output!TimesSaved'
    BY <1>1, <2>0 DEF Output!vars, Output!numbers, Output!fixed, Output!TimesSaved
  <2>7. Output!PointsPast'
    BY <1>1, <2>0 DEF Output!vars, Output!numbers, Output!fixed, Output!PointsPast
  <2>8. QED
    BY <2>1, <2>2, <2>3, <2>4, <2>5, <2>6, <2>7 DEF Output!Inductive, Output!TypeOK
<1>2. QED
  BY <1>1, OutputsStepKeeps

-----------------------------------------------------------------------------
(* The update of a build that is not managed                               *)

\* A new device has the old interface, one application and a network.
LEMMA LegacyInitInductive == Legacy!LegacyAssumption /\ Legacy!Init => Legacy!Inductive
<1> SUFFICES ASSUME Legacy!LegacyAssumption, Legacy!Init PROVE Legacy!Inductive
  OBVIOUS
<1>a. flash \in [Legacy!Slots -> BOOLEAN] /\ boot \in Legacy!Slots /\ running \in Legacy!Slots
  BY DEF Legacy!Init, Legacy!Slots
<1>b. network \in [{"firmware", "config"} -> {"whole", "partial", None}]
  BY DEF Legacy!Init
<1>1. Legacy!TypeOK
  BY <1>a, <1>b DEF Legacy!Init, Legacy!TypeOK, Legacy!Steps
<1>2. Legacy!TriedOnce /\ Legacy!BootsSound /\ Legacy!InterfaceKept
  BY DEF Legacy!Init, Legacy!TriedOnce, Legacy!BootsSound, Legacy!InterfaceKept, Legacy!Slots
<1>3. Legacy!CopySound /\ Legacy!ExtractionSound /\ Legacy!InterfaceSound
  BY DEF Legacy!LegacyAssumption, Legacy!Init, Legacy!CopySound, Legacy!ExtractionSound,
       Legacy!InterfaceSound
<1>4. QED
  BY <1>1, <1>2, <1>3 DEF Legacy!Inductive

\* Every step keeps the application that boots, the interface and the network.
LEMMA LegacyStepKeeps ==
  ASSUME Legacy!LegacyAssumption, Legacy!Inductive, Legacy!Next
  PROVE  Legacy!Inductive'
<1>0. /\ Legacy!TypeOK /\ Legacy!TriedOnce /\ Legacy!BootsSound /\ Legacy!InterfaceKept /\ Legacy!CopySound
      /\ Legacy!ExtractionSound /\ Legacy!InterfaceSound
  BY DEF Legacy!Inductive
<1>1. CASE Legacy!Upload
  <2>1. Legacy!TypeOK'
    BY <1>0, <1>1 DEF Legacy!Upload, Legacy!folders, Legacy!slots, Legacy!Served, Legacy!TypeOK,
         Legacy!Steps, Legacy!LegacyAssumption
  <2>2. Legacy!TriedOnce'
    BY <1>0, <1>1 DEF Legacy!Upload, Legacy!folders, Legacy!slots, Legacy!Served, Legacy!TriedOnce
  <2>3. Legacy!BootsSound'
    BY <1>0, <1>1 DEF Legacy!Upload, Legacy!folders, Legacy!slots, Legacy!Served,
         Legacy!BootsSound, Legacy!TypeOK
  <2>4. Legacy!InterfaceKept'
    BY <1>0, <1>1 DEF Legacy!Upload, Legacy!folders, Legacy!slots, Legacy!Served,
         Legacy!InterfaceKept, Legacy!InterfaceSound, Legacy!CopySound, Legacy!TypeOK
  <2>5. Legacy!CopySound'
    BY <1>0, <1>1 DEF Legacy!Upload, Legacy!folders, Legacy!slots, Legacy!Served,
         Legacy!CopySound, Legacy!TypeOK, Legacy!LegacyAssumption
  <2>6. Legacy!ExtractionSound'
    BY <1>0, <1>1 DEF Legacy!Upload, Legacy!folders, Legacy!slots, Legacy!Served,
         Legacy!ExtractionSound, Legacy!LegacyAssumption, Legacy!TypeOK, Legacy!CopySound
  <2>7. Legacy!InterfaceSound'
    BY <1>0, <1>1 DEF Legacy!Upload, Legacy!folders, Legacy!slots, Legacy!Served,
         Legacy!InterfaceSound, Legacy!ExtractionSound, Legacy!LegacyAssumption, Legacy!TypeOK
  <2>8. QED
    BY <2>1, <2>2, <2>3, <2>4, <2>5, <2>6, <2>7 DEF Legacy!Inductive
<1>2. CASE Legacy!Empty
  <2>1. Legacy!TypeOK'
    BY <1>0, <1>2 DEF Legacy!Empty, Legacy!Unlinked, Legacy!folders, Legacy!slots, Legacy!Served, Legacy!TypeOK,
         Legacy!Steps, Legacy!LegacyAssumption
  <2>2. Legacy!TriedOnce'
    BY <1>0, <1>2 DEF Legacy!Empty, Legacy!Unlinked, Legacy!folders, Legacy!slots, Legacy!Served, Legacy!TriedOnce
  <2>3. Legacy!BootsSound'
    BY <1>0, <1>2 DEF Legacy!Empty, Legacy!Unlinked, Legacy!folders, Legacy!slots, Legacy!Served,
         Legacy!BootsSound, Legacy!TypeOK
  <2>4. Legacy!InterfaceKept'
    BY <1>0, <1>2 DEF Legacy!Empty, Legacy!Unlinked, Legacy!folders, Legacy!slots, Legacy!Served,
         Legacy!InterfaceKept, Legacy!InterfaceSound, Legacy!CopySound, Legacy!TypeOK
  <2>5. Legacy!CopySound'
    BY <1>0, <1>2 DEF Legacy!Empty, Legacy!Unlinked, Legacy!folders, Legacy!slots, Legacy!Served, Legacy!CopySound,
         Legacy!TypeOK, Legacy!LegacyAssumption
  <2>6. Legacy!ExtractionSound'
    BY <1>0, <1>2 DEF Legacy!Empty, Legacy!Unlinked, Legacy!folders, Legacy!slots, Legacy!Served,
         Legacy!ExtractionSound, Legacy!LegacyAssumption, Legacy!TypeOK, Legacy!CopySound
  <2>7. Legacy!InterfaceSound'
    BY <1>0, <1>2 DEF Legacy!Empty, Legacy!Unlinked, Legacy!folders, Legacy!slots, Legacy!Served,
         Legacy!InterfaceSound, Legacy!ExtractionSound, Legacy!LegacyAssumption, Legacy!TypeOK
  <2>8. QED
    BY <2>1, <2>2, <2>3, <2>4, <2>5, <2>6, <2>7 DEF Legacy!Inductive
<1>3. CASE Legacy!MarkBegins
  <2>1. Legacy!TypeOK'
    BY <1>0, <1>3 DEF Legacy!MarkBegins, Legacy!folders, Legacy!slots, Legacy!Served,
         Legacy!TypeOK, Legacy!Steps, Legacy!LegacyAssumption
  <2>2. Legacy!TriedOnce'
    BY <1>0, <1>3 DEF Legacy!MarkBegins, Legacy!folders, Legacy!slots, Legacy!Served,
         Legacy!TriedOnce
  <2>3. Legacy!BootsSound'
    BY <1>0, <1>3 DEF Legacy!MarkBegins, Legacy!folders, Legacy!slots, Legacy!Served,
         Legacy!BootsSound, Legacy!TypeOK
  <2>4. Legacy!InterfaceKept'
    BY <1>0, <1>3 DEF Legacy!MarkBegins, Legacy!folders, Legacy!slots, Legacy!Served,
         Legacy!InterfaceKept, Legacy!InterfaceSound, Legacy!CopySound, Legacy!TypeOK
  <2>5. Legacy!CopySound'
    BY <1>0, <1>3 DEF Legacy!MarkBegins, Legacy!folders, Legacy!slots, Legacy!Served,
         Legacy!CopySound, Legacy!TypeOK, Legacy!LegacyAssumption
  <2>6. Legacy!ExtractionSound'
    BY <1>0, <1>3 DEF Legacy!MarkBegins, Legacy!folders, Legacy!slots, Legacy!Served,
         Legacy!ExtractionSound, Legacy!LegacyAssumption, Legacy!TypeOK, Legacy!CopySound
  <2>7. Legacy!InterfaceSound'
    BY <1>0, <1>3 DEF Legacy!MarkBegins, Legacy!folders, Legacy!slots, Legacy!Served,
         Legacy!InterfaceSound, Legacy!ExtractionSound, Legacy!LegacyAssumption, Legacy!TypeOK
  <2>8. QED
    BY <2>1, <2>2, <2>3, <2>4, <2>5, <2>6, <2>7 DEF Legacy!Inductive
<1>4. CASE Legacy!Mark
  <2>a. at = "app"
    BY <1>0, <1>4 DEF Legacy!Mark, Legacy!CopySound
  <2>1. Legacy!TypeOK'
    BY <1>0, <1>4, <2>a DEF Legacy!Mark, Legacy!folders, Legacy!slots, Legacy!TypeOK,
         Legacy!Steps, Legacy!LegacyAssumption
  <2>2. Legacy!TriedOnce'
    BY <1>0, <1>4, <2>a DEF Legacy!Mark, Legacy!folders, Legacy!slots, Legacy!TriedOnce,
         Legacy!CopySound
  <2>3. Legacy!BootsSound'
    BY <1>0, <1>4, <2>a DEF Legacy!Mark, Legacy!folders, Legacy!slots, Legacy!BootsSound,
         Legacy!TypeOK
  <2>4. Legacy!InterfaceKept'
    BY <1>0, <1>4, <2>a DEF Legacy!Mark, Legacy!folders, Legacy!slots, Legacy!InterfaceKept,
         Legacy!InterfaceSound, Legacy!CopySound, Legacy!TypeOK
  <2>5. Legacy!CopySound'
    BY <1>0, <1>4, <2>a DEF Legacy!Mark, Legacy!folders, Legacy!slots, Legacy!CopySound,
         Legacy!TypeOK, Legacy!LegacyAssumption
  <2>6. Legacy!ExtractionSound'
    BY <1>0, <1>4, <2>a DEF Legacy!Mark, Legacy!folders, Legacy!slots, Legacy!ExtractionSound,
         Legacy!LegacyAssumption, Legacy!TypeOK, Legacy!CopySound
  <2>7. Legacy!InterfaceSound'
    BY <1>0, <1>4, <2>a DEF Legacy!Mark, Legacy!folders, Legacy!slots, Legacy!InterfaceSound,
         Legacy!ExtractionSound, Legacy!LegacyAssumption, Legacy!TypeOK
  <2>8. QED
    BY <2>1, <2>2, <2>3, <2>4, <2>5, <2>6, <2>7 DEF Legacy!Inductive
<1>5. CASE Legacy!UploadNetwork
  <2>1. Legacy!TypeOK'
    BY <1>0, <1>5 DEF Legacy!UploadNetwork, Legacy!folders, Legacy!slots, Legacy!Served,
         Legacy!TypeOK, Legacy!Steps, Legacy!LegacyAssumption
  <2>2. Legacy!TriedOnce'
    BY <1>0, <1>5 DEF Legacy!UploadNetwork, Legacy!folders, Legacy!slots, Legacy!Served,
         Legacy!TriedOnce
  <2>3. Legacy!BootsSound'
    BY <1>0, <1>5 DEF Legacy!UploadNetwork, Legacy!folders, Legacy!slots, Legacy!Served,
         Legacy!BootsSound, Legacy!TypeOK
  <2>4. Legacy!InterfaceKept'
    BY <1>0, <1>5 DEF Legacy!UploadNetwork, Legacy!folders, Legacy!slots, Legacy!Served,
         Legacy!InterfaceKept, Legacy!InterfaceSound, Legacy!CopySound, Legacy!TypeOK
  <2>5. Legacy!CopySound'
    BY <1>0, <1>5 DEF Legacy!UploadNetwork, Legacy!folders, Legacy!slots, Legacy!Served,
         Legacy!CopySound, Legacy!TypeOK, Legacy!LegacyAssumption
  <2>6. Legacy!ExtractionSound'
    BY <1>0, <1>5 DEF Legacy!UploadNetwork, Legacy!folders, Legacy!slots, Legacy!Served,
         Legacy!ExtractionSound, Legacy!LegacyAssumption, Legacy!TypeOK, Legacy!CopySound
  <2>7. Legacy!InterfaceSound'
    BY <1>0, <1>5 DEF Legacy!UploadNetwork, Legacy!folders, Legacy!slots, Legacy!Served,
         Legacy!InterfaceSound, Legacy!ExtractionSound, Legacy!LegacyAssumption, Legacy!TypeOK
  <2>8. QED
    BY <2>1, <2>2, <2>3, <2>4, <2>5, <2>6, <2>7 DEF Legacy!Inductive
<1>6. CASE Legacy!CopyNetwork
  <2>1. Legacy!TypeOK'
    BY <1>0, <1>6 DEF Legacy!CopyNetwork, Legacy!Unlinked, Legacy!folders, Legacy!slots, Legacy!Served,
         Legacy!TypeOK, Legacy!Steps, Legacy!LegacyAssumption
  <2>2. Legacy!TriedOnce'
    BY <1>0, <1>6 DEF Legacy!CopyNetwork, Legacy!Unlinked, Legacy!folders, Legacy!slots, Legacy!Served,
         Legacy!TriedOnce
  <2>3. Legacy!BootsSound'
    BY <1>0, <1>6 DEF Legacy!CopyNetwork, Legacy!Unlinked, Legacy!folders, Legacy!slots, Legacy!Served,
         Legacy!BootsSound, Legacy!TypeOK
  <2>4. Legacy!InterfaceKept'
    BY <1>0, <1>6 DEF Legacy!CopyNetwork, Legacy!Unlinked, Legacy!folders, Legacy!slots, Legacy!Served,
         Legacy!InterfaceKept, Legacy!InterfaceSound, Legacy!CopySound, Legacy!TypeOK
  <2>5. Legacy!CopySound'
    BY <1>0, <1>6 DEF Legacy!CopyNetwork, Legacy!Unlinked, Legacy!folders, Legacy!slots, Legacy!Served,
         Legacy!CopySound, Legacy!TypeOK, Legacy!LegacyAssumption
  <2>6. Legacy!ExtractionSound'
    BY <1>0, <1>6 DEF Legacy!CopyNetwork, Legacy!Unlinked, Legacy!folders, Legacy!slots, Legacy!Served,
         Legacy!ExtractionSound, Legacy!LegacyAssumption, Legacy!TypeOK, Legacy!CopySound
  <2>7. Legacy!InterfaceSound'
    BY <1>0, <1>6 DEF Legacy!CopyNetwork, Legacy!Unlinked, Legacy!folders, Legacy!slots, Legacy!Served,
         Legacy!InterfaceSound, Legacy!ExtractionSound, Legacy!LegacyAssumption, Legacy!TypeOK
  <2>8. QED
    BY <2>1, <2>2, <2>3, <2>4, <2>5, <2>6, <2>7 DEF Legacy!Inductive
<1>7. CASE Legacy!CopyBegins
  <2>1. Legacy!TypeOK'
    BY <1>0, <1>7 DEF Legacy!CopyBegins, Legacy!folders, Legacy!slots, Legacy!TypeOK,
         Legacy!Steps, Legacy!LegacyAssumption
  <2>2. Legacy!TriedOnce'
    BY <1>0, <1>7 DEF Legacy!CopyBegins, Legacy!folders, Legacy!slots, Legacy!TriedOnce
  <2>3. Legacy!BootsSound'
    BY <1>0, <1>7 DEF Legacy!CopyBegins, Legacy!folders, Legacy!slots, Legacy!BootsSound,
         Legacy!TypeOK
  <2>4. Legacy!InterfaceKept'
    BY <1>0, <1>7 DEF Legacy!CopyBegins, Legacy!folders, Legacy!slots, Legacy!InterfaceKept,
         Legacy!InterfaceSound, Legacy!CopySound, Legacy!TypeOK
  <2>5. Legacy!CopySound'
    BY <1>0, <1>7 DEF Legacy!CopyBegins, Legacy!folders, Legacy!slots, Legacy!CopySound,
         Legacy!TypeOK, Legacy!LegacyAssumption
  <2>6. Legacy!ExtractionSound'
    BY <1>0, <1>7 DEF Legacy!CopyBegins, Legacy!folders, Legacy!slots, Legacy!ExtractionSound,
         Legacy!LegacyAssumption, Legacy!TypeOK, Legacy!CopySound
  <2>7. Legacy!InterfaceSound'
    BY <1>0, <1>7 DEF Legacy!CopyBegins, Legacy!folders, Legacy!slots, Legacy!InterfaceSound,
         Legacy!ExtractionSound, Legacy!LegacyAssumption, Legacy!TypeOK
  <2>8. QED
    BY <2>1, <2>2, <2>3, <2>4, <2>5, <2>6, <2>7 DEF Legacy!Inductive
<1>8. CASE Legacy!CopyEnds
  <2>1. Legacy!TypeOK'
    BY <1>0, <1>8 DEF Legacy!CopyEnds, Legacy!folders, Legacy!slots, Legacy!TypeOK, Legacy!Steps,
         Legacy!LegacyAssumption
  <2>2. Legacy!TriedOnce'
    BY <1>0, <1>8 DEF Legacy!CopyEnds, Legacy!folders, Legacy!slots, Legacy!TriedOnce
  <2>3. Legacy!BootsSound'
    BY <1>0, <1>8 DEF Legacy!CopyEnds, Legacy!folders, Legacy!slots, Legacy!BootsSound,
         Legacy!TypeOK
  <2>4. Legacy!InterfaceKept'
    BY <1>0, <1>8 DEF Legacy!CopyEnds, Legacy!folders, Legacy!slots, Legacy!InterfaceKept,
         Legacy!InterfaceSound, Legacy!CopySound, Legacy!TypeOK
  <2>5. Legacy!CopySound'
    BY <1>0, <1>8 DEF Legacy!CopyEnds, Legacy!folders, Legacy!slots, Legacy!CopySound,
         Legacy!TypeOK, Legacy!LegacyAssumption
  <2>6. Legacy!ExtractionSound'
    BY <1>0, <1>8 DEF Legacy!CopyEnds, Legacy!folders, Legacy!slots, Legacy!ExtractionSound,
         Legacy!LegacyAssumption, Legacy!TypeOK, Legacy!CopySound
  <2>7. Legacy!InterfaceSound'
    BY <1>0, <1>8 DEF Legacy!CopyEnds, Legacy!folders, Legacy!slots, Legacy!InterfaceSound,
         Legacy!ExtractionSound, Legacy!LegacyAssumption, Legacy!TypeOK
  <2>8. QED
    BY <2>1, <2>2, <2>3, <2>4, <2>5, <2>6, <2>7 DEF Legacy!Inductive
<1>9. CASE Legacy!DeleteCopied
  <2>1. Legacy!TypeOK'
    BY <1>0, <1>9 DEF Legacy!DeleteCopied, Legacy!Unlinked, Legacy!folders, Legacy!slots, Legacy!TypeOK,
         Legacy!Steps, Legacy!LegacyAssumption
  <2>2. Legacy!TriedOnce'
    BY <1>0, <1>9 DEF Legacy!DeleteCopied, Legacy!Unlinked, Legacy!folders, Legacy!slots, Legacy!TriedOnce
  <2>3. Legacy!BootsSound'
    BY <1>0, <1>9 DEF Legacy!DeleteCopied, Legacy!Unlinked, Legacy!folders, Legacy!slots, Legacy!BootsSound,
         Legacy!TypeOK
  <2>4. Legacy!InterfaceKept'
    BY <1>0, <1>9 DEF Legacy!DeleteCopied, Legacy!Unlinked, Legacy!folders, Legacy!slots, Legacy!InterfaceKept,
         Legacy!InterfaceSound, Legacy!CopySound, Legacy!TypeOK
  <2>5. Legacy!CopySound'
    BY <1>0, <1>9 DEF Legacy!DeleteCopied, Legacy!Unlinked, Legacy!folders, Legacy!slots, Legacy!CopySound,
         Legacy!TypeOK, Legacy!LegacyAssumption
  <2>6. Legacy!ExtractionSound'
    BY <1>0, <1>9 DEF Legacy!DeleteCopied, Legacy!Unlinked, Legacy!folders, Legacy!slots, Legacy!ExtractionSound,
         Legacy!LegacyAssumption, Legacy!TypeOK, Legacy!CopySound
  <2>7. Legacy!InterfaceSound'
    BY <1>0, <1>9 DEF Legacy!DeleteCopied, Legacy!Unlinked, Legacy!folders, Legacy!slots, Legacy!InterfaceSound,
         Legacy!ExtractionSound, Legacy!LegacyAssumption, Legacy!TypeOK
  <2>8. QED
    BY <2>1, <2>2, <2>3, <2>4, <2>5, <2>6, <2>7 DEF Legacy!Inductive
<1>10. CASE Legacy!UnzipHtml
  <2>1. Legacy!TypeOK'
    BY <1>0, <1>10 DEF Legacy!UnzipHtml, Legacy!slots, Legacy!Served, Legacy!TypeOK, Legacy!Steps,
         Legacy!LegacyAssumption
  <2>2. Legacy!TriedOnce'
    BY <1>0, <1>10 DEF Legacy!UnzipHtml, Legacy!slots, Legacy!Served, Legacy!TriedOnce
  <2>3. Legacy!BootsSound'
    BY <1>0, <1>10 DEF Legacy!UnzipHtml, Legacy!slots, Legacy!Served, Legacy!BootsSound,
         Legacy!TypeOK
  <2>4. Legacy!InterfaceKept'
    BY <1>0, <1>10 DEF Legacy!UnzipHtml, Legacy!slots, Legacy!Served, Legacy!InterfaceKept,
         Legacy!InterfaceSound, Legacy!CopySound, Legacy!TypeOK
  <2>5. Legacy!CopySound'
    BY <1>0, <1>10 DEF Legacy!UnzipHtml, Legacy!slots, Legacy!Served, Legacy!CopySound,
         Legacy!TypeOK, Legacy!LegacyAssumption
  <2>6. Legacy!ExtractionSound'
    BY <1>0, <1>10 DEF Legacy!UnzipHtml, Legacy!slots, Legacy!Served, Legacy!ExtractionSound,
         Legacy!LegacyAssumption, Legacy!TypeOK, Legacy!CopySound
  <2>7. Legacy!InterfaceSound'
    BY <1>0, <1>10 DEF Legacy!UnzipHtml, Legacy!slots, Legacy!Served, Legacy!InterfaceSound,
         Legacy!ExtractionSound, Legacy!LegacyAssumption, Legacy!TypeOK
  <2>8. QED
    BY <2>1, <2>2, <2>3, <2>4, <2>5, <2>6, <2>7 DEF Legacy!Inductive
<1>11. CASE Legacy!NoUpdate
  <2>1. Legacy!TypeOK'
    BY <1>0, <1>11 DEF Legacy!NoUpdate, Legacy!card, Legacy!slots, Legacy!Give_up, Legacy!Go,
         Legacy!TypeOK, Legacy!Steps, Legacy!LegacyAssumption
  <2>2. Legacy!TriedOnce'
    BY <1>0, <1>11 DEF Legacy!NoUpdate, Legacy!card, Legacy!slots, Legacy!Give_up, Legacy!Go,
         Legacy!TriedOnce
  <2>3. Legacy!BootsSound'
    BY <1>0, <1>11 DEF Legacy!NoUpdate, Legacy!card, Legacy!slots, Legacy!Give_up, Legacy!Go,
         Legacy!BootsSound, Legacy!TypeOK
  <2>4. Legacy!InterfaceKept'
    BY <1>0, <1>11 DEF Legacy!NoUpdate, Legacy!card, Legacy!slots, Legacy!Give_up, Legacy!Go,
         Legacy!InterfaceKept, Legacy!InterfaceSound, Legacy!CopySound, Legacy!TypeOK
  <2>5. Legacy!CopySound'
    BY <1>0, <1>11 DEF Legacy!NoUpdate, Legacy!card, Legacy!slots, Legacy!Give_up, Legacy!Go,
         Legacy!CopySound, Legacy!TypeOK, Legacy!LegacyAssumption
  <2>6. Legacy!ExtractionSound'
    BY <1>0, <1>11 DEF Legacy!NoUpdate, Legacy!card, Legacy!slots, Legacy!Give_up, Legacy!Go,
         Legacy!ExtractionSound, Legacy!LegacyAssumption, Legacy!TypeOK, Legacy!CopySound
  <2>7. Legacy!InterfaceSound'
    BY <1>0, <1>11 DEF Legacy!NoUpdate, Legacy!card, Legacy!slots, Legacy!Give_up, Legacy!Go,
         Legacy!InterfaceSound, Legacy!ExtractionSound, Legacy!LegacyAssumption, Legacy!TypeOK
  <2>8. QED
    BY <2>1, <2>2, <2>3, <2>4, <2>5, <2>6, <2>7 DEF Legacy!Inductive
<1>12. CASE Legacy!CheckUpdate
  <2>1. Legacy!TypeOK'
    BY <1>0, <1>12 DEF Legacy!CheckUpdate, Legacy!Unlinked, Legacy!folders, Legacy!slots, Legacy!Go,
         Legacy!Give_up, Legacy!TypeOK, Legacy!Steps, Legacy!LegacyAssumption
  <2>2. Legacy!TriedOnce'
    BY <1>0, <1>12 DEF Legacy!CheckUpdate, Legacy!Unlinked, Legacy!folders, Legacy!slots, Legacy!Go,
         Legacy!Give_up, Legacy!TriedOnce
  <2>3. Legacy!BootsSound'
    BY <1>0, <1>12 DEF Legacy!CheckUpdate, Legacy!Unlinked, Legacy!folders, Legacy!slots, Legacy!Go,
         Legacy!Give_up, Legacy!BootsSound, Legacy!TypeOK
  <2>4. Legacy!InterfaceKept'
    BY <1>0, <1>12 DEF Legacy!CheckUpdate, Legacy!Unlinked, Legacy!folders, Legacy!slots, Legacy!Go,
         Legacy!Give_up, Legacy!InterfaceKept, Legacy!InterfaceSound, Legacy!CopySound,
         Legacy!TypeOK
  <2>5. Legacy!CopySound'
    BY <1>0, <1>12 DEF Legacy!CheckUpdate, Legacy!Unlinked, Legacy!folders, Legacy!slots, Legacy!Go,
         Legacy!Give_up, Legacy!CopySound, Legacy!TypeOK, Legacy!LegacyAssumption
  <2>6. Legacy!ExtractionSound'
    BY <1>0, <1>12 DEF Legacy!CheckUpdate, Legacy!Unlinked, Legacy!folders, Legacy!slots, Legacy!Go,
         Legacy!Give_up, Legacy!ExtractionSound, Legacy!LegacyAssumption, Legacy!TypeOK,
         Legacy!CopySound
  <2>7. Legacy!InterfaceSound'
    BY <1>0, <1>12 DEF Legacy!CheckUpdate, Legacy!Unlinked, Legacy!folders, Legacy!slots, Legacy!Go,
         Legacy!Give_up, Legacy!InterfaceSound, Legacy!ExtractionSound, Legacy!LegacyAssumption,
         Legacy!TypeOK
  <2>8. QED
    BY <2>1, <2>2, <2>3, <2>4, <2>5, <2>6, <2>7 DEF Legacy!Inductive
<1>13. CASE Legacy!PerformStartupUpdate
  <2>1. Legacy!TypeOK'
    BY <1>0, <1>13 DEF Legacy!PerformStartupUpdate, Legacy!card, Legacy!slots, Legacy!Archive,
         Legacy!Go, Legacy!TypeOK, Legacy!Steps, Legacy!LegacyAssumption
  <2>2. Legacy!TriedOnce'
    BY <1>0, <1>13 DEF Legacy!PerformStartupUpdate, Legacy!card, Legacy!slots, Legacy!Archive,
         Legacy!Go, Legacy!TriedOnce
  <2>3. Legacy!BootsSound'
    BY <1>0, <1>13 DEF Legacy!PerformStartupUpdate, Legacy!card, Legacy!slots, Legacy!Archive,
         Legacy!Go, Legacy!BootsSound, Legacy!TypeOK
  <2>4. Legacy!InterfaceKept'
    BY <1>0, <1>13 DEF Legacy!PerformStartupUpdate, Legacy!card, Legacy!slots, Legacy!Archive,
         Legacy!Go, Legacy!InterfaceKept, Legacy!InterfaceSound, Legacy!CopySound, Legacy!TypeOK
  <2>5. Legacy!CopySound'
    BY <1>0, <1>13 DEF Legacy!PerformStartupUpdate, Legacy!card, Legacy!slots, Legacy!Archive,
         Legacy!Go, Legacy!CopySound, Legacy!TypeOK, Legacy!LegacyAssumption
  <2>6. Legacy!ExtractionSound'
    BY <1>0, <1>13 DEF Legacy!PerformStartupUpdate, Legacy!card, Legacy!slots, Legacy!Archive,
         Legacy!Go, Legacy!ExtractionSound, Legacy!LegacyAssumption, Legacy!TypeOK,
         Legacy!CopySound
  <2>7. Legacy!InterfaceSound'
    BY <1>0, <1>13 DEF Legacy!PerformStartupUpdate, Legacy!card, Legacy!slots, Legacy!Archive,
         Legacy!Go, Legacy!InterfaceSound, Legacy!ExtractionSound, Legacy!LegacyAssumption,
         Legacy!TypeOK
  <2>8. QED
    BY <2>1, <2>2, <2>3, <2>4, <2>5, <2>6, <2>7 DEF Legacy!Inductive
<1>14. CASE Legacy!StepFails
  <2>1. Legacy!TypeOK'
    BY <1>0, <1>14 DEF Legacy!StepFails, Legacy!card, Legacy!slots, Legacy!Give_up, Legacy!Go,
         Legacy!TypeOK, Legacy!Steps, Legacy!LegacyAssumption
  <2>2. Legacy!TriedOnce'
    BY <1>0, <1>14 DEF Legacy!StepFails, Legacy!card, Legacy!slots, Legacy!Give_up, Legacy!Go,
         Legacy!TriedOnce
  <2>3. Legacy!BootsSound'
    BY <1>0, <1>14 DEF Legacy!StepFails, Legacy!card, Legacy!slots, Legacy!Give_up, Legacy!Go,
         Legacy!BootsSound, Legacy!TypeOK
  <2>4. Legacy!InterfaceKept'
    BY <1>0, <1>14 DEF Legacy!StepFails, Legacy!card, Legacy!slots, Legacy!Give_up, Legacy!Go,
         Legacy!InterfaceKept, Legacy!InterfaceSound, Legacy!CopySound, Legacy!TypeOK
  <2>5. Legacy!CopySound'
    BY <1>0, <1>14 DEF Legacy!StepFails, Legacy!card, Legacy!slots, Legacy!Give_up, Legacy!Go,
         Legacy!CopySound, Legacy!TypeOK, Legacy!LegacyAssumption
  <2>6. Legacy!ExtractionSound'
    BY <1>0, <1>14 DEF Legacy!StepFails, Legacy!card, Legacy!slots, Legacy!Give_up, Legacy!Go,
         Legacy!ExtractionSound, Legacy!LegacyAssumption, Legacy!TypeOK, Legacy!CopySound
  <2>7. Legacy!InterfaceSound'
    BY <1>0, <1>14 DEF Legacy!StepFails, Legacy!card, Legacy!slots, Legacy!Give_up, Legacy!Go,
         Legacy!InterfaceSound, Legacy!ExtractionSound, Legacy!LegacyAssumption, Legacy!TypeOK
  <2>8. QED
    BY <2>1, <2>2, <2>3, <2>4, <2>5, <2>6, <2>7 DEF Legacy!Inductive
<1>15. CASE Legacy!ClearTmp
  <2>1. Legacy!TypeOK'
    BY <1>0, <1>15 DEF Legacy!ClearTmp, Legacy!slots, Legacy!Go, Legacy!Removed, Legacy!TypeOK,
         Legacy!Steps, Legacy!LegacyAssumption
  <2>2. Legacy!TriedOnce'
    BY <1>0, <1>15 DEF Legacy!ClearTmp, Legacy!slots, Legacy!Go, Legacy!Removed, Legacy!TriedOnce
  <2>3. Legacy!BootsSound'
    BY <1>0, <1>15 DEF Legacy!ClearTmp, Legacy!slots, Legacy!Go, Legacy!Removed,
         Legacy!BootsSound, Legacy!TypeOK
  <2>4. Legacy!InterfaceKept'
    BY <1>0, <1>15 DEF Legacy!ClearTmp, Legacy!slots, Legacy!Go, Legacy!Removed,
         Legacy!InterfaceKept, Legacy!InterfaceSound, Legacy!CopySound, Legacy!TypeOK
  <2>5. Legacy!CopySound'
    BY <1>0, <1>15 DEF Legacy!ClearTmp, Legacy!slots, Legacy!Go, Legacy!Removed, Legacy!CopySound,
         Legacy!TypeOK, Legacy!LegacyAssumption
  <2>6. Legacy!ExtractionSound'
    BY <1>0, <1>15 DEF Legacy!ClearTmp, Legacy!slots, Legacy!Go, Legacy!Removed,
         Legacy!ExtractionSound, Legacy!LegacyAssumption, Legacy!TypeOK, Legacy!CopySound
  <2>7. Legacy!InterfaceSound'
    BY <1>0, <1>15 DEF Legacy!ClearTmp, Legacy!slots, Legacy!Go, Legacy!Removed,
         Legacy!InterfaceSound, Legacy!ExtractionSound, Legacy!LegacyAssumption, Legacy!TypeOK
  <2>8. QED
    BY <2>1, <2>2, <2>3, <2>4, <2>5, <2>6, <2>7 DEF Legacy!Inductive
<1>16. CASE Legacy!ClearOld
  <2>1. Legacy!TypeOK'
    BY <1>0, <1>16 DEF Legacy!ClearOld, Legacy!slots, Legacy!Go, Legacy!Removed, Legacy!TypeOK,
         Legacy!Steps, Legacy!LegacyAssumption
  <2>2. Legacy!TriedOnce'
    BY <1>0, <1>16 DEF Legacy!ClearOld, Legacy!slots, Legacy!Go, Legacy!Removed, Legacy!TriedOnce
  <2>3. Legacy!BootsSound'
    BY <1>0, <1>16 DEF Legacy!ClearOld, Legacy!slots, Legacy!Go, Legacy!Removed,
         Legacy!BootsSound, Legacy!TypeOK
  <2>4. Legacy!InterfaceKept'
    BY <1>0, <1>16 DEF Legacy!ClearOld, Legacy!slots, Legacy!Go, Legacy!Removed,
         Legacy!InterfaceKept, Legacy!InterfaceSound, Legacy!CopySound, Legacy!TypeOK
  <2>5. Legacy!CopySound'
    BY <1>0, <1>16 DEF Legacy!ClearOld, Legacy!slots, Legacy!Go, Legacy!Removed, Legacy!CopySound,
         Legacy!TypeOK, Legacy!LegacyAssumption
  <2>6. Legacy!ExtractionSound'
    BY <1>0, <1>16 DEF Legacy!ClearOld, Legacy!slots, Legacy!Go, Legacy!Removed,
         Legacy!ExtractionSound, Legacy!LegacyAssumption, Legacy!TypeOK, Legacy!CopySound
  <2>7. Legacy!InterfaceSound'
    BY <1>0, <1>16 DEF Legacy!ClearOld, Legacy!slots, Legacy!Go, Legacy!Removed,
         Legacy!InterfaceSound, Legacy!ExtractionSound, Legacy!LegacyAssumption, Legacy!TypeOK
  <2>8. QED
    BY <2>1, <2>2, <2>3, <2>4, <2>5, <2>6, <2>7 DEF Legacy!Inductive
<1>17. ASSUME NEW part, Legacy!Extract(part) PROVE Legacy!Inductive'
  <2>a. package \in Packages
    BY <1>0, <1>17 DEF Legacy!Extract, Legacy!TypeOK, Legacy!ExtractionSound
  <2>b. image' \in {"sound", "damaged", None}
    BY <1>0, <2>a, <1>17 DEF Legacy!Extract, Legacy!TypeOK, Legacy!LegacyAssumption
  <2>c. UNCHANGED <<package, marker, html, aside, network, flash, boot, running, at, copying, asked,
                    unkept>>
        /\ tmp' \in {tmp, "new", "partial"}
    BY <1>17 DEF Legacy!Extract, Legacy!slots
  <2>1. Legacy!TypeOK'
    BY <1>0, <2>b, <2>c DEF Legacy!TypeOK
  <2>2. Legacy!TriedOnce'
    BY <1>0, <1>17 DEF Legacy!Extract, Legacy!slots, Legacy!TriedOnce
  <2>3. Legacy!BootsSound'
    BY <1>0, <1>17 DEF Legacy!Extract, Legacy!slots, Legacy!BootsSound, Legacy!TypeOK
  <2>4. Legacy!InterfaceKept'
    BY <1>0, <1>17 DEF Legacy!Extract, Legacy!slots, Legacy!InterfaceKept, Legacy!InterfaceSound,
         Legacy!CopySound, Legacy!TypeOK
  <2>5. Legacy!CopySound'
    BY <1>0, <1>17 DEF Legacy!Extract, Legacy!slots, Legacy!CopySound, Legacy!TypeOK,
         Legacy!LegacyAssumption
  <2>6. Legacy!ExtractionSound'
    BY <1>0, <1>17 DEF Legacy!Extract, Legacy!slots, Legacy!ExtractionSound,
         Legacy!LegacyAssumption, Legacy!TypeOK, Legacy!CopySound
  <2>7. Legacy!InterfaceSound'
    BY <1>0, <1>17 DEF Legacy!Extract, Legacy!slots, Legacy!InterfaceSound,
         Legacy!ExtractionSound, Legacy!LegacyAssumption, Legacy!TypeOK
  <2>8. QED
    BY <2>1, <2>2, <2>3, <2>4, <2>5, <2>6, <2>7 DEF Legacy!Inductive
<1>18. CASE Legacy!Extracted
  <2>1. Legacy!TypeOK'
    BY <1>0, <1>18 DEF Legacy!Extracted, Legacy!card, Legacy!slots, Legacy!Go, Legacy!Give_up,
         Legacy!TypeOK, Legacy!Steps, Legacy!LegacyAssumption
  <2>2. Legacy!TriedOnce'
    BY <1>0, <1>18 DEF Legacy!Extracted, Legacy!card, Legacy!slots, Legacy!Go, Legacy!Give_up,
         Legacy!TriedOnce
  <2>3. Legacy!BootsSound'
    BY <1>0, <1>18 DEF Legacy!Extracted, Legacy!card, Legacy!slots, Legacy!Go, Legacy!Give_up,
         Legacy!BootsSound, Legacy!TypeOK
  <2>4. Legacy!InterfaceKept'
    BY <1>0, <1>18 DEF Legacy!Extracted, Legacy!card, Legacy!slots, Legacy!Go, Legacy!Give_up,
         Legacy!InterfaceKept, Legacy!InterfaceSound, Legacy!CopySound, Legacy!TypeOK
  <2>5. Legacy!CopySound'
    BY <1>0, <1>18 DEF Legacy!Extracted, Legacy!card, Legacy!slots, Legacy!Go, Legacy!Give_up,
         Legacy!CopySound, Legacy!TypeOK, Legacy!LegacyAssumption
  <2>6. Legacy!ExtractionSound'
    BY <1>0, <1>18 DEF Legacy!Extracted, Legacy!card, Legacy!slots, Legacy!Go, Legacy!Give_up,
         Legacy!ExtractionSound, Legacy!LegacyAssumption, Legacy!TypeOK, Legacy!CopySound
  <2>7. Legacy!InterfaceSound'
    BY <1>0, <1>18 DEF Legacy!Extracted, Legacy!card, Legacy!slots, Legacy!Go, Legacy!Give_up,
         Legacy!InterfaceSound, Legacy!ExtractionSound, Legacy!LegacyAssumption, Legacy!TypeOK
  <2>8. QED
    BY <2>1, <2>2, <2>3, <2>4, <2>5, <2>6, <2>7 DEF Legacy!Inductive
<1>19. CASE Legacy!SetAside
  <2>1. Legacy!TypeOK'
    BY <1>0, <1>19 DEF Legacy!SetAside, Legacy!slots, Legacy!Go, Legacy!TypeOK, Legacy!Steps,
         Legacy!LegacyAssumption
  <2>2. Legacy!TriedOnce'
    BY <1>0, <1>19 DEF Legacy!SetAside, Legacy!slots, Legacy!Go, Legacy!TriedOnce
  <2>3. Legacy!BootsSound'
    BY <1>0, <1>19 DEF Legacy!SetAside, Legacy!slots, Legacy!Go, Legacy!BootsSound, Legacy!TypeOK
  <2>4. Legacy!InterfaceKept'
    BY <1>0, <1>19 DEF Legacy!SetAside, Legacy!slots, Legacy!Go, Legacy!InterfaceKept,
         Legacy!InterfaceSound, Legacy!CopySound, Legacy!TypeOK
  <2>5. Legacy!CopySound'
    BY <1>0, <1>19 DEF Legacy!SetAside, Legacy!slots, Legacy!Go, Legacy!CopySound, Legacy!TypeOK,
         Legacy!LegacyAssumption
  <2>6. Legacy!ExtractionSound'
    BY <1>0, <1>19 DEF Legacy!SetAside, Legacy!slots, Legacy!Go, Legacy!ExtractionSound,
         Legacy!LegacyAssumption, Legacy!TypeOK, Legacy!CopySound
  <2>7. Legacy!InterfaceSound'
    BY <1>0, <1>19 DEF Legacy!SetAside, Legacy!slots, Legacy!Go, Legacy!InterfaceSound,
         Legacy!ExtractionSound, Legacy!LegacyAssumption, Legacy!TypeOK
  <2>8. QED
    BY <2>1, <2>2, <2>3, <2>4, <2>5, <2>6, <2>7 DEF Legacy!Inductive
<1>20. CASE Legacy!Place
  <2>a. \/ tmp # None /\ html = None /\ html' = tmp
        \/ html' = html /\ html = None
        \/ html' = html /\ html # None
    BY <1>20 DEF Legacy!Place
  <2>b. ~unkept' => html' # None /\ ~unkept /\ package.parts # {"firmware"}
    BY <1>20 DEF Legacy!Place
  <2>c. tmp = "new" \/ package.parts = {"firmware"}
    BY <1>0, <1>20 DEF Legacy!Place, Legacy!ExtractionSound
  <2>d. ~unkept' => html' \in {"old", "new"}
    BY <1>0, <2>a, <2>b, <2>c DEF Legacy!InterfaceSound
  <2>1. Legacy!TypeOK'
    BY <1>0, <1>20 DEF Legacy!Place, Legacy!slots, Legacy!Go, Legacy!TypeOK, Legacy!Steps,
         Legacy!LegacyAssumption
  <2>2. Legacy!TriedOnce'
    BY <1>0, <1>20 DEF Legacy!Place, Legacy!slots, Legacy!Go, Legacy!TriedOnce
  <2>3. Legacy!BootsSound'
    BY <1>0, <1>20 DEF Legacy!Place, Legacy!slots, Legacy!Go, Legacy!BootsSound, Legacy!TypeOK
  <2>4. Legacy!InterfaceKept'
    BY <1>0, <1>20, <2>d DEF Legacy!Place, Legacy!InterfaceKept
  <2>5. Legacy!CopySound'
    BY <1>0, <1>20 DEF Legacy!Place, Legacy!slots, Legacy!Go, Legacy!CopySound, Legacy!TypeOK,
         Legacy!LegacyAssumption
  <2>6. Legacy!ExtractionSound'
    BY <1>0, <1>20 DEF Legacy!Place, Legacy!slots, Legacy!Go, Legacy!ExtractionSound,
         Legacy!LegacyAssumption, Legacy!TypeOK, Legacy!CopySound
  <2>7. Legacy!InterfaceSound'
    BY <1>0, <1>20 DEF Legacy!Place, Legacy!slots, Legacy!Go, Legacy!InterfaceSound,
         Legacy!ExtractionSound, Legacy!LegacyAssumption, Legacy!TypeOK
  <2>8. QED
    BY <2>1, <2>2, <2>3, <2>4, <2>5, <2>6, <2>7 DEF Legacy!Inductive
<1>21. CASE Legacy!DropOld
  <2>1. Legacy!TypeOK'
    BY <1>0, <1>21 DEF Legacy!DropOld, Legacy!slots, Legacy!Go, Legacy!Removed, Legacy!TypeOK,
         Legacy!Steps, Legacy!LegacyAssumption
  <2>2. Legacy!TriedOnce'
    BY <1>0, <1>21 DEF Legacy!DropOld, Legacy!slots, Legacy!Go, Legacy!Removed, Legacy!TriedOnce
  <2>3. Legacy!BootsSound'
    BY <1>0, <1>21 DEF Legacy!DropOld, Legacy!slots, Legacy!Go, Legacy!Removed, Legacy!BootsSound,
         Legacy!TypeOK
  <2>4. Legacy!InterfaceKept'
    BY <1>0, <1>21 DEF Legacy!DropOld, Legacy!slots, Legacy!Go, Legacy!Removed,
         Legacy!InterfaceKept, Legacy!InterfaceSound, Legacy!CopySound, Legacy!TypeOK
  <2>5. Legacy!CopySound'
    BY <1>0, <1>21 DEF Legacy!DropOld, Legacy!slots, Legacy!Go, Legacy!Removed, Legacy!CopySound,
         Legacy!TypeOK, Legacy!LegacyAssumption
  <2>6. Legacy!ExtractionSound'
    BY <1>0, <1>21 DEF Legacy!DropOld, Legacy!slots, Legacy!Go, Legacy!Removed,
         Legacy!ExtractionSound, Legacy!LegacyAssumption, Legacy!TypeOK, Legacy!CopySound
  <2>7. Legacy!InterfaceSound'
    BY <1>0, <1>21 DEF Legacy!DropOld, Legacy!slots, Legacy!Go, Legacy!Removed,
         Legacy!InterfaceSound, Legacy!ExtractionSound, Legacy!LegacyAssumption, Legacy!TypeOK
  <2>8. QED
    BY <2>1, <2>2, <2>3, <2>4, <2>5, <2>6, <2>7 DEF Legacy!Inductive
<1>22. CASE Legacy!Write
  <2>a. Legacy!Target \in Legacy!Slots /\ Legacy!Target # running /\ running \in Legacy!Slots /\ boot \in Legacy!Slots
    BY <1>0 DEF Legacy!TypeOK, Legacy!Target, Legacy!Slots
  <2>b. flash' = [flash EXCEPT ![Legacy!Target] = FALSE] /\ boot = running /\ UNCHANGED <<boot, running>>
    BY <1>22 DEF Legacy!Write, Legacy!slots
  <2>1. Legacy!TypeOK'
    BY <1>0, <1>22 DEF Legacy!Write, Legacy!card, Legacy!Go, Legacy!Firmware, Legacy!Archive,
         Legacy!TypeOK, Legacy!Steps, Legacy!LegacyAssumption
  <2>2. Legacy!TriedOnce'
    BY <1>0, <1>22 DEF Legacy!Write, Legacy!card, Legacy!Go, Legacy!Firmware, Legacy!Archive,
         Legacy!TriedOnce
  <2>3. Legacy!BootsSound'
    BY <1>0, <2>a, <2>b DEF Legacy!BootsSound, Legacy!TypeOK
  <2>4. Legacy!InterfaceKept'
    BY <1>0, <1>22 DEF Legacy!Write, Legacy!card, Legacy!Go, Legacy!Firmware, Legacy!Archive,
         Legacy!InterfaceKept, Legacy!InterfaceSound, Legacy!CopySound, Legacy!TypeOK
  <2>5. Legacy!CopySound'
    BY <1>0, <1>22 DEF Legacy!Write, Legacy!card, Legacy!Go, Legacy!Firmware, Legacy!Archive,
         Legacy!CopySound, Legacy!TypeOK, Legacy!LegacyAssumption
  <2>6. Legacy!ExtractionSound'
    BY <1>0, <1>22 DEF Legacy!Write, Legacy!card, Legacy!Go, Legacy!Firmware, Legacy!Archive,
         Legacy!ExtractionSound, Legacy!LegacyAssumption, Legacy!TypeOK, Legacy!CopySound
  <2>7. Legacy!InterfaceSound'
    BY <1>0, <1>22 DEF Legacy!Write, Legacy!card, Legacy!Go, Legacy!Firmware, Legacy!Archive,
         Legacy!InterfaceSound, Legacy!ExtractionSound, Legacy!LegacyAssumption, Legacy!TypeOK
  <2>8. QED
    BY <2>1, <2>2, <2>3, <2>4, <2>5, <2>6, <2>7 DEF Legacy!Inductive
<1>23. CASE Legacy!Select
  <2>a. Legacy!Target \in Legacy!Slots /\ Legacy!Target # running /\ running \in Legacy!Slots /\ boot \in Legacy!Slots
    BY <1>0 DEF Legacy!TypeOK, Legacy!Target, Legacy!Slots
  <2>b. /\ flash' = [flash EXCEPT ![Legacy!Target] = TRUE] /\ boot' \in {Legacy!Target, boot}
        /\ running' \in {Legacy!Target, running} /\ at' \in {"check", "app"}
    BY <1>23 DEF Legacy!Select, Legacy!Go, Legacy!Give_up
  <2>c. UNCHANGED <<package, marker, html, tmp, aside, image, network, copying, asked, unkept>>
    BY <1>23 DEF Legacy!Select, Legacy!card
  <2>1. Legacy!TypeOK'
    BY <1>0, <2>a, <2>b, <2>c DEF Legacy!TypeOK, Legacy!Steps
  <2>2. Legacy!TriedOnce'
    BY <1>0, <1>23 DEF Legacy!Select, Legacy!card, Legacy!Go, Legacy!Give_up, Legacy!Firmware,
         Legacy!Archive, Legacy!TriedOnce
  <2>3. Legacy!BootsSound'
    BY <1>0, <2>a, <2>b DEF Legacy!BootsSound, Legacy!TypeOK
  <2>4. Legacy!InterfaceKept'
    BY <1>0, <1>23 DEF Legacy!Select, Legacy!card, Legacy!Go, Legacy!Give_up, Legacy!Firmware,
         Legacy!Archive, Legacy!InterfaceKept, Legacy!InterfaceSound, Legacy!CopySound,
         Legacy!TypeOK
  <2>5. Legacy!CopySound'
    BY <1>0, <1>23 DEF Legacy!Select, Legacy!card, Legacy!Go, Legacy!Give_up, Legacy!Firmware,
         Legacy!Archive, Legacy!CopySound, Legacy!TypeOK, Legacy!LegacyAssumption
  <2>6. Legacy!ExtractionSound'
    BY <1>0, <1>23 DEF Legacy!Select, Legacy!card, Legacy!Go, Legacy!Give_up, Legacy!Firmware,
         Legacy!Archive, Legacy!ExtractionSound, Legacy!LegacyAssumption, Legacy!TypeOK,
         Legacy!CopySound
  <2>7. Legacy!InterfaceSound'
    BY <1>0, <1>23 DEF Legacy!Select, Legacy!card, Legacy!Go, Legacy!Give_up, Legacy!Firmware,
         Legacy!Archive, Legacy!InterfaceSound, Legacy!ExtractionSound, Legacy!LegacyAssumption,
         Legacy!TypeOK
  <2>8. QED
    BY <2>1, <2>2, <2>3, <2>4, <2>5, <2>6, <2>7 DEF Legacy!Inductive
<1>24. CASE Legacy!PowerLoss
  <2>1. Legacy!TypeOK'
    BY <1>0, <1>24 DEF Legacy!PowerLoss, Legacy!card, Legacy!Go, Legacy!TypeOK, Legacy!Steps,
         Legacy!LegacyAssumption
  <2>2. Legacy!TriedOnce'
    BY <1>0, <1>24 DEF Legacy!PowerLoss, Legacy!card, Legacy!Go, Legacy!TriedOnce
  <2>3. Legacy!BootsSound'
    BY <1>0, <1>24 DEF Legacy!PowerLoss, Legacy!card, Legacy!Go, Legacy!BootsSound, Legacy!TypeOK
  <2>4. Legacy!InterfaceKept'
    BY <1>0, <1>24 DEF Legacy!PowerLoss, Legacy!card, Legacy!Go, Legacy!InterfaceKept,
         Legacy!InterfaceSound, Legacy!CopySound, Legacy!TypeOK
  <2>5. Legacy!CopySound'
    BY <1>0, <1>24 DEF Legacy!PowerLoss, Legacy!card, Legacy!Go, Legacy!CopySound, Legacy!TypeOK,
         Legacy!LegacyAssumption
  <2>6. Legacy!ExtractionSound'
    BY <1>0, <1>24 DEF Legacy!PowerLoss, Legacy!card, Legacy!Go, Legacy!ExtractionSound,
         Legacy!LegacyAssumption, Legacy!TypeOK, Legacy!CopySound
  <2>7. Legacy!InterfaceSound'
    BY <1>0, <1>24 DEF Legacy!PowerLoss, Legacy!card, Legacy!Go, Legacy!InterfaceSound,
         Legacy!ExtractionSound, Legacy!LegacyAssumption, Legacy!TypeOK
  <2>8. QED
    BY <2>1, <2>2, <2>3, <2>4, <2>5, <2>6, <2>7 DEF Legacy!Inductive
<1>25. QED
  BY <1>1, <1>2, <1>3, <1>4, <1>5, <1>6, <1>7, <1>8, <1>9, <1>10, <1>11, <1>12, <1>13, <1>14,
       <1>15, <1>16, <1>17, <1>18, <1>19, <1>20, <1>21, <1>22, <1>23, <1>24 DEF Legacy!Next,
       Legacy!StartStep, Legacy!Served

\* So does every step, or none.
LEMMA LegacyStepInductive ==
  Legacy!LegacyAssumption /\ Legacy!Inductive /\ [Legacy!Next]_Legacy!vars => Legacy!Inductive'
<1> SUFFICES ASSUME Legacy!LegacyAssumption, Legacy!Inductive, [Legacy!Next]_Legacy!vars PROVE Legacy!Inductive'
  OBVIOUS
<1>1. CASE UNCHANGED Legacy!vars
  <2>0. /\ Legacy!TypeOK /\ Legacy!TriedOnce /\ Legacy!BootsSound /\ Legacy!InterfaceKept /\ Legacy!CopySound
        /\ Legacy!ExtractionSound /\ Legacy!InterfaceSound
    BY DEF Legacy!Inductive
  <2>1. Legacy!TypeOK'
    BY <1>1, <2>0 DEF Legacy!vars, Legacy!card, Legacy!slots, Legacy!TypeOK
  <2>2. Legacy!TriedOnce'
    BY <1>1, <2>0 DEF Legacy!vars, Legacy!card, Legacy!slots, Legacy!TriedOnce
  <2>3. Legacy!BootsSound'
    BY <1>1, <2>0 DEF Legacy!vars, Legacy!card, Legacy!slots, Legacy!BootsSound
  <2>4. Legacy!InterfaceKept'
    BY <1>1, <2>0 DEF Legacy!vars, Legacy!card, Legacy!slots, Legacy!InterfaceKept
  <2>5. Legacy!CopySound'
    BY <1>1, <2>0 DEF Legacy!vars, Legacy!card, Legacy!slots, Legacy!CopySound
  <2>6. Legacy!ExtractionSound'
    BY <1>1, <2>0 DEF Legacy!vars, Legacy!card, Legacy!slots, Legacy!ExtractionSound
  <2>7. Legacy!InterfaceSound'
    BY <1>1, <2>0 DEF Legacy!vars, Legacy!card, Legacy!slots, Legacy!InterfaceSound
  <2>8. QED
    BY <2>1, <2>2, <2>3, <2>4, <2>5, <2>6, <2>7 DEF Legacy!Inductive
<1>2. QED
  BY <1>1, LegacyStepKeeps

-----------------------------------------------------------------------------
(* The dials: what they show is of this round's picture                    *)

\* A device that has never aligned a picture shows nothing.
LEMMA RecognitionInitInductive == Reading!RecognitionAssumption /\ Reading!Init => Reading!Inductive
<1> SUFFICES ASSUME Reading!RecognitionAssumption, Reading!Init PROVE Reading!Inductive
  OBVIOUS
<1>1. Reading!ReaderTypes
  BY DEF Reading!Init, Reading!ReaderTypes, Reading!Valid, Reading!TypeOf
<1>2. Reading!MarkTypes
  BY DEF Reading!Init, Reading!MarkTypes, Reading!Marks, Reading!NoMarks, Reading!MaybeUnset
<1>3. Reading!DialTypes
  BY DEF Reading!RecognitionAssumption, Reading!Init, Reading!DialTypes, Reading!NoPieces,
       Reading!NoResults, Reading!Seen
<1>4. Reading!RecognitionTrue
  BY DEF Reading!RecognitionAssumption, Reading!Init, Reading!RecognitionTrue, Reading!Rested,
       Reading!ReadFromOwnPicture, Reading!CutWhereMarked, Reading!AllDialsOrNone,
       Reading!RemembersOwnMark, Reading!NoResults, Reading!NoMarks, Reading!Marks,
       Reading!MaybeUnset
<1>5. Reading!StageSound /\ Reading!PiecesSound /\ Reading!MarksFound /\ Reading!FileSound
  BY DEF Reading!RecognitionAssumption, Reading!Init, Reading!StageSound, Reading!PiecesSound,
       Reading!MarksFound, Reading!FileSound, Reading!Valid
<1>6. QED
  BY <1>1, <1>2, <1>3, <1>4, <1>5 DEF Reading!Inductive, Reading!TypeOK

\* Where a mark may have been found is within a search field.
LEMMA WithinWindows ==
  ASSUME Reading!RecognitionAssumption
  PROVE  /\ Reading!Marks = 1..2
         /\ \A m \in Reading!Marks :
              Reading!MaybeUnset(Window[m]) \subseteq Reading!MaybeUnset(Window[1] \cup Window[2])
BY DEF Reading!Marks, Reading!MaybeUnset

\* What is read back from align.txt, whatever there is of it, is a place for each mark.
LEMMA RememberedMarks ==
  ASSUME NEW text, text = Unset \/ Reading!Remembers(text),
         NEW default \in [Reading!Marks -> Reading!MaybeUnset(Window[1] \cup Window[2])]
  PROVE  Reading!Remembered(text, default) \in [Reading!Marks -> Reading!MaybeUnset(Window[1] \cup Window[2])]
<1> DEFINE S == Reading!MaybeUnset(Window[1] \cup Window[2])
<1>1. default \in [1..2 -> S] /\ Reading!Marks = 1..2
  BY DEF Reading!Marks
<1>2. text \in {Unset, << >>} \/ \E one \in S : \/ text = <<one>>
                                                \/ \E two \in S \cup {Part} : text = <<one, two>>
  BY DEF Reading!Remembers
<1> HIDE DEF S
<1>3. \A one \in S, two \in S : <<one, two>> \in [1..2 -> S]
  OBVIOUS
<1>4. ASSUME text \in {Unset, << >>}
      PROVE  Reading!Remembered(text, default) \in [1..2 -> S]
  BY <1>1, <1>4 DEF Reading!Remembered, S
<1>5. ASSUME NEW one \in S, text = <<one>>, text \notin {Unset, << >>}
      PROVE  Reading!Remembered(text, default) \in [1..2 -> S]
  <2>1. Reading!Remembered(text, default) = <<one, one>>
    BY <1>5 DEF Reading!Remembered
  <2>2. QED
    BY <1>3, <2>1
<1>6. ASSUME NEW one \in S, NEW two \in S \cup {Part}, text = <<one, two>>, text \notin {Unset, << >>}
      PROVE  Reading!Remembered(text, default) \in [1..2 -> S]
  <2>1. Reading!Remembered(text, default) = <<one, IF two = Part THEN default[2] ELSE two>>
    BY <1>6 DEF Reading!Remembered
  <2>2. (IF two = Part THEN default[2] ELSE two) \in S
    BY <1>1, <1>6
  <2>3. QED
    BY <1>3, <2>1, <2>2
<1>7. Reading!Remembered(text, default) \in [1..2 -> S]
  <2>1. CASE text \notin {Unset, << >>}
    <3>1. PICK one \in S : text = <<one>> \/ \E two \in S \cup {Part} : text = <<one, two>>
      BY <1>2, <2>1
    <3>2. CASE text = <<one>>
      BY <1>5, <2>1, <3>2
    <3>3. CASE \E two \in S \cup {Part} : text = <<one, two>>
      BY <1>6, <2>1, <3>3
    <3>4. QED
      BY <3>1, <3>2, <3>3
  <2>2. QED
    BY <1>4, <2>1
<1>8. QED
  BY <1>1, <1>7 DEF S

\* A whole align.txt is read back as it was written, whatever memory has.
LEMMA WholeFile ==
  ASSUME Reading!RecognitionAssumption,
         NEW text \in [Reading!Marks -> Reading!MaybeUnset(Window[1] \cup Window[2])], text # Unset
  PROVE  /\ Reading!Readable(text)
         /\ \A default : Reading!Remembered(text, default) = text
<1> DEFINE S == Reading!MaybeUnset(Window[1] \cup Window[2])
<1>1. text \in [1..2 -> S]
  BY DEF Reading!Marks
<1>2. Part \notin S
  <2>1. 1 \in Reading!Marks /\ 2 \in Reading!Marks
    BY DEF Reading!Marks
  <2>2. /\ Window[1] \subseteq Places[1] /\ Window[2] \subseteq Places[2]
        /\ Part \notin Places[1] /\ Part \notin Places[2] /\ Part # Unset
    BY <2>1 DEF Reading!RecognitionAssumption
  <2>3. QED
    BY <2>2 DEF Reading!MaybeUnset
<1> HIDE DEF S
<1>3. Len(text) = 2 /\ text # << >> /\ text[2] # Part /\ text = <<text[1], text[2]>>
  BY <1>1, <1>2
<1>4. QED
  BY <1>3 DEF Reading!Readable, Reading!Remembered

\* What can be read again without an error is read the same whatever memory has.
LEMMA ReadableRemembered ==
  ASSUME NEW text, NEW default, Reading!Remembers(text), Reading!Readable(text)
  PROVE  Reading!Remembered(text, default) = Reading!Remembered(text, Reading!NoMarks)
<1> DEFINE S == Reading!MaybeUnset(Window[1] \cup Window[2])
<1>1. \E one \in S : \/ text = <<one>>
                       \/ \E two \in S \cup {Part} : text = <<one, two>>
  BY DEF Reading!Remembers, Reading!Readable
<1> HIDE DEF S
<1>2. Len(text) = 1 \/ (Len(text) = 2 /\ text[2] # Part)
  BY <1>1 DEF Reading!Readable
<1>3. text \notin {Unset, << >>}
  BY DEF Reading!Readable
<1>4. QED
  BY <1>2, <1>3 DEF Reading!Remembered

\* What is written of the places, or a part of it, is an align.txt.
LEMMA WrittenRemembers ==
  ASSUME NEW places \in [Reading!Marks -> Reading!MaybeUnset(Window[1] \cup Window[2])]
  PROVE  /\ Reading!Remembers(places)
         /\ \A text \in Reading!CutShort(places) : Reading!Remembers(text)
<1> DEFINE S == Reading!MaybeUnset(Window[1] \cup Window[2])
<1>1. places \in [1..2 -> S]
  BY DEF Reading!Marks
<1>2. \A text : Reading!Remembers(text) <=>
        \/ text = << >>
        \/ \E one \in S : text = <<one>> \/ \E two \in S \cup {Part} : text = <<one, two>>
  BY DEF Reading!Remembers
<1> HIDE DEF S
<1>3. places = <<places[1], places[2]>> /\ places[1] \in S /\ places[2] \in S
  BY <1>1
<1>4. Reading!Remembers(places)
  BY <1>2, <1>3
<1>5. Reading!Remembers(<< >>) /\ Reading!Remembers(<<places[1]>>) /\ Reading!Remembers(<<places[1], Part>>)
  BY <1>2, <1>3
<1>6. QED
  BY <1>4, <1>5 DEF Reading!CutShort

\* The type the flow is set up with is one of the kinds of network or none, and a reader nobody
\* knows sets nothing up.
LEMMA TypeOfKinds ==
  ASSUME NEW model
  PROVE  Reading!TypeOf(model) \in Networks \cup {"auto", "Analogue"}
BY DEF Reading!TypeOf

\* Every step keeps what the dials show true.
LEMMA RecognitionStepKeeps ==
  ASSUME Reading!RecognitionAssumption, Reading!Inductive, Reading!Next
  PROVE  Reading!Inductive'
<1>0. /\ Reading!ReaderTypes /\ Reading!MarkTypes /\ Reading!DialTypes
      /\ Reading!ReadFromOwnPicture /\ Reading!CutWhereMarked /\ Reading!AllDialsOrNone /\ Reading!RemembersOwnMark
      /\ Reading!StageSound /\ Reading!PiecesSound /\ Reading!MarksFound /\ Reading!FileSound
  BY DEF Reading!Inductive, Reading!TypeOK, Reading!RecognitionTrue
<1>1. CASE Reading!TakePicture
  <2>1. Reading!ReaderTypes'
    BY <1>0, <1>1 DEF Reading!TakePicture, Reading!config, Reading!card, Reading!Ageing,
         Reading!ReaderTypes, Reading!Models
  <2>2. Reading!MarkTypes'
    BY <1>0, <1>1 DEF Reading!TakePicture, Reading!config, Reading!card, Reading!Ageing,
         Reading!MarkTypes
  <2>3. Reading!DialTypes'
    <3>1. /\ dial' = dial
          /\ piece' = [d \in Reading!Dials |-> [piece[d] EXCEPT !.of = Reading!Ageing(@)]]
          /\ result' = [d \in Reading!Dials |-> [result[d] EXCEPT !.of = Reading!Ageing(@)]]
      BY <1>1 DEF Reading!TakePicture
    <3>2. \A of \in Reading!Seen : Reading!Ageing(of) \in Reading!Seen
      BY DEF Reading!Ageing, Reading!Seen
    <3>3. \A d \in Reading!Dials : [piece[d] EXCEPT !.of = Reading!Ageing(@)] \in [of : Reading!Seen, moved : BOOLEAN]
      BY <1>0, <3>2 DEF Reading!DialTypes
    <3>4. \A d \in Reading!Dials : [result[d] EXCEPT !.of = Reading!Ageing(@)] \in [of : Reading!Seen, accepted : BOOLEAN]
      BY <1>0, <3>2 DEF Reading!DialTypes
    <3>5. QED
      BY <1>0, <3>1, <3>3, <3>4 DEF Reading!DialTypes
  <2>4. Reading!ReadFromOwnPicture'
    BY <1>0, <1>1 DEF Reading!TakePicture, Reading!config, Reading!card, Reading!Ageing,
         Reading!ReadFromOwnPicture, Reading!Rested, Reading!StageSound, Reading!PiecesSound
  <2>5. Reading!CutWhereMarked'
    BY <1>0, <1>1 DEF Reading!TakePicture, Reading!config, Reading!card, Reading!Ageing,
         Reading!CutWhereMarked, Reading!Rested, Reading!StageSound, Reading!PiecesSound
  <2>6. Reading!AllDialsOrNone'
    <3>1. /\ \A d \in Reading!Dials : result'[d].accepted = result[d].accepted
          /\ \A d \in Reading!Dials : \A of \in {"own", "older"} :
               result[d] = [of |-> of, accepted |-> TRUE] => result'[d] = [of |-> "older", accepted |-> TRUE]
      <4>1. \A d \in Reading!Dials : result'[d] = [result[d] EXCEPT !.of = Reading!Ageing(@)]
        BY <1>1 DEF Reading!TakePicture
      <4>2. ASSUME NEW d \in Reading!Dials
            PROVE  result'[d] = [of |-> Reading!Ageing(result[d].of), accepted |-> result[d].accepted]
        <5>1. result[d] \in [of : Reading!Seen, accepted : BOOLEAN]
          BY <1>0 DEF Reading!DialTypes
        <5>2. QED
          BY <4>1, <5>1
      <4>3. Reading!Ageing("own") = "older" /\ Reading!Ageing("older") = "older"
        BY DEF Reading!Ageing
      <4>4. ASSUME NEW d \in Reading!Dials, NEW of \in {"own", "older"}, result[d] = [of |-> of, accepted |-> TRUE]
            PROVE  result'[d] = [of |-> "older", accepted |-> TRUE]
        <5>1. result[d].of = of /\ result[d].accepted = TRUE
          BY <4>4
        <5>2. Reading!Ageing(of) = "older"
          BY <4>3
        <5>3. QED
          BY <4>2, <5>1, <5>2
      <4>5. ASSUME NEW d \in Reading!Dials PROVE result'[d].accepted = result[d].accepted
        <5>1. result[d].accepted \in BOOLEAN
          BY <1>0 DEF Reading!DialTypes
        <5>2. result'[d].accepted = [of |-> Reading!Ageing(result[d].of), accepted |-> result[d].accepted].accepted
          BY <4>2
        <5>3. QED
          BY <5>1, <5>2
      <4>6. QED
        BY <4>4, <4>5
    <3>2. setup' = setup /\ okay' = FALSE
      BY <1>1 DEF Reading!TakePicture, Reading!config
    <3>3. CASE \A d \in Reading!Dials : ~result[d].accepted
      BY <3>1, <3>2, <3>3 DEF Reading!AllDialsOrNone, Reading!Rested
    <3>4. CASE \E of \in {"own", "older"} : \A d \in Reading!Dials : result[d] = [of |-> of, accepted |-> TRUE]
      <4>1. \A d \in Reading!Dials : result'[d] = [of |-> "older", accepted |-> TRUE]
        BY <3>1, <3>4
      <4>2. QED
        BY <4>1, <3>2 DEF Reading!AllDialsOrNone, Reading!Rested
    <3>5. CASE setup.reader = "tflite"
      BY <3>2, <3>5 DEF Reading!AllDialsOrNone
    <3>6. QED
      BY <1>0, <3>3, <3>4, <3>5 DEF Reading!AllDialsOrNone
  <2>7. Reading!RemembersOwnMark'
    BY <1>0, <1>1 DEF Reading!TakePicture, Reading!config, Reading!card, Reading!Ageing,
         Reading!RemembersOwnMark, Reading!Rested, Reading!StageSound, Reading!FileSound
  <2>8. Reading!StageSound'
    BY <1>0, <1>1 DEF Reading!TakePicture, Reading!config, Reading!card, Reading!Ageing,
         Reading!StageSound
  <2>9. Reading!PiecesSound'
    <3>1. \A d \in Reading!Dials : piece'[d].of # "own"
      BY <1>0, <1>1 DEF Reading!TakePicture, Reading!Ageing, Reading!DialTypes
    <3>2. stage' = "align"
      BY <1>1 DEF Reading!TakePicture
    <3>3. QED
      BY <3>1, <3>2 DEF Reading!PiecesSound
  <2>10. Reading!MarksFound'
    BY <1>0, <1>1 DEF Reading!TakePicture, Reading!config, Reading!card, Reading!Ageing,
         Reading!MarksFound, Reading!StageSound
  <2>11. Reading!FileSound'
    BY <1>0, <1>1 DEF Reading!TakePicture, Reading!config, Reading!card, Reading!Ageing,
         Reading!FileSound, Reading!RemembersOwnMark, Reading!StageSound
  <2>12. QED
    BY <2>1, <2>2, <2>3, <2>4, <2>5, <2>6, <2>7, <2>8, <2>9, <2>10, <2>11 DEF Reading!Inductive,
         Reading!TypeOK, Reading!RecognitionTrue
<1>2. CASE Reading!NotAligned
  <2>1. Reading!ReaderTypes'
    BY <1>0, <1>2 DEF Reading!NotAligned, Reading!config, Reading!card, Reading!marks,
         Reading!dials, Reading!ReaderTypes, Reading!Models
  <2>2. Reading!MarkTypes'
    BY <1>0, <1>2 DEF Reading!NotAligned, Reading!config, Reading!card, Reading!marks,
         Reading!dials, Reading!MarkTypes
  <2>3. Reading!DialTypes'
    BY <1>0, <1>2 DEF Reading!NotAligned, Reading!config, Reading!card, Reading!marks,
         Reading!dials, Reading!DialTypes, Reading!Seen, Reading!RecognitionAssumption
  <2>4. Reading!ReadFromOwnPicture'
    BY <1>0, <1>2 DEF Reading!NotAligned, Reading!config, Reading!card, Reading!marks,
         Reading!dials, Reading!ReadFromOwnPicture, Reading!Rested, Reading!StageSound,
         Reading!PiecesSound
  <2>5. Reading!CutWhereMarked'
    BY <1>0, <1>2 DEF Reading!NotAligned, Reading!config, Reading!card, Reading!marks,
         Reading!dials, Reading!CutWhereMarked, Reading!Rested, Reading!StageSound,
         Reading!PiecesSound
  <2>6. Reading!AllDialsOrNone'
    BY <1>0, <1>2 DEF Reading!NotAligned, Reading!config, Reading!card, Reading!marks,
         Reading!dials, Reading!AllDialsOrNone, Reading!Rested, Reading!StageSound,
         Reading!PiecesSound
  <2>7. Reading!RemembersOwnMark'
    BY <1>0, <1>2 DEF Reading!NotAligned, Reading!config, Reading!card, Reading!marks,
         Reading!dials, Reading!RemembersOwnMark, Reading!Rested, Reading!StageSound,
         Reading!FileSound
  <2>8. Reading!StageSound'
    BY <1>0, <1>2 DEF Reading!NotAligned, Reading!config, Reading!card, Reading!marks,
         Reading!dials, Reading!StageSound
  <2>9. Reading!PiecesSound'
    BY <1>0, <1>2 DEF Reading!NotAligned, Reading!config, Reading!card, Reading!marks,
         Reading!dials, Reading!PiecesSound, Reading!StageSound, Reading!MarksFound
  <2>10. Reading!MarksFound'
    BY <1>0, <1>2 DEF Reading!NotAligned, Reading!config, Reading!card, Reading!marks,
         Reading!dials, Reading!MarksFound, Reading!StageSound
  <2>11. Reading!FileSound'
    BY <1>0, <1>2 DEF Reading!NotAligned, Reading!config, Reading!card, Reading!marks,
         Reading!dials, Reading!FileSound, Reading!RemembersOwnMark, Reading!StageSound
  <2>12. QED
    BY <2>1, <2>2, <2>3, <2>4, <2>5, <2>6, <2>7, <2>8, <2>9, <2>10, <2>11 DEF Reading!Inductive,
         Reading!TypeOK, Reading!RecognitionTrue
<1>3. CASE Reading!Align
  <2>1. Reading!ReaderTypes'
    BY <1>0, <1>3 DEF Reading!Align, Reading!config, Reading!card, Reading!dials,
         Reading!MayBeSimilar, Reading!Searched, Reading!Found, Reading!Fast, Reading!ReaderTypes,
         Reading!Models
  <2>2. Reading!MarkTypes'
    <3>1. PICK similar \in [Reading!Marks -> BOOLEAN], p \in [Reading!Marks -> UNION {Window[m] : m \in Reading!Marks}] :
            /\ \A m \in Reading!Marks : p[m] \in Reading!Searched(m) /\ (similar[m] => Reading!MayBeSimilar(m))
            /\ found' = [m \in Reading!Marks |-> Reading!Found(m, similar[m], p[m])]
            /\ fast' = [m \in Reading!Marks |-> Reading!Fast(m, similar[m], p[m])]
            /\ stage' = IF \A m \in Reading!Marks : similar[m] THEN "load" ELSE "save"
            /\ doubt' = doubt \cup {"template" : m \in {x \in Reading!Marks : ~template[x]}}
                              \cup {"window" : m \in {x \in Reading!Marks : place[x] \notin Window[x]}}
                              \cup {"similar" : m \in {x \in Reading!Marks : similar[x] /\ fast[x] # place[x]}}
      BY <1>3 DEF Reading!Align
    <3>2. \A m \in Reading!Marks : p[m] \in Window[m]
      BY <3>1 DEF Reading!Searched
    <3>3. /\ stage = "align" /\ UNCHANGED <<setup, place, template, saved, okay>>
      BY <1>3 DEF Reading!Align, Reading!config, Reading!card
    <3>4. \A m \in Reading!Marks : Reading!MaybeUnset(Window[m]) \subseteq Reading!MaybeUnset(Window[1] \cup Window[2])
      BY WithinWindows
    <3>5. \A m \in Reading!Marks : p[m] \in Reading!MaybeUnset(Window[1] \cup Window[2])
      BY <3>2, <3>4 DEF Reading!MaybeUnset
    <3>6. \A m \in Reading!Marks :
            /\ Reading!Found(m, similar[m], p[m]) \in Reading!MaybeUnset(Window[1] \cup Window[2])
            /\ Reading!Fast(m, similar[m], p[m]) \in Reading!MaybeUnset(Window[1] \cup Window[2])
      BY <1>0, <3>5 DEF Reading!Found, Reading!Fast, Reading!MarkTypes
    <3>7. QED
      BY <1>0, <3>1, <3>3, <3>6 DEF Reading!MarkTypes
  <2>3. Reading!DialTypes'
    BY <1>0, <1>3 DEF Reading!Align, Reading!config, Reading!card, Reading!dials,
         Reading!MayBeSimilar, Reading!Searched, Reading!Found, Reading!Fast, Reading!DialTypes,
         Reading!Seen, Reading!RecognitionAssumption
  <2>4. Reading!ReadFromOwnPicture'
    BY <1>0, <1>3 DEF Reading!Align, Reading!config, Reading!card, Reading!dials,
         Reading!MayBeSimilar, Reading!Searched, Reading!Found, Reading!Fast,
         Reading!ReadFromOwnPicture, Reading!Rested, Reading!StageSound, Reading!PiecesSound
  <2>5. Reading!CutWhereMarked'
    BY <1>0, <1>3 DEF Reading!Align, Reading!config, Reading!card, Reading!dials,
         Reading!MayBeSimilar, Reading!Searched, Reading!Found, Reading!Fast,
         Reading!CutWhereMarked, Reading!Rested, Reading!StageSound, Reading!PiecesSound
  <2>6. Reading!AllDialsOrNone'
    BY <1>0, <1>3 DEF Reading!Align, Reading!config, Reading!card, Reading!dials,
         Reading!MayBeSimilar, Reading!Searched, Reading!Found, Reading!Fast,
         Reading!AllDialsOrNone, Reading!Rested, Reading!StageSound, Reading!PiecesSound
  <2>7. Reading!RemembersOwnMark'
    <3>1. PICK similar \in [Reading!Marks -> BOOLEAN], p \in [Reading!Marks -> UNION {Window[m] : m \in Reading!Marks}] :
            /\ \A m \in Reading!Marks : p[m] \in Reading!Searched(m) /\ (similar[m] => Reading!MayBeSimilar(m))
            /\ found' = [m \in Reading!Marks |-> Reading!Found(m, similar[m], p[m])]
            /\ fast' = [m \in Reading!Marks |-> Reading!Fast(m, similar[m], p[m])]
            /\ stage' = IF \A m \in Reading!Marks : similar[m] THEN "load" ELSE "save"
            /\ doubt' = doubt \cup {"template" : m \in {x \in Reading!Marks : ~template[x]}}
                              \cup {"window" : m \in {x \in Reading!Marks : place[x] \notin Window[x]}}
                              \cup {"similar" : m \in {x \in Reading!Marks : similar[x] /\ fast[x] # place[x]}}
      BY <1>3 DEF Reading!Align
    <3>2. \A m \in Reading!Marks : p[m] \in Window[m]
      BY <3>1 DEF Reading!Searched
    <3>3. /\ stage = "align" /\ UNCHANGED <<setup, place, template, saved, okay>>
      BY <1>3 DEF Reading!Align, Reading!config, Reading!card
    <3>4. ASSUME "cut" \notin doubt', NEW m \in Reading!Marks PROVE fast'[m] \in Reading!MaybeUnset(Window[m])
      <4>1. "cut" \notin doubt
        BY <3>1, <3>4
      <4>2. fast[m] \in Reading!MaybeUnset(Window[m]) /\ p[m] \in Reading!MaybeUnset(Window[m])
        BY <1>0, <3>2, <4>1 DEF Reading!RemembersOwnMark, Reading!MaybeUnset
      <4>3. fast'[m] = Reading!Fast(m, similar[m], p[m])
        BY <3>1
      <4>4. QED
        BY <4>2, <4>3 DEF Reading!Fast
    <3>5. stage' # "idle"
      BY <3>1
    <3>6. QED
      BY <3>4, <3>5 DEF Reading!RemembersOwnMark, Reading!Rested
  <2>8. Reading!StageSound'
    BY <1>0, <1>3 DEF Reading!Align, Reading!config, Reading!card, Reading!dials,
         Reading!MayBeSimilar, Reading!Searched, Reading!Found, Reading!Fast, Reading!StageSound
  <2>9. Reading!PiecesSound'
    BY <1>0, <1>3 DEF Reading!Align, Reading!config, Reading!card, Reading!dials,
         Reading!MayBeSimilar, Reading!Searched, Reading!Found, Reading!Fast, Reading!PiecesSound,
         Reading!StageSound, Reading!MarksFound
  <2>10. Reading!MarksFound'
    <3>1. PICK similar \in [Reading!Marks -> BOOLEAN], p \in [Reading!Marks -> UNION {Window[m] : m \in Reading!Marks}] :
            /\ \A m \in Reading!Marks : p[m] \in Reading!Searched(m) /\ (similar[m] => Reading!MayBeSimilar(m))
            /\ found' = [m \in Reading!Marks |-> Reading!Found(m, similar[m], p[m])]
            /\ fast' = [m \in Reading!Marks |-> Reading!Fast(m, similar[m], p[m])]
            /\ stage' = IF \A m \in Reading!Marks : similar[m] THEN "load" ELSE "save"
            /\ doubt' = doubt \cup {"template" : m \in {x \in Reading!Marks : ~template[x]}}
                              \cup {"window" : m \in {x \in Reading!Marks : place[x] \notin Window[x]}}
                              \cup {"similar" : m \in {x \in Reading!Marks : similar[x] /\ fast[x] # place[x]}}
      BY <1>3 DEF Reading!Align
    <3>2. \A m \in Reading!Marks : p[m] \in Window[m]
      BY <3>1 DEF Reading!Searched
    <3>3. /\ stage = "align" /\ UNCHANGED <<setup, place, template, saved, okay>>
      BY <1>3 DEF Reading!Align, Reading!config, Reading!card
    <3>4. ASSUME doubt' \cap {"template", "window", "similar"} = {} PROVE found' = place
      <4>1. ASSUME NEW m \in Reading!Marks PROVE Reading!Found(m, similar[m], p[m]) = place[m]
        <5>1. template[m]
          BY <3>1, <3>4
        <5>2. place[m] \in Window[m]
          BY <3>1, <3>4
        <5>3. similar[m] => fast[m] = place[m]
          BY <3>1, <3>4
        <5>4. p[m] = place[m]
          BY <3>1, <5>2 DEF Reading!Searched
        <5>5. QED
          BY <5>1, <5>3, <5>4 DEF Reading!Found
      <4>2. place = [m \in Reading!Marks |-> place[m]]
        BY <1>0 DEF Reading!MarkTypes, Reading!Pictures
      <4>3. QED
        BY <3>1, <4>1, <4>2
    <3>5. QED
      BY <3>3, <3>4 DEF Reading!MarksFound
  <2>11. Reading!FileSound'
    BY <1>0, <1>3 DEF Reading!Align, Reading!config, Reading!card, Reading!dials,
         Reading!MayBeSimilar, Reading!Searched, Reading!Found, Reading!Fast, Reading!FileSound,
         Reading!RemembersOwnMark, Reading!StageSound
  <2>12. QED
    BY <2>1, <2>2, <2>3, <2>4, <2>5, <2>6, <2>7, <2>8, <2>9, <2>10, <2>11 DEF Reading!Inductive,
         Reading!TypeOK, Reading!RecognitionTrue
<1>4. CASE Reading!SaveReferenceAlignmentValues
  <2>1. Reading!ReaderTypes'
    BY <1>0, <1>4 DEF Reading!SaveReferenceAlignmentValues, Reading!config, Reading!marks,
         Reading!dials, Reading!ReaderTypes, Reading!Models
  <2>2. Reading!MarkTypes'
    <3>1. saved' = fast /\ UNCHANGED <<template, fast, found, place>>
      BY <1>4 DEF Reading!SaveReferenceAlignmentValues, Reading!marks
    <3>2. Reading!Remembers(fast)
      BY <1>0, WrittenRemembers DEF Reading!MarkTypes
    <3>3. Reading!Remembers(saved)'
      BY <3>1, <3>2 DEF Reading!Remembers
    <3>4. QED
      BY <1>0, <3>1, <3>3 DEF Reading!MarkTypes
  <2>3. Reading!DialTypes'
    BY <1>0, <1>4 DEF Reading!SaveReferenceAlignmentValues, Reading!config, Reading!marks,
         Reading!dials, Reading!DialTypes, Reading!Seen, Reading!RecognitionAssumption
  <2>4. Reading!ReadFromOwnPicture'
    BY <1>0, <1>4 DEF Reading!SaveReferenceAlignmentValues, Reading!config, Reading!marks,
         Reading!dials, Reading!ReadFromOwnPicture, Reading!Rested, Reading!StageSound,
         Reading!PiecesSound
  <2>5. Reading!CutWhereMarked'
    BY <1>0, <1>4 DEF Reading!SaveReferenceAlignmentValues, Reading!config, Reading!marks,
         Reading!dials, Reading!CutWhereMarked, Reading!Rested, Reading!StageSound,
         Reading!PiecesSound
  <2>6. Reading!AllDialsOrNone'
    BY <1>0, <1>4 DEF Reading!SaveReferenceAlignmentValues, Reading!config, Reading!marks,
         Reading!dials, Reading!AllDialsOrNone, Reading!Rested, Reading!StageSound,
         Reading!PiecesSound
  <2>7. Reading!RemembersOwnMark'
    BY <1>0, <1>4 DEF Reading!SaveReferenceAlignmentValues, Reading!config, Reading!marks,
         Reading!dials, Reading!RemembersOwnMark, Reading!Rested, Reading!StageSound,
         Reading!FileSound
  <2>8. Reading!StageSound'
    BY <1>0, <1>4 DEF Reading!SaveReferenceAlignmentValues, Reading!config, Reading!marks,
         Reading!dials, Reading!StageSound
  <2>9. Reading!PiecesSound'
    BY <1>0, <1>4 DEF Reading!SaveReferenceAlignmentValues, Reading!config, Reading!marks,
         Reading!dials, Reading!PiecesSound, Reading!StageSound, Reading!MarksFound
  <2>10. Reading!MarksFound'
    BY <1>0, <1>4 DEF Reading!SaveReferenceAlignmentValues, Reading!config, Reading!marks,
         Reading!dials, Reading!MarksFound, Reading!StageSound
  <2>11. Reading!FileSound'
    <3>1. saved' = fast /\ stage' = "load" /\ UNCHANGED <<fast, doubt>>
      BY <1>4 DEF Reading!SaveReferenceAlignmentValues, Reading!marks
    <3>2. fast \in [Reading!Marks -> Reading!MaybeUnset(Window[1] \cup Window[2])]
      BY <1>0 DEF Reading!MarkTypes
    <3>3. "cut" \notin doubt => \A m \in Reading!Marks : fast[m] \in Reading!MaybeUnset(Window[m])
      BY <1>0 DEF Reading!RemembersOwnMark
    <3>4. QED
      BY <3>1, <3>2, <3>3 DEF Reading!FileSound
  <2>12. QED
    BY <2>1, <2>2, <2>3, <2>4, <2>5, <2>6, <2>7, <2>8, <2>9, <2>10, <2>11 DEF Reading!Inductive,
         Reading!TypeOK, Reading!RecognitionTrue
<1>5. CASE Reading!SavesPart
  <2>1. Reading!ReaderTypes'
    BY <1>0, <1>5 DEF Reading!SavesPart, Reading!config, Reading!marks, Reading!dials,
         Reading!ReaderTypes, Reading!Models
  <2>2. Reading!MarkTypes'
    <3>1. /\ UNCHANGED <<template, fast, found, place>>
          /\ saved' \in Reading!CutShort(fast)
      BY <1>5 DEF Reading!SavesPart, Reading!marks
    <3>2. \A text \in Reading!CutShort(fast) : Reading!Remembers(text)
      BY <1>0, WrittenRemembers DEF Reading!MarkTypes
    <3>3. Reading!Remembers(saved)'
      BY <3>1, <3>2 DEF Reading!Remembers
    <3>4. QED
      BY <1>0, <3>1, <3>3 DEF Reading!MarkTypes
  <2>3. Reading!DialTypes'
    BY <1>0, <1>5 DEF Reading!SavesPart, Reading!config, Reading!marks, Reading!dials,
         Reading!DialTypes, Reading!Seen, Reading!RecognitionAssumption
  <2>4. Reading!ReadFromOwnPicture'
    BY <1>0, <1>5 DEF Reading!SavesPart, Reading!config, Reading!marks, Reading!dials,
         Reading!ReadFromOwnPicture, Reading!Rested, Reading!StageSound, Reading!PiecesSound
  <2>5. Reading!CutWhereMarked'
    BY <1>0, <1>5 DEF Reading!SavesPart, Reading!config, Reading!marks, Reading!dials,
         Reading!CutWhereMarked, Reading!Rested, Reading!StageSound, Reading!PiecesSound
  <2>6. Reading!AllDialsOrNone'
    BY <1>0, <1>5 DEF Reading!SavesPart, Reading!config, Reading!marks, Reading!dials,
         Reading!AllDialsOrNone, Reading!Rested, Reading!StageSound, Reading!PiecesSound
  <2>7. Reading!RemembersOwnMark'
    BY <1>0, <1>5 DEF Reading!SavesPart, Reading!config, Reading!marks, Reading!dials,
         Reading!RemembersOwnMark, Reading!Rested, Reading!StageSound, Reading!FileSound
  <2>8. Reading!StageSound'
    BY <1>0, <1>5 DEF Reading!SavesPart, Reading!config, Reading!marks, Reading!dials,
         Reading!StageSound
  <2>9. Reading!PiecesSound'
    BY <1>0, <1>5 DEF Reading!SavesPart, Reading!config, Reading!marks, Reading!dials,
         Reading!PiecesSound, Reading!StageSound, Reading!MarksFound
  <2>10. Reading!MarksFound'
    BY <1>0, <1>5 DEF Reading!SavesPart, Reading!config, Reading!marks, Reading!dials,
         Reading!MarksFound, Reading!StageSound
  <2>11. Reading!FileSound'
    BY <1>0, <1>5 DEF Reading!SavesPart, Reading!config, Reading!marks, Reading!dials,
         Reading!FileSound, Reading!RemembersOwnMark, Reading!StageSound
  <2>12. QED
    BY <2>1, <2>2, <2>3, <2>4, <2>5, <2>6, <2>7, <2>8, <2>9, <2>10, <2>11 DEF Reading!Inductive,
         Reading!TypeOK, Reading!RecognitionTrue
<1>6. CASE Reading!LoadReferenceAlignmentValues
  <2>1. Reading!ReaderTypes'
    BY <1>0, <1>6 DEF Reading!LoadReferenceAlignmentValues, Reading!config, Reading!card,
         Reading!dials, Reading!Fails, Reading!ReaderTypes, Reading!Models
  <2>2. Reading!MarkTypes'
    <3>1. /\ fast' = Reading!Remembered(saved, fast) /\ UNCHANGED <<setup, template, saved, found, place, doubt>>
          /\ IF Reading!Readable(saved) THEN stage' = "cut" ELSE stage' = "idle" /\ okay' = FALSE
      BY <1>6 DEF Reading!LoadReferenceAlignmentValues, Reading!Fails, Reading!config, Reading!card
    <3>2. fast' \in [Reading!Marks -> Reading!MaybeUnset(Window[1] \cup Window[2])]
      BY <1>0, <3>1, RememberedMarks DEF Reading!MarkTypes
    <3>3. Reading!Remembers(saved)' <=> Reading!Remembers(saved)
      BY <3>1 DEF Reading!Remembers
    <3>4. QED
      BY <1>0, <3>1, <3>2, <3>3 DEF Reading!MarkTypes
  <2>3. Reading!DialTypes'
    BY <1>0, <1>6 DEF Reading!LoadReferenceAlignmentValues, Reading!config, Reading!card,
         Reading!dials, Reading!Fails, Reading!DialTypes, Reading!Seen,
         Reading!RecognitionAssumption
  <2>4. Reading!ReadFromOwnPicture'
    BY <1>0, <1>6 DEF Reading!LoadReferenceAlignmentValues, Reading!config, Reading!card,
         Reading!dials, Reading!Fails, Reading!ReadFromOwnPicture, Reading!Rested,
         Reading!StageSound, Reading!PiecesSound
  <2>5. Reading!CutWhereMarked'
    BY <1>0, <1>6 DEF Reading!LoadReferenceAlignmentValues, Reading!config, Reading!card,
         Reading!dials, Reading!Fails, Reading!CutWhereMarked, Reading!Rested, Reading!StageSound,
         Reading!PiecesSound
  <2>6. Reading!AllDialsOrNone'
    BY <1>0, <1>6 DEF Reading!LoadReferenceAlignmentValues, Reading!config, Reading!card,
         Reading!dials, Reading!Fails, Reading!AllDialsOrNone, Reading!Rested, Reading!StageSound,
         Reading!PiecesSound
  <2>7. Reading!RemembersOwnMark'
    <3>1. /\ fast' = Reading!Remembered(saved, fast) /\ UNCHANGED <<setup, template, saved, found, place, doubt>>
          /\ IF Reading!Readable(saved) THEN stage' = "cut" ELSE stage' = "idle" /\ okay' = FALSE
      BY <1>6 DEF Reading!LoadReferenceAlignmentValues, Reading!Fails, Reading!config, Reading!card
    <3>2. ASSUME "cut" \notin doubt, NEW m \in Reading!Marks PROVE fast'[m] \in Reading!MaybeUnset(Window[m])
      <4>1. CASE saved = Unset
        BY <1>0, <3>1, <3>2, <4>1 DEF Reading!Remembered, Reading!RemembersOwnMark
      <4>2. CASE saved # Unset
        <5>1. /\ saved \in [Reading!Marks -> Reading!MaybeUnset(Window[1] \cup Window[2])]
              /\ saved[m] \in Reading!MaybeUnset(Window[m])
          BY <1>0, <3>2, <4>2 DEF Reading!FileSound
        <5>2. fast' = saved
          BY <3>1, <4>2, <5>1, WholeFile
        <5>3. QED
          BY <5>1, <5>2
      <4>3. QED
        BY <4>1, <4>2
    <3>3. ~Reading!Rested'
      BY <3>1 DEF Reading!Rested
    <3>4. QED
      BY <3>1, <3>2, <3>3 DEF Reading!RemembersOwnMark
  <2>8. Reading!StageSound'
    BY <1>0, <1>6 DEF Reading!LoadReferenceAlignmentValues, Reading!config, Reading!card,
         Reading!dials, Reading!Fails, Reading!StageSound
  <2>9. Reading!PiecesSound'
    BY <1>0, <1>6 DEF Reading!LoadReferenceAlignmentValues, Reading!config, Reading!card,
         Reading!dials, Reading!Fails, Reading!PiecesSound, Reading!StageSound, Reading!MarksFound
  <2>10. Reading!MarksFound'
    BY <1>0, <1>6 DEF Reading!LoadReferenceAlignmentValues, Reading!config, Reading!card,
         Reading!dials, Reading!Fails, Reading!MarksFound, Reading!StageSound
  <2>11. Reading!FileSound'
    <3>1. /\ fast' = Reading!Remembered(saved, fast) /\ UNCHANGED <<setup, template, saved, found, place, doubt>>
          /\ IF Reading!Readable(saved) THEN stage' = "cut" ELSE stage' = "idle" /\ okay' = FALSE
      BY <1>6 DEF Reading!LoadReferenceAlignmentValues, Reading!Fails, Reading!config, Reading!card
    <3>2. Reading!Readable(saved) => Reading!Remembered(saved, fast) = Reading!Remembered(saved, Reading!NoMarks)
      <4>1. Reading!Readable(saved) => Reading!Remembers(saved)
        BY <1>0 DEF Reading!MarkTypes, Reading!Readable
      <4>2. QED
        BY <4>1, ReadableRemembered
    <3>3. Reading!Readable(saved)' <=> Reading!Readable(saved)
      BY <3>1 DEF Reading!Readable
    <3>4. Reading!Remembered(saved, Reading!NoMarks)' = Reading!Remembered(saved, Reading!NoMarks)
      BY <3>1 DEF Reading!Remembered, Reading!Readable
    <3>5. "cut" \notin doubt' /\ saved' # Unset =>
            /\ saved' \in [Reading!Marks -> Reading!MaybeUnset(Window[1] \cup Window[2])]
            /\ \A m \in Reading!Marks : saved'[m] \in Reading!MaybeUnset(Window[m])
      BY <1>0, <3>1 DEF Reading!FileSound
    <3>6. stage' \in {"cut", "net", "polar"} => Reading!Readable(saved) /\ fast' = Reading!Remembered(saved, Reading!NoMarks)
      BY <3>1, <3>2
    <3>7. QED
      BY <3>3, <3>4, <3>5, <3>6 DEF Reading!FileSound
  <2>12. QED
    BY <2>1, <2>2, <2>3, <2>4, <2>5, <2>6, <2>7, <2>8, <2>9, <2>10, <2>11 DEF Reading!Inductive,
         Reading!TypeOK, Reading!RecognitionTrue
<1>7. CASE Reading!Disabled
  <2>1. Reading!ReaderTypes'
    BY <1>0, <1>7 DEF Reading!Disabled, Reading!config, Reading!card, Reading!marks,
         Reading!dials, Reading!ReaderTypes, Reading!Models
  <2>2. Reading!MarkTypes'
    BY <1>0, <1>7 DEF Reading!Disabled, Reading!config, Reading!card, Reading!marks,
         Reading!dials, Reading!MarkTypes
  <2>3. Reading!DialTypes'
    BY <1>0, <1>7 DEF Reading!Disabled, Reading!config, Reading!card, Reading!marks,
         Reading!dials, Reading!DialTypes, Reading!Seen, Reading!RecognitionAssumption
  <2>4. Reading!ReadFromOwnPicture'
    BY <1>0, <1>7 DEF Reading!Disabled, Reading!config, Reading!card, Reading!marks,
         Reading!dials, Reading!ReadFromOwnPicture, Reading!Rested, Reading!StageSound,
         Reading!PiecesSound
  <2>5. Reading!CutWhereMarked'
    BY <1>0, <1>7 DEF Reading!Disabled, Reading!config, Reading!card, Reading!marks,
         Reading!dials, Reading!CutWhereMarked, Reading!Rested, Reading!StageSound,
         Reading!PiecesSound
  <2>6. Reading!AllDialsOrNone'
    BY <1>0, <1>7 DEF Reading!Disabled, Reading!config, Reading!card, Reading!marks,
         Reading!dials, Reading!AllDialsOrNone, Reading!Rested, Reading!StageSound,
         Reading!PiecesSound
  <2>7. Reading!RemembersOwnMark'
    BY <1>0, <1>7 DEF Reading!Disabled, Reading!config, Reading!card, Reading!marks,
         Reading!dials, Reading!RemembersOwnMark, Reading!Rested, Reading!StageSound,
         Reading!FileSound
  <2>8. Reading!StageSound'
    BY <1>0, <1>7 DEF Reading!Disabled, Reading!config, Reading!card, Reading!marks,
         Reading!dials, Reading!StageSound
  <2>9. Reading!PiecesSound'
    BY <1>0, <1>7 DEF Reading!Disabled, Reading!config, Reading!card, Reading!marks,
         Reading!dials, Reading!PiecesSound, Reading!StageSound, Reading!MarksFound
  <2>10. Reading!MarksFound'
    BY <1>0, <1>7 DEF Reading!Disabled, Reading!config, Reading!card, Reading!marks,
         Reading!dials, Reading!MarksFound, Reading!StageSound
  <2>11. Reading!FileSound'
    BY <1>0, <1>7 DEF Reading!Disabled, Reading!config, Reading!card, Reading!marks,
         Reading!dials, Reading!FileSound, Reading!RemembersOwnMark, Reading!StageSound
  <2>12. QED
    BY <2>1, <2>2, <2>3, <2>4, <2>5, <2>6, <2>7, <2>8, <2>9, <2>10, <2>11 DEF Reading!Inductive,
         Reading!TypeOK, Reading!RecognitionTrue
<1>8. CASE Reading!DoAlignAndCut
  <2>1. Reading!ReaderTypes'
    BY <1>0, <1>8 DEF Reading!DoAlignAndCut, Reading!config, Reading!card, Reading!marks,
         Reading!Moved, Reading!ReaderTypes, Reading!Models
  <2>2. Reading!MarkTypes'
    BY <1>0, <1>8 DEF Reading!DoAlignAndCut, Reading!config, Reading!card, Reading!marks,
         Reading!Moved, Reading!MarkTypes
  <2>3. Reading!DialTypes'
    BY <1>0, <1>8 DEF Reading!DoAlignAndCut, Reading!config, Reading!card, Reading!marks,
         Reading!CutAndSave, Reading!Moved, Reading!DialTypes, Reading!Seen, Reading!RecognitionAssumption
  <2>4. Reading!ReadFromOwnPicture'
    BY <1>0, <1>8 DEF Reading!DoAlignAndCut, Reading!config, Reading!card, Reading!marks,
         Reading!Moved, Reading!ReadFromOwnPicture, Reading!Rested, Reading!StageSound,
         Reading!PiecesSound
  <2>5. Reading!CutWhereMarked'
    BY <1>0, <1>8 DEF Reading!DoAlignAndCut, Reading!config, Reading!card, Reading!marks,
         Reading!Moved, Reading!CutWhereMarked, Reading!Rested, Reading!StageSound,
         Reading!PiecesSound
  <2>6. Reading!AllDialsOrNone'
    BY <1>0, <1>8 DEF Reading!DoAlignAndCut, Reading!config, Reading!card, Reading!marks,
         Reading!Moved, Reading!AllDialsOrNone, Reading!Rested, Reading!StageSound,
         Reading!PiecesSound
  <2>7. Reading!RemembersOwnMark'
    BY <1>0, <1>8 DEF Reading!DoAlignAndCut, Reading!config, Reading!card, Reading!marks,
         Reading!Moved, Reading!RemembersOwnMark, Reading!Rested, Reading!StageSound,
         Reading!FileSound
  <2>8. Reading!StageSound'
    BY <1>0, <1>8 DEF Reading!DoAlignAndCut, Reading!config, Reading!card, Reading!marks,
         Reading!Moved, Reading!StageSound
  <2>9. Reading!PiecesSound'
    <3>1. /\ stage = "cut" /\ stage' = "net" /\ UNCHANGED <<setup, found, place, doubt>>
          /\ piece' = [d \in Reading!Dials |->
                      IF d \in Fits THEN [of |-> "own", moved |-> Reading!Moved] ELSE piece[d]]
      BY <1>8 DEF Reading!DoAlignAndCut, Reading!CutAndSave, Reading!config, Reading!marks
    <3>2. \A d \in Reading!Dials : piece[d].of # "own"
      BY <1>0, <3>1 DEF Reading!PiecesSound
    <3>3. Fits \subseteq Reading!Dials
      BY DEF Reading!RecognitionAssumption
    <3>4. \A d \in Fits : piece'[d].of = "own"
      BY <3>1, <3>3
    <3>5. doubt \cap {"template", "window", "similar"} = {} => Reading!Moved
      BY <1>0, <3>1 DEF Reading!MarksFound, Reading!Moved
    <3>6. ASSUME doubt \cap {"template", "window", "similar"} = {}, NEW d \in Reading!Dials, piece'[d].of = "own"
          PROVE  piece'[d].moved
      <4>1. d \in Fits
        BY <3>1, <3>2, <3>6
      <4>2. piece'[d] = [of |-> "own", moved |-> Reading!Moved]
        BY <3>1, <4>1
      <4>3. piece'[d].moved = Reading!Moved
        BY <4>2
      <4>4. QED
        BY <3>5, <3>6, <4>3
    <3>7. QED
      BY <3>1, <3>4, <3>6 DEF Reading!PiecesSound
  <2>10. Reading!MarksFound'
    BY <1>0, <1>8 DEF Reading!DoAlignAndCut, Reading!config, Reading!card, Reading!marks,
         Reading!Moved, Reading!MarksFound, Reading!StageSound
  <2>11. Reading!FileSound'
    BY <1>0, <1>8 DEF Reading!DoAlignAndCut, Reading!config, Reading!card, Reading!marks,
         Reading!Moved, Reading!FileSound, Reading!RemembersOwnMark, Reading!StageSound
  <2>12. QED
    BY <2>1, <2>2, <2>3, <2>4, <2>5, <2>6, <2>7, <2>8, <2>9, <2>10, <2>11 DEF Reading!Inductive,
         Reading!TypeOK, Reading!RecognitionTrue
<1>9. CASE Reading!LoadFails
  <2>1. Reading!ReaderTypes'
    BY <1>0, <1>9 DEF Reading!LoadFails, Reading!config, Reading!card, Reading!marks,
         Reading!dials, Reading!Fails, Reading!ReaderTypes, Reading!Models
  <2>2. Reading!MarkTypes'
    BY <1>0, <1>9 DEF Reading!LoadFails, Reading!config, Reading!card, Reading!marks,
         Reading!dials, Reading!Fails, Reading!MarkTypes
  <2>3. Reading!DialTypes'
    BY <1>0, <1>9 DEF Reading!LoadFails, Reading!config, Reading!card, Reading!marks,
         Reading!dials, Reading!Fails, Reading!DialTypes, Reading!Seen,
         Reading!RecognitionAssumption
  <2>4. Reading!ReadFromOwnPicture'
    BY <1>0, <1>9 DEF Reading!LoadFails, Reading!config, Reading!card, Reading!marks,
         Reading!dials, Reading!Fails, Reading!ReadFromOwnPicture, Reading!Rested,
         Reading!StageSound, Reading!PiecesSound
  <2>5. Reading!CutWhereMarked'
    BY <1>0, <1>9 DEF Reading!LoadFails, Reading!config, Reading!card, Reading!marks,
         Reading!dials, Reading!Fails, Reading!CutWhereMarked, Reading!Rested, Reading!StageSound,
         Reading!PiecesSound
  <2>6. Reading!AllDialsOrNone'
    BY <1>0, <1>9 DEF Reading!LoadFails, Reading!config, Reading!card, Reading!marks,
         Reading!dials, Reading!Fails, Reading!AllDialsOrNone, Reading!Rested, Reading!StageSound,
         Reading!PiecesSound
  <2>7. Reading!RemembersOwnMark'
    BY <1>0, <1>9 DEF Reading!LoadFails, Reading!config, Reading!card, Reading!marks,
         Reading!dials, Reading!Fails, Reading!RemembersOwnMark, Reading!Rested,
         Reading!StageSound, Reading!FileSound
  <2>8. Reading!StageSound'
    BY <1>0, <1>9 DEF Reading!LoadFails, Reading!config, Reading!card, Reading!marks,
         Reading!dials, Reading!Fails, Reading!StageSound
  <2>9. Reading!PiecesSound'
    BY <1>0, <1>9 DEF Reading!LoadFails, Reading!config, Reading!card, Reading!marks,
         Reading!dials, Reading!Fails, Reading!PiecesSound, Reading!StageSound, Reading!MarksFound
  <2>10. Reading!MarksFound'
    BY <1>0, <1>9 DEF Reading!LoadFails, Reading!config, Reading!card, Reading!marks,
         Reading!dials, Reading!Fails, Reading!MarksFound, Reading!StageSound
  <2>11. Reading!FileSound'
    BY <1>0, <1>9 DEF Reading!LoadFails, Reading!config, Reading!card, Reading!marks,
         Reading!dials, Reading!Fails, Reading!FileSound, Reading!RemembersOwnMark,
         Reading!StageSound
  <2>12. QED
    BY <2>1, <2>2, <2>3, <2>4, <2>5, <2>6, <2>7, <2>8, <2>9, <2>10, <2>11 DEF Reading!Inductive,
         Reading!TypeOK, Reading!RecognitionTrue
<1>10. CASE Reading!DoNeuralNetwork
  <2>1. Reading!ReaderTypes'
    BY <1>0, <1>10 DEF Reading!DoNeuralNetwork, Reading!config, Reading!card, Reading!marks,
         Reading!ReaderTypes, Reading!Models
  <2>2. Reading!MarkTypes'
    BY <1>0, <1>10 DEF Reading!DoNeuralNetwork, Reading!config, Reading!card, Reading!marks,
         Reading!MarkTypes
  <2>3. Reading!DialTypes'
    <3>1. PICK failed \in SUBSET Reading!Dials, rejected \in SUBSET Reading!Dials :
            result' = [d \in Reading!Dials |->
              IF type = "auto" THEN result[d]
              ELSE [of |-> IF network # type \/ d \in failed THEN "foreign" ELSE piece[d].of,
                    accepted |-> Reading!Accepted(d, rejected)]]
      BY <1>10 DEF Reading!DoNeuralNetwork
    <3>2. ASSUME NEW d \in Reading!Dials
          PROVE  /\ result[d] \in [of : Reading!Seen, accepted : BOOLEAN]
                 /\ Reading!Accepted(d, rejected) \in BOOLEAN
                 /\ (IF network # type \/ d \in failed THEN "foreign" ELSE piece[d].of) \in Reading!Seen
      <4>1. result[d] \in [of : Reading!Seen, accepted : BOOLEAN] /\ result[d].accepted \in BOOLEAN
        BY <1>0 DEF Reading!DialTypes
      <4>2. (d \notin rejected) \in BOOLEAN
        OBVIOUS
      <4>3. Reading!Accepted(d, rejected) \in BOOLEAN
        BY <4>1, <4>2 DEF Reading!Accepted
      <4>4. piece[d].of \in Reading!Seen /\ "foreign" \in Reading!Seen
        BY <1>0 DEF Reading!DialTypes, Reading!Seen
      <4>5. QED
        BY <4>1, <4>3, <4>4
    <3>3. result' \in [Reading!Dials -> [of : Reading!Seen, accepted : BOOLEAN]]
      BY <3>1, <3>2
    <3>4. UNCHANGED <<dial, piece>>
      BY <1>10 DEF Reading!DoNeuralNetwork, Reading!marks
    <3>5. QED
      BY <1>0, <3>3, <3>4 DEF Reading!DialTypes
  <2>4. Reading!ReadFromOwnPicture'
    BY <1>0, <1>10 DEF Reading!DoNeuralNetwork, Reading!config, Reading!card, Reading!marks,
         Reading!ReadFromOwnPicture, Reading!Rested, Reading!StageSound, Reading!PiecesSound
  <2>5. Reading!CutWhereMarked'
    BY <1>0, <1>10 DEF Reading!DoNeuralNetwork, Reading!config, Reading!card, Reading!marks,
         Reading!CutWhereMarked, Reading!Rested, Reading!StageSound, Reading!PiecesSound
  <2>6. Reading!AllDialsOrNone'
    BY <1>0, <1>10 DEF Reading!DoNeuralNetwork, Reading!config, Reading!card, Reading!marks,
         Reading!AllDialsOrNone, Reading!Rested, Reading!StageSound, Reading!PiecesSound
  <2>7. Reading!RemembersOwnMark'
    BY <1>0, <1>10 DEF Reading!DoNeuralNetwork, Reading!config, Reading!card, Reading!marks,
         Reading!RemembersOwnMark, Reading!Rested, Reading!StageSound, Reading!FileSound
  <2>8. Reading!StageSound'
    BY <1>0, <1>10 DEF Reading!DoNeuralNetwork, Reading!config, Reading!card, Reading!marks,
         Reading!StageSound
  <2>9. Reading!PiecesSound'
    BY <1>0, <1>10 DEF Reading!DoNeuralNetwork, Reading!config, Reading!card, Reading!marks,
         Reading!PiecesSound, Reading!StageSound, Reading!MarksFound
  <2>10. Reading!MarksFound'
    BY <1>0, <1>10 DEF Reading!DoNeuralNetwork, Reading!config, Reading!card, Reading!marks,
         Reading!MarksFound, Reading!StageSound
  <2>11. Reading!FileSound'
    BY <1>0, <1>10 DEF Reading!DoNeuralNetwork, Reading!config, Reading!card, Reading!marks,
         Reading!FileSound, Reading!RemembersOwnMark, Reading!StageSound
  <2>12. QED
    BY <2>1, <2>2, <2>3, <2>4, <2>5, <2>6, <2>7, <2>8, <2>9, <2>10, <2>11 DEF Reading!Inductive,
         Reading!TypeOK, Reading!RecognitionTrue
<1>11. CASE Reading!PolarBegins
  <2>1. Reading!ReaderTypes'
    BY <1>0, <1>11 DEF Reading!PolarBegins, Reading!config, Reading!card, Reading!marks,
         Reading!ReaderTypes, Reading!Models
  <2>2. Reading!MarkTypes'
    BY <1>0, <1>11 DEF Reading!PolarBegins, Reading!config, Reading!card, Reading!marks,
         Reading!MarkTypes
  <2>3. Reading!DialTypes'
    BY <1>0, <1>11 DEF Reading!PolarBegins, Reading!config, Reading!card, Reading!marks,
         Reading!DialTypes, Reading!Seen, Reading!RecognitionAssumption
  <2>4. Reading!ReadFromOwnPicture'
    BY <1>0, <1>11 DEF Reading!PolarBegins, Reading!config, Reading!card, Reading!marks,
         Reading!ReadFromOwnPicture, Reading!Rested, Reading!StageSound, Reading!PiecesSound
  <2>5. Reading!CutWhereMarked'
    BY <1>0, <1>11 DEF Reading!PolarBegins, Reading!config, Reading!card, Reading!marks,
         Reading!CutWhereMarked, Reading!Rested, Reading!StageSound, Reading!PiecesSound
  <2>6. Reading!AllDialsOrNone'
    BY <1>0, <1>11 DEF Reading!PolarBegins, Reading!config, Reading!card, Reading!marks,
         Reading!AllDialsOrNone, Reading!Rested, Reading!StageSound, Reading!PiecesSound
  <2>7. Reading!RemembersOwnMark'
    BY <1>0, <1>11 DEF Reading!PolarBegins, Reading!config, Reading!card, Reading!marks,
         Reading!RemembersOwnMark, Reading!Rested, Reading!StageSound, Reading!FileSound
  <2>8. Reading!StageSound'
    BY <1>0, <1>11 DEF Reading!PolarBegins, Reading!config, Reading!card, Reading!marks,
         Reading!StageSound
  <2>9. Reading!PiecesSound'
    <3>1. stage = "cut" /\ stage' = "polar" /\ dial' = 1 /\ piece' = piece
      BY <1>11 DEF Reading!PolarBegins
    <3>2. \A d \in Reading!Dials : piece[d].of # "own"
      BY <1>0, <3>1 DEF Reading!PiecesSound
    <3>3. \A d \in Reading!Dials : ~(d < 1)
      BY DEF Reading!Dials, Reading!RecognitionAssumption
    <3>4. QED
      BY <3>1, <3>2, <3>3 DEF Reading!PiecesSound
  <2>10. Reading!MarksFound'
    BY <1>0, <1>11 DEF Reading!PolarBegins, Reading!config, Reading!card, Reading!marks,
         Reading!MarksFound, Reading!StageSound
  <2>11. Reading!FileSound'
    BY <1>0, <1>11 DEF Reading!PolarBegins, Reading!config, Reading!card, Reading!marks,
         Reading!FileSound, Reading!RemembersOwnMark, Reading!StageSound
  <2>12. QED
    BY <2>1, <2>2, <2>3, <2>4, <2>5, <2>6, <2>7, <2>8, <2>9, <2>10, <2>11 DEF Reading!Inductive,
         Reading!TypeOK, Reading!RecognitionTrue
<1>12. CASE Reading!PolarFails
  <2>1. Reading!ReaderTypes'
    BY <1>0, <1>12 DEF Reading!PolarFails, Reading!config, Reading!card, Reading!marks,
         Reading!dials, Reading!Fails, Reading!ReaderTypes, Reading!Models
  <2>2. Reading!MarkTypes'
    BY <1>0, <1>12 DEF Reading!PolarFails, Reading!config, Reading!card, Reading!marks,
         Reading!dials, Reading!Fails, Reading!MarkTypes
  <2>3. Reading!DialTypes'
    BY <1>0, <1>12 DEF Reading!PolarFails, Reading!config, Reading!card, Reading!marks,
         Reading!dials, Reading!Fails, Reading!DialTypes, Reading!Seen,
         Reading!RecognitionAssumption
  <2>4. Reading!ReadFromOwnPicture'
    BY <1>0, <1>12 DEF Reading!PolarFails, Reading!config, Reading!card, Reading!marks,
         Reading!dials, Reading!Fails, Reading!ReadFromOwnPicture, Reading!Rested,
         Reading!StageSound, Reading!PiecesSound
  <2>5. Reading!CutWhereMarked'
    BY <1>0, <1>12 DEF Reading!PolarFails, Reading!config, Reading!card, Reading!marks,
         Reading!dials, Reading!Fails, Reading!CutWhereMarked, Reading!Rested, Reading!StageSound,
         Reading!PiecesSound
  <2>6. Reading!AllDialsOrNone'
    BY <1>0, <1>12 DEF Reading!PolarFails, Reading!config, Reading!card, Reading!marks,
         Reading!dials, Reading!Fails, Reading!AllDialsOrNone, Reading!Rested, Reading!StageSound,
         Reading!PiecesSound
  <2>7. Reading!RemembersOwnMark'
    BY <1>0, <1>12 DEF Reading!PolarFails, Reading!config, Reading!card, Reading!marks,
         Reading!dials, Reading!Fails, Reading!RemembersOwnMark, Reading!Rested,
         Reading!StageSound, Reading!FileSound
  <2>8. Reading!StageSound'
    BY <1>0, <1>12 DEF Reading!PolarFails, Reading!config, Reading!card, Reading!marks,
         Reading!dials, Reading!Fails, Reading!StageSound
  <2>9. Reading!PiecesSound'
    BY <1>0, <1>12 DEF Reading!PolarFails, Reading!config, Reading!card, Reading!marks,
         Reading!dials, Reading!Fails, Reading!PiecesSound, Reading!StageSound, Reading!MarksFound
  <2>10. Reading!MarksFound'
    BY <1>0, <1>12 DEF Reading!PolarFails, Reading!config, Reading!card, Reading!marks,
         Reading!dials, Reading!Fails, Reading!MarksFound, Reading!StageSound
  <2>11. Reading!FileSound'
    BY <1>0, <1>12 DEF Reading!PolarFails, Reading!config, Reading!card, Reading!marks,
         Reading!dials, Reading!Fails, Reading!FileSound, Reading!RemembersOwnMark,
         Reading!StageSound
  <2>12. QED
    BY <2>1, <2>2, <2>3, <2>4, <2>5, <2>6, <2>7, <2>8, <2>9, <2>10, <2>11 DEF Reading!Inductive,
         Reading!TypeOK, Reading!RecognitionTrue
<1>13. CASE Reading!PolarDial
  <2>1. Reading!ReaderTypes'
    BY <1>0, <1>13 DEF Reading!PolarDial, Reading!config, Reading!card, Reading!marks,
         Reading!ReaderTypes, Reading!Models
  <2>2. Reading!MarkTypes'
    BY <1>0, <1>13 DEF Reading!PolarDial, Reading!config, Reading!card, Reading!marks,
         Reading!MarkTypes
  <2>3. Reading!DialTypes'
    <3>1. /\ dial <= Count /\ dial' = dial + 1 /\ UNCHANGED result
          /\ piece' = [piece EXCEPT ![dial] = [of |-> "own", moved |-> TRUE]]
      BY <1>13 DEF Reading!PolarDial
    <3>2. dial' \in 1..(Count + 1)
      BY <1>0, <3>1 DEF Reading!DialTypes, Reading!RecognitionAssumption
    <3>3. [of |-> "own", moved |-> TRUE] \in [of : Reading!Seen, moved : BOOLEAN]
      BY DEF Reading!Seen
    <3>4. QED
      BY <1>0, <3>1, <3>2, <3>3 DEF Reading!DialTypes
  <2>4. Reading!ReadFromOwnPicture'
    BY <1>0, <1>13 DEF Reading!PolarDial, Reading!config, Reading!card, Reading!marks,
         Reading!ReadFromOwnPicture, Reading!Rested, Reading!StageSound, Reading!PiecesSound
  <2>5. Reading!CutWhereMarked'
    BY <1>0, <1>13 DEF Reading!PolarDial, Reading!config, Reading!card, Reading!marks,
         Reading!CutWhereMarked, Reading!Rested, Reading!StageSound, Reading!PiecesSound
  <2>6. Reading!AllDialsOrNone'
    BY <1>0, <1>13 DEF Reading!PolarDial, Reading!config, Reading!card, Reading!marks,
         Reading!AllDialsOrNone, Reading!Rested, Reading!StageSound, Reading!PiecesSound
  <2>7. Reading!RemembersOwnMark'
    BY <1>0, <1>13 DEF Reading!PolarDial, Reading!config, Reading!card, Reading!marks,
         Reading!RemembersOwnMark, Reading!Rested, Reading!StageSound, Reading!FileSound
  <2>8. Reading!StageSound'
    BY <1>0, <1>13 DEF Reading!PolarDial, Reading!config, Reading!card, Reading!marks,
         Reading!StageSound
  <2>9. Reading!PiecesSound'
    <3>1. /\ stage = "polar" /\ stage' = "polar" /\ dial' = dial + 1
          /\ piece' = [piece EXCEPT ![dial] = [of |-> "own", moved |-> TRUE]]
      BY <1>13 DEF Reading!PolarDial
    <3>2. ASSUME NEW d \in Reading!Dials
          PROVE  IF d < dial + 1 THEN piece'[d] = [of |-> "own", moved |-> TRUE] ELSE piece'[d].of # "own"
      <4>1. /\ d \in Int /\ dial \in Int /\ piece \in [Reading!Dials -> [of : Reading!Seen, moved : BOOLEAN]]
        BY <1>0 DEF Reading!DialTypes, Reading!Dials, Reading!RecognitionAssumption
      <4>2. IF d < dial THEN piece[d] = [of |-> "own", moved |-> TRUE] ELSE piece[d].of # "own"
        BY <1>0, <3>1 DEF Reading!PiecesSound
      <4>3. CASE d = dial
        <5>1. piece'[d] = [of |-> "own", moved |-> TRUE]
          BY <3>1, <4>1, <4>3
        <5>2. d < dial + 1
          BY <4>1, <4>3
        <5>3. QED
          BY <5>1, <5>2
      <4>4. CASE d # dial
        <5>1. piece'[d] = piece[d]
          BY <3>1, <4>1, <4>4
        <5>2. d < dial + 1 <=> d < dial
          BY <4>1, <4>4
        <5>3. QED
          BY <4>2, <5>1, <5>2
      <4>5. QED
        BY <4>3, <4>4
    <3>3. \A d \in Reading!Dials : piece'[d].of = "own" => piece'[d].moved
      BY <3>2
    <3>4. QED
      BY <3>1, <3>2, <3>3 DEF Reading!PiecesSound
  <2>10. Reading!MarksFound'
    BY <1>0, <1>13 DEF Reading!PolarDial, Reading!config, Reading!card, Reading!marks,
         Reading!MarksFound, Reading!StageSound
  <2>11. Reading!FileSound'
    BY <1>0, <1>13 DEF Reading!PolarDial, Reading!config, Reading!card, Reading!marks,
         Reading!FileSound, Reading!RemembersOwnMark, Reading!StageSound
  <2>12. QED
    BY <2>1, <2>2, <2>3, <2>4, <2>5, <2>6, <2>7, <2>8, <2>9, <2>10, <2>11 DEF Reading!Inductive,
         Reading!TypeOK, Reading!RecognitionTrue
<1>14. CASE Reading!PolarPublishes
  <2>1. Reading!ReaderTypes'
    BY <1>0, <1>14 DEF Reading!PolarPublishes, Reading!config, Reading!card, Reading!marks,
         Reading!ReaderTypes, Reading!Models
  <2>2. Reading!MarkTypes'
    BY <1>0, <1>14 DEF Reading!PolarPublishes, Reading!config, Reading!card, Reading!marks,
         Reading!MarkTypes
  <2>3. Reading!DialTypes'
    BY <1>0, <1>14 DEF Reading!PolarPublishes, Reading!config, Reading!card, Reading!marks,
         Reading!DialTypes, Reading!Seen, Reading!RecognitionAssumption
  <2>4. Reading!ReadFromOwnPicture'
    <3>1. /\ stage = "polar" /\ dial = Count + 1 /\ UNCHANGED <<setup, disabled>>
          /\ result' = [d \in Reading!Dials |-> [of |-> piece[d].of, accepted |-> TRUE]]
      BY <1>14 DEF Reading!PolarPublishes, Reading!config
    <3>2. \A d \in Reading!Dials : d < dial
      BY <3>1 DEF Reading!Dials, Reading!RecognitionAssumption
    <3>3. \A d \in Reading!Dials : piece[d] = [of |-> "own", moved |-> TRUE]
      BY <1>0, <3>1, <3>2 DEF Reading!PiecesSound
    <3>s. \A d \in Reading!Dials : piece[d].of = "own"
      BY <3>3
    <3>4. \A d \in Reading!Dials : result'[d] = [of |-> "own", accepted |-> TRUE]
      BY <3>1, <3>s
    <3>5. QED
      BY <3>4 DEF Reading!ReadFromOwnPicture
  <2>5. Reading!CutWhereMarked'
    BY <1>0, <1>14 DEF Reading!PolarPublishes, Reading!config, Reading!card, Reading!marks,
         Reading!CutWhereMarked, Reading!Rested, Reading!StageSound, Reading!PiecesSound
  <2>6. Reading!AllDialsOrNone'
    <3>1. /\ stage = "polar" /\ dial = Count + 1 /\ UNCHANGED <<setup, disabled>>
          /\ result' = [d \in Reading!Dials |-> [of |-> piece[d].of, accepted |-> TRUE]]
      BY <1>14 DEF Reading!PolarPublishes, Reading!config
    <3>2. \A d \in Reading!Dials : d < dial
      BY <3>1 DEF Reading!Dials, Reading!RecognitionAssumption
    <3>3. \A d \in Reading!Dials : piece[d] = [of |-> "own", moved |-> TRUE]
      BY <1>0, <3>1, <3>2 DEF Reading!PiecesSound
    <3>s. \A d \in Reading!Dials : piece[d].of = "own"
      BY <3>3
    <3>4. \A d \in Reading!Dials : result'[d] = [of |-> "own", accepted |-> TRUE]
      BY <3>1, <3>s
    <3>5. ~disabled
      BY <1>0, <3>1 DEF Reading!StageSound
    <3>6. QED
      BY <3>1, <3>4, <3>5 DEF Reading!AllDialsOrNone
  <2>7. Reading!RemembersOwnMark'
    BY <1>0, <1>14 DEF Reading!PolarPublishes, Reading!config, Reading!card, Reading!marks,
         Reading!RemembersOwnMark, Reading!Rested, Reading!StageSound, Reading!FileSound
  <2>8. Reading!StageSound'
    BY <1>0, <1>14 DEF Reading!PolarPublishes, Reading!config, Reading!card, Reading!marks,
         Reading!StageSound
  <2>9. Reading!PiecesSound'
    BY <1>0, <1>14 DEF Reading!PolarPublishes, Reading!config, Reading!card, Reading!marks,
         Reading!PiecesSound, Reading!StageSound, Reading!MarksFound
  <2>10. Reading!MarksFound'
    BY <1>0, <1>14 DEF Reading!PolarPublishes, Reading!config, Reading!card, Reading!marks,
         Reading!MarksFound, Reading!StageSound
  <2>11. Reading!FileSound'
    BY <1>0, <1>14 DEF Reading!PolarPublishes, Reading!config, Reading!card, Reading!marks,
         Reading!FileSound, Reading!RemembersOwnMark, Reading!StageSound
  <2>12. QED
    BY <2>1, <2>2, <2>3, <2>4, <2>5, <2>6, <2>7, <2>8, <2>9, <2>10, <2>11 DEF Reading!Inductive,
         Reading!TypeOK, Reading!RecognitionTrue
<1>15. CASE Reading!Upload
  <2>1. Reading!ReaderTypes'
    BY <1>0, <1>15 DEF Reading!Upload, Reading!config, Reading!marks, Reading!dials,
         Reading!ReaderTypes, Reading!Models
  <2>2. Reading!MarkTypes'
    BY <1>0, <1>15 DEF Reading!Upload, Reading!config, Reading!marks, Reading!dials,
         Reading!MarkTypes
  <2>3. Reading!DialTypes'
    BY <1>0, <1>15 DEF Reading!Upload, Reading!config, Reading!marks, Reading!dials,
         Reading!DialTypes, Reading!Seen, Reading!RecognitionAssumption
  <2>4. Reading!ReadFromOwnPicture'
    BY <1>0, <1>15 DEF Reading!Upload, Reading!config, Reading!marks, Reading!dials,
         Reading!ReadFromOwnPicture, Reading!Rested, Reading!StageSound, Reading!PiecesSound
  <2>5. Reading!CutWhereMarked'
    BY <1>0, <1>15 DEF Reading!Upload, Reading!config, Reading!marks, Reading!dials,
         Reading!CutWhereMarked, Reading!Rested, Reading!StageSound, Reading!PiecesSound
  <2>6. Reading!AllDialsOrNone'
    BY <1>0, <1>15 DEF Reading!Upload, Reading!config, Reading!marks, Reading!dials,
         Reading!AllDialsOrNone, Reading!Rested, Reading!StageSound, Reading!PiecesSound
  <2>7. Reading!RemembersOwnMark'
    BY <1>0, <1>15 DEF Reading!Upload, Reading!config, Reading!marks, Reading!dials,
         Reading!RemembersOwnMark, Reading!Rested, Reading!StageSound, Reading!FileSound
  <2>8. Reading!StageSound'
    BY <1>0, <1>15 DEF Reading!Upload, Reading!config, Reading!marks, Reading!dials,
         Reading!StageSound
  <2>9. Reading!PiecesSound'
    BY <1>0, <1>15 DEF Reading!Upload, Reading!config, Reading!marks, Reading!dials,
         Reading!PiecesSound, Reading!StageSound, Reading!MarksFound
  <2>10. Reading!MarksFound'
    BY <1>0, <1>15 DEF Reading!Upload, Reading!config, Reading!marks, Reading!dials,
         Reading!MarksFound, Reading!StageSound
  <2>11. Reading!FileSound'
    BY <1>0, <1>15 DEF Reading!Upload, Reading!config, Reading!marks, Reading!dials,
         Reading!FileSound, Reading!RemembersOwnMark, Reading!StageSound
  <2>12. QED
    BY <2>1, <2>2, <2>3, <2>4, <2>5, <2>6, <2>7, <2>8, <2>9, <2>10, <2>11 DEF Reading!Inductive,
         Reading!TypeOK, Reading!RecognitionTrue
<1>16. CASE Reading!Restart
  <2>1. Reading!ReaderTypes'
    BY <1>0, <1>16 DEF Reading!Restart, Reading!Valid, Reading!TypeOf, Reading!NoPieces,
         Reading!NoResults, Reading!ReaderTypes, Reading!Models
  <2>2. Reading!MarkTypes'
    <3>1. /\ \/ saved' = saved /\ doubt' = doubt \cap {"cut"}
             \/ doubt' = {"cut"} /\ saved' \in Reading!CutShort(fast)
          /\ fast' = IF setup.algo = "off" THEN Reading!NoMarks ELSE Reading!Remembered(saved', Reading!NoMarks)
          /\ found' = Reading!NoMarks /\ okay' = FALSE /\ UNCHANGED <<template, place>>
      BY <1>16 DEF Reading!Restart
    <3>2. /\ Reading!NoMarks \in [Reading!Marks -> Reading!MaybeUnset(Window[1] \cup Window[2])]
          /\ \A m \in Reading!Marks : Reading!NoMarks[m] \in Reading!MaybeUnset(Window[m])
      BY DEF Reading!NoMarks, Reading!Marks, Reading!MaybeUnset
    <3>3. \A text \in Reading!CutShort(fast) : Reading!Remembers(text)
      BY <1>0, WrittenRemembers DEF Reading!MarkTypes
    <3>4. saved' = Unset \/ Reading!Remembers(saved)'
      BY <1>0, <3>1, <3>3 DEF Reading!MarkTypes, Reading!Remembers
    <3>5. saved' = Unset \/ Reading!Remembers(saved')
      BY <3>4 DEF Reading!Remembers
    <3>6. Reading!Remembered(saved', Reading!NoMarks) \in [Reading!Marks -> Reading!MaybeUnset(Window[1] \cup Window[2])]
      BY <3>2, <3>5, RememberedMarks
    <3>7. fast' \in [Reading!Marks -> Reading!MaybeUnset(Window[1] \cup Window[2])]
      BY <3>1, <3>2, <3>6
    <3>8. QED
      BY <1>0, <3>1, <3>2, <3>4, <3>7 DEF Reading!MarkTypes
  <2>3. Reading!DialTypes'
    BY <1>0, <1>16 DEF Reading!Restart, Reading!Valid, Reading!TypeOf, Reading!NoPieces,
         Reading!NoResults, Reading!DialTypes, Reading!Seen, Reading!RecognitionAssumption
  <2>4. Reading!ReadFromOwnPicture'
    BY <1>0, <1>16 DEF Reading!Restart, Reading!Valid, Reading!TypeOf, Reading!NoPieces,
         Reading!NoResults, Reading!ReadFromOwnPicture, Reading!Rested, Reading!StageSound,
         Reading!PiecesSound
  <2>5. Reading!CutWhereMarked'
    BY <1>0, <1>16 DEF Reading!Restart, Reading!Valid, Reading!TypeOf, Reading!NoPieces,
         Reading!NoResults, Reading!CutWhereMarked, Reading!Rested, Reading!StageSound,
         Reading!PiecesSound
  <2>6. Reading!AllDialsOrNone'
    BY <1>0, <1>16 DEF Reading!Restart, Reading!Valid, Reading!TypeOf, Reading!NoPieces,
         Reading!NoResults, Reading!AllDialsOrNone, Reading!Rested, Reading!StageSound,
         Reading!PiecesSound
  <2>7. Reading!RemembersOwnMark'
    <3>1. /\ \/ saved' = saved /\ doubt' = doubt \cap {"cut"}
             \/ doubt' = {"cut"} /\ saved' \in Reading!CutShort(fast)
          /\ fast' = IF setup.algo = "off" THEN Reading!NoMarks ELSE Reading!Remembered(saved', Reading!NoMarks)
          /\ found' = Reading!NoMarks /\ okay' = FALSE /\ UNCHANGED <<template, place>>
      BY <1>16 DEF Reading!Restart
    <3>2. /\ Reading!NoMarks \in [Reading!Marks -> Reading!MaybeUnset(Window[1] \cup Window[2])]
          /\ \A m \in Reading!Marks : Reading!NoMarks[m] \in Reading!MaybeUnset(Window[m])
      BY DEF Reading!NoMarks, Reading!Marks, Reading!MaybeUnset
    <3>3. ASSUME "cut" \notin doubt', NEW m \in Reading!Marks PROVE fast'[m] \in Reading!MaybeUnset(Window[m])
      <4>1. saved' = saved /\ "cut" \notin doubt
        BY <3>1, <3>3
      <4>2. CASE saved # Unset /\ setup.algo # "off"
        <5>1. /\ saved \in [Reading!Marks -> Reading!MaybeUnset(Window[1] \cup Window[2])]
              /\ saved[m] \in Reading!MaybeUnset(Window[m])
          BY <1>0, <4>1, <4>2 DEF Reading!FileSound
        <5>2. Reading!Remembered(saved, Reading!NoMarks) = saved
          BY <4>2, <5>1, WholeFile
        <5>3. QED
          BY <3>1, <4>1, <4>2, <5>1, <5>2
      <4>3. CASE ~(saved # Unset /\ setup.algo # "off")
        <5>1. fast' = Reading!NoMarks
          BY <3>1, <4>1, <4>3 DEF Reading!Remembered
        <5>2. QED
          BY <3>2, <5>1
      <4>4. QED
        BY <4>2, <4>3
    <3>4. QED
      BY <3>1, <3>3 DEF Reading!RemembersOwnMark, Reading!Rested
  <2>8. Reading!StageSound'
    BY <1>0, <1>16 DEF Reading!Restart, Reading!Valid, Reading!TypeOf, Reading!NoPieces,
         Reading!NoResults, Reading!StageSound
  <2>9. Reading!PiecesSound'
    BY <1>0, <1>16 DEF Reading!Restart, Reading!Valid, Reading!TypeOf, Reading!NoPieces,
         Reading!NoResults, Reading!PiecesSound, Reading!StageSound, Reading!MarksFound
  <2>10. Reading!MarksFound'
    BY <1>0, <1>16 DEF Reading!Restart, Reading!Valid, Reading!TypeOf, Reading!NoPieces,
         Reading!NoResults, Reading!MarksFound, Reading!StageSound
  <2>11. Reading!FileSound'
    BY <1>0, <1>16 DEF Reading!Restart, Reading!Valid, Reading!TypeOf, Reading!NoPieces,
         Reading!NoResults, Reading!FileSound, Reading!RemembersOwnMark, Reading!StageSound
  <2>12. QED
    BY <2>1, <2>2, <2>3, <2>4, <2>5, <2>6, <2>7, <2>8, <2>9, <2>10, <2>11 DEF Reading!Inductive,
         Reading!TypeOK, Reading!RecognitionTrue
<1>17. CASE Reading!LoadsLeftover
  <2>1. Reading!ReaderTypes'
    BY <1>0, <1>17 DEF Reading!LoadsLeftover, Reading!config, Reading!card, Reading!dials, Reading!ReaderTypes, Reading!Models
  <2>2. Reading!MarkTypes'
    <3>1. /\ \E p \in Reading!MaybeUnset(Window[1] \cup Window[2]) : fast' = <<p, p>>
          /\ UNCHANGED <<template, saved, found, place>>
      BY <1>17 DEF Reading!LoadsLeftover, Reading!card
    <3>2. fast' \in [Reading!Marks -> Reading!MaybeUnset(Window[1] \cup Window[2])]
      BY <3>1 DEF Reading!Marks
    <3>3. Reading!Remembers(saved)' <=> Reading!Remembers(saved)
      BY <3>1 DEF Reading!Remembers
    <3>4. QED
      BY <1>0, <3>1, <3>2, <3>3 DEF Reading!MarkTypes
  <2>3. Reading!DialTypes'
    BY <1>0, <1>17 DEF Reading!LoadsLeftover, Reading!config, Reading!card, Reading!dials, Reading!DialTypes, Reading!Seen,
         Reading!RecognitionAssumption
  <2>4. Reading!ReadFromOwnPicture'
    BY <1>0, <1>17 DEF Reading!LoadsLeftover, Reading!config, Reading!card, Reading!dials,
         Reading!ReadFromOwnPicture, Reading!Rested, Reading!StageSound, Reading!PiecesSound
  <2>5. Reading!CutWhereMarked'
    BY <1>0, <1>17 DEF Reading!LoadsLeftover, Reading!config, Reading!card, Reading!dials,
         Reading!CutWhereMarked, Reading!Rested, Reading!StageSound, Reading!PiecesSound
  <2>6. Reading!AllDialsOrNone'
    BY <1>0, <1>17 DEF Reading!LoadsLeftover, Reading!config, Reading!card, Reading!dials,
         Reading!AllDialsOrNone, Reading!Rested, Reading!StageSound, Reading!PiecesSound
  <2>7. Reading!RemembersOwnMark'
    <3>1. saved = << >> /\ stage' = "cut" /\ UNCHANGED doubt
      BY <1>17 DEF Reading!LoadsLeftover
    <3>2. << >> \notin [Reading!Marks -> Reading!MaybeUnset(Window[1] \cup Window[2])] /\ Unset # << >>
      BY DEF Reading!Marks, Reading!RecognitionAssumption
    <3>3. "cut" \in doubt'
      BY <1>0, <3>1, <3>2 DEF Reading!FileSound
    <3>4. QED
      BY <3>1, <3>3 DEF Reading!RemembersOwnMark, Reading!Rested
  <2>8. Reading!StageSound'
    BY <1>0, <1>17 DEF Reading!LoadsLeftover, Reading!config, Reading!card, Reading!dials, Reading!StageSound
  <2>9. Reading!PiecesSound'
    BY <1>0, <1>17 DEF Reading!LoadsLeftover, Reading!config, Reading!card, Reading!dials, Reading!PiecesSound,
         Reading!StageSound, Reading!MarksFound
  <2>10. Reading!MarksFound'
    BY <1>0, <1>17 DEF Reading!LoadsLeftover, Reading!config, Reading!card, Reading!dials, Reading!MarksFound,
         Reading!StageSound
  <2>11. Reading!FileSound'
    <3>1. saved = << >> /\ UNCHANGED <<saved, doubt>>
      BY <1>17 DEF Reading!LoadsLeftover, Reading!card
    <3>2. QED
      BY <1>0, <3>1 DEF Reading!FileSound
  <2>12. QED
    BY <2>1, <2>2, <2>3, <2>4, <2>5, <2>6, <2>7, <2>8, <2>9, <2>10, <2>11 DEF Reading!Inductive,
         Reading!TypeOK, Reading!RecognitionTrue
<1>18. QED
  BY <1>1, <1>2, <1>3, <1>4, <1>5, <1>6, <1>7, <1>8, <1>9, <1>10, <1>11, <1>12, <1>13, <1>14,
       <1>15, <1>16, <1>17 DEF Reading!Next

\* So does every step, or none.
LEMMA RecognitionStepInductive ==
  Reading!RecognitionAssumption /\ Reading!Inductive /\ [Reading!Next]_Reading!vars => Reading!Inductive'
<1> SUFFICES ASSUME Reading!RecognitionAssumption, Reading!Inductive, [Reading!Next]_Reading!vars PROVE Reading!Inductive'
  OBVIOUS
<1>1. CASE UNCHANGED Reading!vars
  <2>0. /\ Reading!ReaderTypes /\ Reading!MarkTypes /\ Reading!DialTypes
        /\ Reading!ReadFromOwnPicture /\ Reading!CutWhereMarked /\ Reading!AllDialsOrNone /\ Reading!RemembersOwnMark
        /\ Reading!StageSound /\ Reading!PiecesSound /\ Reading!MarksFound /\ Reading!FileSound
    BY DEF Reading!Inductive, Reading!TypeOK, Reading!RecognitionTrue
  <2>1. Reading!ReaderTypes'
    BY <1>1, <2>0 DEF Reading!vars, Reading!config, Reading!card, Reading!marks, Reading!dials,
         Reading!ReaderTypes, Reading!Models
  <2>2. Reading!MarkTypes'
    BY <1>1, <2>0 DEF Reading!vars, Reading!config, Reading!card, Reading!marks, Reading!dials,
         Reading!MarkTypes
  <2>3. Reading!DialTypes'
    BY <1>1, <2>0 DEF Reading!vars, Reading!config, Reading!card, Reading!marks, Reading!dials,
         Reading!DialTypes
  <2>4. Reading!ReadFromOwnPicture'
    BY <1>1, <2>0 DEF Reading!vars, Reading!config, Reading!card, Reading!marks, Reading!dials,
         Reading!ReadFromOwnPicture, Reading!Rested
  <2>5. Reading!CutWhereMarked'
    BY <1>1, <2>0 DEF Reading!vars, Reading!config, Reading!card, Reading!marks, Reading!dials,
         Reading!CutWhereMarked, Reading!Rested
  <2>6. Reading!AllDialsOrNone'
    BY <1>1, <2>0 DEF Reading!vars, Reading!config, Reading!card, Reading!marks, Reading!dials,
         Reading!AllDialsOrNone, Reading!Rested
  <2>7. Reading!RemembersOwnMark'
    BY <1>1, <2>0 DEF Reading!vars, Reading!config, Reading!card, Reading!marks, Reading!dials,
         Reading!RemembersOwnMark, Reading!Rested
  <2>8. Reading!StageSound'
    BY <1>1, <2>0 DEF Reading!vars, Reading!config, Reading!card, Reading!marks, Reading!dials,
         Reading!StageSound
  <2>9. Reading!PiecesSound'
    BY <1>1, <2>0 DEF Reading!vars, Reading!config, Reading!card, Reading!marks, Reading!dials,
         Reading!PiecesSound
  <2>10. Reading!MarksFound'
    BY <1>1, <2>0 DEF Reading!vars, Reading!config, Reading!card, Reading!marks, Reading!dials,
         Reading!MarksFound
  <2>11. Reading!FileSound'
    BY <1>1, <2>0 DEF Reading!vars, Reading!config, Reading!card, Reading!marks, Reading!dials,
         Reading!FileSound
  <2>12. QED
    BY <2>1, <2>2, <2>3, <2>4, <2>5, <2>6, <2>7, <2>8, <2>9, <2>10, <2>11 DEF Reading!Inductive,
         Reading!TypeOK, Reading!RecognitionTrue
<1>2. QED
  BY <1>1, RecognitionStepKeeps

-----------------------------------------------------------------------------
(* The daily files: a line is in the file of its day                       *)

\* Of some numbers one is the least.
LEMMA LogLeast ==
  ASSUME NEW S \in SUBSET Nat, S # {}
  PROVE  \E m \in S : \A k \in S : m <= k
<1>1. PICK m \in S : \A k \in S : ~(<<k, m>> \in OpToRel(<, Nat))
  BY NatLessThanWellFounded, WFMin
<1>2. \A k \in S : <<k, m>> \in Nat \X Nat /\ <<k, m>>[1] = k /\ <<k, m>>[2] = m
  OBVIOUS
<1>3. \A k \in S : ~(k < m)
  BY <1>1, <1>2, Zenon DEF OpToRel
<1>4. QED
  BY <1>3

\* A function of nothing.
LEMMA LogNothing == ASSUME NEW g PROVE Log!Restrict(g, {}) = <<>>
  BY DEF Log!Restrict

\* The clock is set or far from it, and days are as they should be.
LEMMA LogTime ==
  ASSUME Log!LogsAssumption, Log!TypeOK, Log!TasksSound
  PROVE  /\ Log!IsSet <=> clock >= Log!Begins
         /\ clock \in Int /\ shift \in Int /\ Log!Local \in Int /\ Log!Day(Log!Local) \in Log!Days
<1>1. /\ Today \in Nat /\ Halves \in Nat /\ Today > Halves + 1
      /\ last \in Int /\ clock \in Int /\ 0 <= clock /\ clock <= last /\ last <= 2 * Today + 1 + Halves
      /\ shift \in {-1, 0, 1} /\ (clock <= Halves \/ clock >= 2 * Today + 1)
  BY DEF Log!LogsAssumption, Log!TypeOK, Log!TasksSound, Log!Begins, Log!Ends
<1>2. Log!IsSet <=> clock >= Log!Begins
  BY <1>1 DEF Log!IsSet, Log!Day, Log!Begins
<1>3. Log!Local \in Int /\ -1 <= Log!Local /\ Log!Local <= 2 * Today + 2 + Halves
  BY <1>1 DEF Log!Local
<1>4. Log!Day(Log!Local) \in Log!Days
  BY <1>1, <1>3 DEF Log!Day, Log!Days
<1>5. QED
  BY <1>1, <1>2, <1>3, <1>4

\* What was old enough to be removed stays so when the clock goes on.
LEMMA LogSpared ==
  ASSUME Log!LogsAssumption, clock \in Int, clock' \in Int, clock <= clock', shift \in Int, shift' = shift,
         NEW day \in Int, Log!Spared(day)
  PROVE  Log!Spared(day)'
<1> DEFINE now == clock + shift  then == clock' + shift'
<1>0. ASSUME NEW a \in Int, NEW b \in Int, a <= b
      PROVE  /\ a \div 2 \in Int /\ b \div 2 \in Int /\ a \div 2 <= b \div 2
             /\ a % 2 = 1 /\ a < b => a \div 2 < b \div 2
             /\ a = b \/ a < b
  BY <1>0
<1>a. now \in Int /\ then \in Int /\ now <= then
  <2>1. shift' \in Int
    OBVIOUS
  <2>2. now \in Int /\ then \in Int
    BY <2>1
  <2>3. ASSUME NEW a \in Int, NEW b \in Int, NEW s \in Int, a <= b PROVE a + s <= b + s
    BY <2>3
  <2>4. clock \in Int /\ clock' \in Int /\ shift \in Int /\ clock <= clock'
    OBVIOUS
  <2>5. clock + shift <= clock' + shift
    BY <2>3, <2>4
  <2>6. QED
    BY <2>1, <2>2, <2>5
<1>b. Retention \in Nat /\ Winter \in Nat
  BY DEF Log!LogsAssumption
<1>1. /\ now \div 2 \in Int /\ then \div 2 \in Int /\ now \div 2 <= then \div 2
      /\ now % 2 = 1 /\ now < then => now \div 2 < then \div 2
      /\ now = then \/ now < then
  BY <1>0, <1>a
<1>2. /\ Log!Day(Log!Local) = now \div 2 /\ Log!Local % 2 = now % 2
      /\ Log!Day(Log!Local)' = then \div 2 /\ (Log!Local % 2)' = then % 2
  BY DEF Log!Day, Log!Local
<1> HIDE DEF now, then
<1>4. CASE day <= Log!Day(Log!Local) - Retention + 1
  BY <1>1, <1>2, <1>4, <1>b DEF Log!Spared
<1>5. CASE /\ day = Log!Day(Log!Local) - Retention + 2
           /\ Log!Local % 2 = 1 /\ Log!Day(Log!Local) >= Winter /\ day - 1 < Winter
  <2>1. CASE now = then
    BY <1>1, <1>2, <1>5, <1>b, <2>1 DEF Log!Spared
  <2>2. CASE now < then
    BY <1>1, <1>2, <1>5, <1>b, <2>2 DEF Log!Spared
  <2>3. QED
    BY <1>1, <2>1, <2>2
<1>6. QED
  BY <1>4, <1>5 DEF Log!Spared

\* A task goes on to its next step.
LEMMA LogGoes ==
  ASSUME Log!TasksSound, NEW t \in Log!Tasks, NEW to \in Log!Steps, Log!Goes(t, to)
  PROVE  /\ task' \in [Log!Tasks -> [at : Log!Steps, day : Int \union {None}, view : BOOLEAN]]
         /\ task'[t].at = to /\ task'[t].day = task[t].day /\ task'[t].view = task[t].view
         /\ \A u \in Log!Tasks \ {t} : task'[u] = task[u]
<1>1. task' = [task EXCEPT ![t].at = to]
  BY DEF Log!Goes
<1>2. task[t] \in [at : Log!Steps, day : Int \union {None}, view : BOOLEAN]
  BY DEF Log!TasksSound
<1>3. task'[t] = [task[t] EXCEPT !.at = to]
  BY <1>1 DEF Log!TasksSound
<1>4. QED
  BY <1>1, <1>2, <1>3 DEF Log!TasksSound

\* A task that has closed the log is done with it, or reads it.
LEMMA LogClosed ==
  ASSUME Log!TasksSound, NEW t \in Log!Tasks, Log!Closed(t)
  PROVE  /\ task' \in [Log!Tasks -> [at : Log!Steps, day : Int \union {None}, view : BOOLEAN]]
         /\ task[t].view => task'[t].at = "read" /\ task'[t].day = task[t].day /\ task'[t].view
         /\ ~task[t].view => task'[t].at = "idle" /\ ~task'[t].view
         /\ \A u \in Log!Tasks \ {t} : task'[u] = task[u]
<1>1. task[t] \in [at : Log!Steps, day : Int \union {None}, view : BOOLEAN]
  BY DEF Log!TasksSound
<1>2. Log!Idle \in [at : Log!Steps, day : Int \union {None}, view : BOOLEAN] /\ Log!Idle.at = "idle" /\ ~Log!Idle.view
  BY DEF Log!Idle, Log!Steps
<1>3. task' = [task EXCEPT ![t] = IF task[t].view THEN [task[t] EXCEPT !.at = "read"] ELSE Log!Idle]
  BY DEF Log!Closed
<1>4. "read" \in Log!Steps
  BY DEF Log!Steps
<1>5. QED
  BY <1>1, <1>2, <1>3, <1>4 DEF Log!TasksSound

\* While no two tasks have met, the others leave the log alone.
LEMMA LogAlone ==
  ASSUME Log!HandleSound, Log!TasksSound, ~overlapped, NEW t \in Log!Tasks, Log!Busy(t)
  PROVE  \A u \in Log!Tasks \ {t} : task[u].at \in {"idle", "clean"}
  BY DEF Log!HandleSound, Log!Busy, Log!Tasks

\* One task may be busy.
LEMMA LogOneBusy ==
  ASSUME NEW t \in Log!Tasks, \A u \in Log!Tasks \ {t} : task'[u].at \in {"idle", "clean"},
         \/ wrong' = {}
         \/ wrong' = {"hung"} /\ task'["web"].at = "hung" /\ task'["web"].day \in refused',
         main' # "crashed", ~Log!Busy(t)' => Log!NoneOpen', Log!Holds(t)'
  PROVE  Log!HandleSound'
<1>1. \A u \in Log!Tasks \ {t} : ~Log!Busy(u)' /\ Log!Holds(u)'
  BY DEF Log!Busy, Log!Holds
<1>2. QED
  BY <1>1 DEF Log!HandleSound, Log!Tasks

\* Nothing is written when the device starts.
LEMMA LogInitInductive == Log!LogsAssumption /\ Log!Init => Log!Inductive
<1> SUFFICES ASSUME Log!LogsAssumption, Log!Init PROVE Log!Inductive
  OBVIOUS
<1> USE DEF Log!Init
<1>1. \A t \in Log!Tasks : task[t] = Log!Idle
  OBVIOUS
<1>2. Log!Idle.at = "idle" /\ ~Log!Idle.view /\ "flow" \in Log!Tasks /\ "web" \in Log!Tasks
      /\ Log!Idle \in [at : Log!Steps, day : Int \union {None}, view : BOOLEAN] /\ Log!Idle.view \in BOOLEAN
  BY DEF Log!Idle, Log!Tasks, Log!Steps
<1>3. Log!TypeOK
  <2>1. last \in Log!Begins .. Log!Ends /\ clock \in 0 .. last /\ runs \in 0 .. Runs /\ lines \in 0 .. LogLines
    BY DEF Log!LogsAssumption, Log!Begins, Log!Ends
  <2>2. DOMAIN open \subseteq 1 .. MaxFiles
    OBVIOUS
  <2>3. QED
    BY <1>1, <1>2, <2>1, <2>2 DEF Log!TypeOK
<1>4. Log!TasksSound
  BY <1>1, <1>2 DEF Log!LogsAssumption, Log!TasksSound, Log!Busy
<1>5. Log!RemovalSound /\ Log!EarlyKept
  BY <1>1, <1>2 DEF Log!RemovalSound, Log!EarlyKept
<1>6. Log!HandleSound
  BY <1>1, <1>2 DEF Log!HandleSound, Log!Busy, Log!NoneOpen, Log!Written, Log!Holds
<1>7. QED
  BY <1>3, <1>4, <1>5, <1>6 DEF Log!Inductive

\* The clock goes on or is set, while no task takes a step.
LEMMA LogClockKeeps ==
  ASSUME Log!LogsAssumption, Log!Inductive,
         UNCHANGED <<shift, zone, unset, main, runs, lines, files, filled, early, refused, kind, logging, task, handle, open,
                     overlapped, wrong>>,
         clock <= clock', clock' \in 0 .. last', last' \in Log!Begins .. Log!Ends,
         clock' <= Halves \/ clock' >= Log!Begins
  PROVE  Log!Inductive'
<1> USE DEF Log!Inductive
<1>1. Log!TypeOK'
  BY DEF Log!TypeOK, Log!Begins, Log!Ends
<1>2. Log!TasksSound'
  BY DEF Log!TasksSound, Log!Busy, Log!Begins
<1>3. Log!RemovalSound'
  <2>1. clock \in Int /\ shift \in Int
    BY LogTime
  <2>2. last' \in Int
    BY DEF Log!LogsAssumption, Log!Begins, Log!Ends
  <2>3. clock' \in Int
    BY <2>2
  <2>4. QED
    BY <2>1, <2>3, LogSpared DEF Log!RemovalSound
<1>4. Log!EarlyKept'
  BY DEF Log!EarlyKept
<1>5. Log!HandleSound'
  BY DEF Log!HandleSound, Log!Busy, Log!Holds, Log!NoneOpen, Log!Written, Log!OpenFor
<1>6. QED
  BY <1>1, <1>2, <1>3, <1>4, <1>5

\* Half a day passes.
LEMMA LogHalfDayKeeps == Log!LogsAssumption /\ Log!Inductive /\ Log!HalfDayPasses => Log!Inductive'
<1> SUFFICES ASSUME Log!LogsAssumption, Log!Inductive, Log!HalfDayPasses PROVE Log!Inductive'
  OBVIOUS
<1>1. /\ Today \in Nat /\ Halves \in Nat /\ Today > Halves + 1
      /\ last \in Int /\ Log!Begins <= last /\ last <= Log!Ends /\ clock \in Int /\ 0 <= clock /\ clock <= last
      /\ Log!Begins = 2 * Today + 1 /\ Log!Ends \in Int
  BY DEF Log!LogsAssumption, Log!Inductive, Log!TypeOK, Log!Begins, Log!Ends
<1>2. Log!IsSet <=> clock >= Log!Begins
  BY LogTime DEF Log!Inductive
<1>3. /\ UNCHANGED <<shift, zone, unset, main, runs, lines, files, filled, early, refused, kind, logging, task, handle, open,
                     overlapped, wrong>>
      /\ clock' = clock + 1
  BY DEF Log!HalfDayPasses, Log!daily, Log!kept, Log!shared
<1>4. CASE Log!IsSet
  <2>1. clock' <= Log!Ends /\ last' = clock'
    BY <1>4 DEF Log!HalfDayPasses
  <2>2. /\ clock <= clock' /\ clock' \in 0 .. last' /\ last' \in Log!Begins .. Log!Ends /\ clock' >= Log!Begins
    BY <1>1, <1>2, <1>3, <1>4, <2>1
  <2>3. QED
    BY <1>3, <2>2, LogClockKeeps
<1>5. CASE ~Log!IsSet
  <2>1. clock' <= Halves /\ last' = last
    BY <1>5 DEF Log!HalfDayPasses
  <2>2. /\ clock <= clock' /\ clock' \in 0 .. last' /\ last' \in Log!Begins .. Log!Ends
    BY <1>1, <1>3, <2>1
  <2>3. QED
    BY <1>3, <2>1, <2>2, LogClockKeeps
<1>6. QED
  BY <1>4, <1>5

\* The time server answers.
LEMMA LogTimeSyncKeeps == Log!LogsAssumption /\ Log!Inductive /\ Log!TimeSync => Log!Inductive'
<1> SUFFICES ASSUME Log!LogsAssumption, Log!Inductive, Log!TimeSync PROVE Log!Inductive'
  OBVIOUS
<1>1. /\ last \in Int /\ Log!Begins <= last /\ clock \in Int /\ clock <= last /\ 0 <= clock
      /\ Log!Begins \in Int /\ Log!Ends \in Int
  BY DEF Log!LogsAssumption, Log!Inductive, Log!TypeOK, Log!Begins, Log!Ends
<1>2. /\ UNCHANGED <<shift, zone, unset, main, runs, lines, files, filled, early, refused, kind, logging, task, handle, open,
                     overlapped, wrong>>
      /\ clock' \in last .. Log!Ends /\ last' = clock'
  BY DEF Log!TimeSync, Log!daily, Log!kept, Log!shared
<1>3. clock <= clock' /\ clock' \in 0 .. last' /\ last' \in Log!Begins .. Log!Ends /\ clock' >= Log!Begins
  BY <1>1, <1>2
<1>4. QED
  BY <1>2, <1>3, LogClockKeeps

\* Once the time zone is set, it is known whether the time was.
LEMMA LogSetupKeeps == Log!LogsAssumption /\ Log!Inductive /\ Log!SetupTime => Log!Inductive'
<1> SUFFICES ASSUME Log!LogsAssumption, Log!Inductive, Log!SetupTime PROVE Log!Inductive'
  OBVIOUS
<1>1. /\ UNCHANGED <<last, clock, zone, runs, lines, files, filled, early, refused, kind, logging, task, handle, open,
                     overlapped, wrong>>
      /\ main = "starts" /\ main' = "up" /\ shift' = zone /\ unset' \in BOOLEAN
  BY DEF Log!SetupTime, Log!daily, Log!kept, Log!shared
<1> USE DEF Log!Inductive
<1>2. Log!TypeOK'
  BY <1>1 DEF Log!TypeOK, Log!TasksSound, Log!Begins, Log!Ends
<1>3. Log!TasksSound'
  BY <1>1 DEF Log!TasksSound, Log!Busy, Log!Begins
<1>4. Log!RemovalSound'
  BY <1>1 DEF Log!RemovalSound
<1>5. Log!EarlyKept'
  BY <1>1 DEF Log!EarlyKept
<1>6. Log!HandleSound'
  BY <1>1 DEF Log!HandleSound, Log!Busy, Log!Holds, Log!NoneOpen, Log!Written, Log!OpenFor
<1>7. QED
  BY <1>2, <1>3, <1>4, <1>5, <1>6

\* A start finds no file open, and the files as they are.
LEMMA LogStartsKeeps == Log!LogsAssumption /\ Log!Inductive /\ wrong = {} /\ Log!Starts => Log!Inductive'
<1> SUFFICES ASSUME Log!LogsAssumption, Log!Inductive, wrong = {}, Log!Starts PROVE Log!Inductive'
  OBVIOUS
<1>1. /\ UNCHANGED <<last, zone, lines, files, filled, refused, kind, wrong>>
      /\ runs < Runs /\ runs' = runs + 1 /\ clock' \in {clock, 0} /\ shift' = 0 /\ unset' = FALSE /\ main' = "starts"
      /\ early' = FALSE /\ logging' = TRUE /\ handle' = None /\ open' = <<>>
      /\ ~overlapped /\ overlapped' = (open # <<>>) /\ \A t \in Log!Tasks : task'[t] = Log!Idle
      /\ task' = [t \in Log!Tasks |-> Log!Idle]
  BY DEF Log!Starts
<1>2. Log!Idle.at = "idle" /\ ~Log!Idle.view /\ "flow" \in Log!Tasks /\ "web" \in Log!Tasks
      /\ Log!Idle \in [at : Log!Steps, day : Int \union {None}, view : BOOLEAN]
  BY DEF Log!Idle, Log!Tasks, Log!Steps
<1> USE DEF Log!Inductive
<1>3. Log!TypeOK'
  <2>1. DOMAIN open' \subseteq 1 .. MaxFiles
    BY <1>1
  <2>2. clock' \in 0 .. last' /\ runs' \in 0 .. Runs /\ overlapped' \in BOOLEAN
    BY <1>1 DEF Log!TypeOK, Log!LogsAssumption, Log!Begins, Log!Ends
  <2>3. QED
    BY <1>1, <1>2, <2>1, <2>2 DEF Log!TypeOK, Log!Begins, Log!Ends
<1>4. Log!TasksSound'
  BY <1>1, <1>2 DEF Log!TasksSound, Log!Busy, Log!Begins, Log!LogsAssumption
<1>5. Log!RemovalSound' /\ Log!EarlyKept'
  BY <1>1, <1>2 DEF Log!RemovalSound, Log!EarlyKept
<1>6. Log!HandleSound'
  <2>0. \A t \in Log!Tasks : task[t].at = "hung" => Log!NoneOpen
    BY <1>1 DEF Log!HandleSound, Log!Holds
  <2>1. SUFFICES ASSUME open = <<>> PROVE Log!Written
    BY <1>1, <1>2 DEF Log!HandleSound, Log!Busy, Log!Holds, Log!NoneOpen, Log!Written
  <2>2. \A t \in Log!Tasks : ~Log!OpenFor(t)
    BY <2>1 DEF Log!OpenFor
  <2>3. CASE \A t \in Log!Tasks : ~Log!Busy(t)
    BY <1>1, <2>0, <2>3 DEF Log!HandleSound, Log!NoneOpen, Log!Written, Log!Busy, Log!Tasks
  <2>4. CASE \E t \in Log!Tasks : Log!Busy(t)
    <3>1. PICK t \in Log!Tasks : Log!Busy(t)
      BY <2>4
    <3>2. Log!Holds(t) /\ ~Log!OpenFor(t)
      BY <1>1, <2>2 DEF Log!HandleSound
    <3>3. task[t].at \in Log!Steps
      BY DEF Log!TasksSound
    <3>4. QED
      BY <2>0, <3>1, <3>2, <3>3 DEF Log!Holds, Log!NoneOpen, Log!Written, Log!Busy, Log!Steps
  <2>5. QED
    BY <2>3, <2>4
<1>7. QED
  BY <1>3, <1>4, <1>5, <1>6

\* Who begins to use the log has it to itself, or another is busy with it.
LEMMA LogBegins ==
  ASSUME Log!LogsAssumption, Log!Inductive, NEW t \in Log!Tasks, task[t].at = "idle", Log!Overlap(t),
         NEW to \in {"open", "check"}, NEW view \in BOOLEAN, view <=> to = "check",
         view => t = "web", kind = "log", main # "crashed",
         task' = [task EXCEPT ![t] = [at |-> to, day |-> Log!Day(Log!Local), view |-> view]],
         lines < LogLines, lines' = lines + 1,
         UNCHANGED <<last, clock, shift, zone, unset, runs, kind, logging, main, files, filled, early, refused,
                     handle, open, wrong>>
  PROVE  Log!Inductive'
<1> USE DEF Log!Inductive
<1>1. Log!Day(Log!Local) \in Log!Days /\ Log!Day(Log!Local) \in Int
  BY LogTime DEF Log!Days, Log!LogsAssumption
<1>2. /\ task'[t] = [at |-> to, day |-> Log!Day(Log!Local), view |-> view]
      /\ \A u \in Log!Tasks \ {t} : task'[u] = task[u]
      /\ task' \in [Log!Tasks -> [at : Log!Steps, day : Int \union {None}, view : BOOLEAN]]
  <2>1. [at |-> to, day |-> Log!Day(Log!Local), view |-> view] \in [at : Log!Steps, day : Int \union {None}, view : BOOLEAN]
    BY <1>1 DEF Log!Steps
  <2>2. QED
    BY <2>1 DEF Log!TasksSound
<1>3. overlapped' \in BOOLEAN /\ (~overlapped' => ~overlapped /\ \A u \in Log!Tasks \ {t} : task[u].at \in {"idle", "clean"})
  BY DEF Log!Overlap, Log!TypeOK
<1>4. Log!TypeOK'
  BY <1>2, <1>3 DEF Log!TypeOK, Log!Tasks, Log!Begins, Log!Ends, Log!LogsAssumption
<1>5. Log!TasksSound'
  <2>1. \A u \in Log!Tasks : Log!Busy(u)' => task'[u].day \in Log!Days
    BY <1>1, <1>2 DEF Log!TasksSound, Log!Busy
  <2>2. task'["flow"].at \notin {"read", "hung"} /\ ~task'["flow"].view /\ task'["web"].at # "clean"
    BY <1>2 DEF Log!TasksSound, Log!Tasks
  <2>3. QED
    BY <1>2, <2>1, <2>2 DEF Log!TasksSound, Log!Begins
<1>6. Log!RemovalSound' /\ Log!EarlyKept'
  BY <1>2 DEF Log!RemovalSound, Log!EarlyKept, Log!Spared, Log!Local, Log!Tasks
<1>7. Log!HandleSound'
  <2>1. SUFFICES ASSUME ~overlapped' PROVE Log!HandleSound'
    BY DEF Log!HandleSound
  <2>2. \A u \in Log!Tasks : ~Log!Busy(u)
    BY <1>3, <2>1 DEF Log!Busy
  <2>3. Log!NoneOpen' /\ wrong' = {} /\ main' # "crashed"
    BY <1>3, <2>1, <2>2 DEF Log!HandleSound, Log!NoneOpen, Log!Written, Log!Busy, Log!Tasks
  <2>4. Log!Holds(t)'
    BY <1>2, <2>3 DEF Log!Holds
  <2>5. \A u \in Log!Tasks \ {t} : task'[u].at \in {"idle", "clean"}
    BY <1>2, <1>3, <2>1
  <2>6. QED
    BY <2>3, <2>4, <2>5, LogOneBusy
<1>8. QED
  BY <1>4, <1>5, <1>6, <1>7

\* Somebody begins to write a line, or to send the log.
LEMMA LogBeginsKeeps ==
  ASSUME Log!LogsAssumption, Log!Inductive, (\E t \in Log!Tasks : Log!WriteToFile(t)) \/ Log!SendLogfile
  PROVE  Log!Inductive'
<1>1. CASE \E t \in Log!Tasks : Log!WriteToFile(t)
  <2>1. PICK t \in Log!Tasks : Log!WriteToFile(t)
    BY <1>1
  <2>2. /\ task[t].at = "idle" /\ Log!Overlap(t) /\ kind = "log" /\ main # "crashed"
        /\ task' = [task EXCEPT ![t] = [at |-> "open", day |-> Log!Day(Log!Local), view |-> FALSE]]
        /\ lines < LogLines /\ lines' = lines + 1
        /\ UNCHANGED <<last, clock, shift, zone, unset, runs, kind, logging, main, files, filled, early, refused,
                       handle, open, wrong>>
    BY <2>1 DEF Log!WriteToFile, Log!AtStep, Log!Uses, Log!LogUnchanged, Log!time, Log!kept, Log!daily, Log!shared
  <2>3. QED
    BY <2>2, LogBegins
<1>2. CASE Log!SendLogfile
  <2>1. /\ task["web"].at = "idle" /\ Log!Overlap("web") /\ kind = "log" /\ main # "crashed"
        /\ task' = [task EXCEPT !["web"] = [at |-> "check", day |-> Log!Day(Log!Local), view |-> TRUE]]
        /\ lines < LogLines /\ lines' = lines + 1
        /\ UNCHANGED <<last, clock, shift, zone, unset, runs, kind, logging, main, files, filled, early, refused,
                       handle, open, wrong>>
        /\ "web" \in Log!Tasks
    BY <1>2 DEF Log!SendLogfile, Log!AtStep, Log!Uses, Log!LogUnchanged, Log!time, Log!kept, Log!daily, Log!shared,
       Log!Tasks
  <2>2. QED
    BY <2>1, LogBegins
<1>3. QED
  BY <1>1, <1>2

\* A busy task's step leaves the clock and what the device keeps alone.
LEMMA LogStepParts ==
  ASSUME Log!LogsAssumption, Log!Inductive, NEW t \in Log!Tasks, Log!Busy(t),
         UNCHANGED <<last, clock, shift, zone, unset, runs, kind, logging, lines, overlapped>>,
         task' \in [Log!Tasks -> [at : Log!Steps, day : Int \union {None}, view : BOOLEAN]],
         \A u \in Log!Tasks \ {t} : task'[u] = task[u],
         Log!Busy(t)' => task'[t].day = task[t].day,
         t = "flow" => task'[t].at \notin {"read", "hung"} /\ ~task'[t].view,
         task'[t].at # "clean",
         main' \in {main, "crashed"},
         handle' \in 1 .. MaxFiles \union {None}, DOMAIN open' \subseteq 1 .. MaxFiles,
         \A f \in DOMAIN open' : open'[f] \in [day : Log!Days, line : BOOLEAN],
         filled' \subseteq files', files' \subseteq Log!Days, refused' \subseteq Log!Days,
         wrong' \subseteq wrong \union {"lost", "misplaced", "hung"}
  PROVE  Log!TypeOK' /\ Log!TasksSound' /\ Log!RemovalSound'
<1> USE DEF Log!Inductive
<1>1. kind = "log"
  BY DEF Log!TasksSound
<1>2. Log!TypeOK'
  <2>1. task'["web"].at \in {"idle", "open", "put", "check", "close", "clear", "read", "hung"}
    BY DEF Log!TypeOK, Log!Tasks, Log!Steps
  <2>2. QED
    BY <2>1 DEF Log!TypeOK, Log!Days, Log!Begins, Log!Ends
<1>3. Log!TasksSound'
  <2>1. \A u \in Log!Tasks : Log!Busy(u)' => task'[u].day \in Log!Days
    BY DEF Log!TasksSound, Log!Busy
  <2>2. task'["flow"].at \notin {"read", "hung"} /\ ~task'["flow"].view /\ task'["web"].at # "clean"
    BY DEF Log!TasksSound, Log!Tasks
  <2>3. QED
    BY <1>1, <2>1, <2>2 DEF Log!TasksSound, Log!Begins
<1>4. Log!RemovalSound'
  <2>1. task'["flow"].at = "clean" => t # "flow" /\ task'["flow"] = task["flow"]
    BY DEF Log!Tasks
  <2>2. main # "starts" => main' # "starts"
    OBVIOUS
  <2>3. QED
    BY <2>1, <2>2 DEF Log!RemovalSound, Log!Spared, Log!Local
<1>5. QED
  BY <1>2, <1>3, <1>4

\* While nobody met it, a busy task is alone, and its step keeps what it has.
LEMMA LogStepHandle ==
  ASSUME Log!Inductive, NEW t \in Log!Tasks, Log!Busy(t), task[t].at # "hung", overlapped' = overlapped,
         \A u \in Log!Tasks \ {t} : task'[u] = task[u],
         Log!Holds(t) /\ ~overlapped /\ wrong = {} /\ main # "crashed" =>
           /\ \/ wrong' = {}
              \/ wrong' = {"hung"} /\ task'["web"].at = "hung" /\ task'["web"].day \in refused'
           /\ main' # "crashed" /\ (~Log!Busy(t)' => Log!NoneOpen') /\ Log!Holds(t)'
  PROVE  Log!HandleSound'
<1>1. CASE overlapped
  BY <1>1 DEF Log!HandleSound
<1>2. CASE ~overlapped
  <2>1. \A u \in Log!Tasks \ {t} : task'[u].at \in {"idle", "clean"}
    BY <1>2, LogAlone DEF Log!Inductive
  <2>2. Log!Holds(t) /\ wrong \subseteq {"hung"} /\ main # "crashed"
        /\ ("hung" \in wrong => task["web"].at = "hung")
    BY <1>2 DEF Log!Inductive, Log!HandleSound
  <2>3. task["web"].at # "hung"
    BY <1>2, LogAlone DEF Log!Inductive, Log!Tasks
  <2>4. wrong = {}
    BY <2>2, <2>3
  <2>5. QED
    BY <1>2, <2>1, <2>2, <2>4, LogOneBusy
<1>3. QED
  BY <1>1, <1>2

\* The file of the day is opened, unless too many are or the card refuses.
LEMMA LogOpensKeeps ==
  ASSUME Log!LogsAssumption, Log!Inductive, NEW t \in Log!Tasks, Log!Opens(t)
  PROVE  Log!Inductive'
<1> DEFINE free == 1 .. MaxFiles \ DOMAIN open
           new == CHOOSE f \in free : \A g \in free : f <= g
<1> USE DEF Log!Inductive
<1>1. /\ task[t].at = "open" /\ main # "crashed" /\ Log!Busy(t)
      /\ UNCHANGED <<last, clock, shift, zone, unset, runs, kind, logging, lines, main, filled, early, overlapped>>
  BY DEF Log!Opens, Log!AtStep, Log!LogUnchanged, Log!time, Log!kept, Log!Busy
<1>2. task[t].day \in Log!Days /\ "put" \in Log!Steps /\ Log!Idle.at = "idle" /\ ~Log!Idle.view
      /\ Log!Idle \in [at : Log!Steps, day : Int \union {None}, view : BOOLEAN]
  BY <1>1 DEF Log!TasksSound, Log!Steps, Log!Idle
<1>3. ASSUME handle' = None, task' = [task EXCEPT ![t] = Log!Idle], UNCHANGED open,
             \/ free = {} /\ wrong' = wrong \union {"lost"} /\ UNCHANGED <<files, refused>>
             \/ /\ files' \in {files, files \union {task[t].day}} /\ refused' = refused \union {task[t].day}
                /\ UNCHANGED wrong
      PROVE  Log!Inductive'
  <2>1. /\ files \subseteq files' /\ files' \subseteq files \union {task[t].day}
        /\ refused \subseteq refused' /\ refused' \subseteq refused \union {task[t].day}
        /\ wrong' \subseteq wrong \union {"lost"}
    BY <1>3
  <2>2. /\ task' \in [Log!Tasks -> [at : Log!Steps, day : Int \union {None}, view : BOOLEAN]]
        /\ task'[t] = Log!Idle /\ \A u \in Log!Tasks \ {t} : task'[u] = task[u]
    BY <1>2, <1>3 DEF Log!TasksSound
  <2>3. Log!TypeOK' /\ Log!TasksSound' /\ Log!RemovalSound'
    <3>1. ~Log!Busy(t)'
      BY <1>2, <2>2 DEF Log!Busy
    <3>2. filled' \subseteq files' /\ files' \subseteq Log!Days /\ refused' \subseteq Log!Days
      BY <1>1, <1>2, <2>1 DEF Log!TypeOK, Log!Days
    <3>3. \A f \in DOMAIN open' : open'[f] \in [day : Log!Days, line : BOOLEAN]
      BY <1>3 DEF Log!TasksSound
    <3>4. handle' \in 1 .. MaxFiles \union {None} /\ DOMAIN open' \subseteq 1 .. MaxFiles
      BY <1>3 DEF Log!TypeOK
    <3>5. QED
      BY <1>1, <1>2, <2>1, <2>2, <3>1, <3>2, <3>3, <3>4, LogStepParts
  <2>4. Log!EarlyKept'
    BY <1>1, <1>3, <2>1 DEF Log!EarlyKept
  <2>5. ASSUME Log!Holds(t), ~overlapped, wrong = {}, main # "crashed"
        PROVE  wrong' = {} /\ main' # "crashed" /\ (~Log!Busy(t)' => Log!NoneOpen') /\ Log!Holds(t)'
    <3>1. open = <<>> /\ Log!Written
      BY <1>1, <2>5 DEF Log!Holds, Log!NoneOpen
    <3>2. DOMAIN open = {} /\ 1 \in 1 .. MaxFiles
      BY <3>1 DEF Log!LogsAssumption
    <3>3. files' \subseteq files \union {task[t].day} /\ refused' = refused \union {task[t].day} /\ wrong' = {}
      BY <1>3, <2>1, <2>5, <3>2
    <3>4. Log!NoneOpen'
      BY <1>1, <1>3, <3>1, <3>3 DEF Log!NoneOpen, Log!Written
    <3>5. QED
      BY <1>1, <1>2, <2>2, <2>5, <3>3, <3>4 DEF Log!Holds
  <2>6. Log!HandleSound'
    BY <1>1, <2>2, <2>5, LogStepHandle
  <2>7. QED
    BY <2>3, <2>4, <2>6
<1>4. ASSUME free # {}, handle' = new, Log!Goes(t, "put"), files' = files \union {task[t].day},
             UNCHANGED <<refused, wrong>>,
             open' = [f \in DOMAIN open \union {new} |->
                        IF f = new THEN [day |-> task[t].day, line |-> FALSE] ELSE open[f]]
      PROVE  Log!Inductive'
  <2>1. new \in free
    <3>1. free \in SUBSET Nat
      OBVIOUS
    <3>2. \E f \in free : \A g \in free : f <= g
      BY <1>4, <3>1, LogLeast
    <3>3. QED
      BY <3>2
  <2>2. /\ handle' = new /\ Log!Goes(t, "put") /\ files' = files \union {task[t].day}
        /\ wrong' = wrong /\ refused' = refused
        /\ open' = [f \in DOMAIN open \union {new} |->
                      IF f = new THEN [day |-> task[t].day, line |-> FALSE] ELSE open[f]]
    BY <1>4
  <2> HIDE DEF new, free
  <2>3. /\ DOMAIN open' = DOMAIN open \union {new} /\ new \in 1 .. MaxFiles
        /\ open'[new] = [day |-> task[t].day, line |-> FALSE]
        /\ \A f \in DOMAIN open \ {new} : open'[f] = open[f]
    BY <2>1, <2>2 DEF free
  <2>4. /\ task' \in [Log!Tasks -> [at : Log!Steps, day : Int \union {None}, view : BOOLEAN]]
        /\ task'[t].at = "put" /\ task'[t].day = task[t].day /\ task'[t].view = task[t].view
        /\ \A u \in Log!Tasks \ {t} : task'[u] = task[u]
    BY <1>2, <2>2, LogGoes
  <2>5. Log!TypeOK' /\ Log!TasksSound' /\ Log!RemovalSound'
    <3>1. \A f \in DOMAIN open' : open'[f] \in [day : Log!Days, line : BOOLEAN]
      <4>1. [day |-> task[t].day, line |-> FALSE] \in [day : Log!Days, line : BOOLEAN]
        BY <1>2
      <4>2. \A f \in DOMAIN open : open[f] \in [day : Log!Days, line : BOOLEAN]
        BY DEF Log!TasksSound
      <4>3. TAKE f \in DOMAIN open'
      <4>4. CASE f = new
        BY <2>3, <4>1, <4>4
      <4>5. CASE f # new
        BY <2>3, <4>2, <4>5
      <4>6. QED
        BY <4>4, <4>5
    <3>2. t = "flow" => ~task'[t].view
      BY <2>4 DEF Log!TasksSound
    <3>3. DOMAIN open' \subseteq 1 .. MaxFiles /\ handle' \in 1 .. MaxFiles
      BY <2>2, <2>3 DEF Log!TypeOK
    <3>4. filled' \subseteq files' /\ files' \subseteq Log!Days /\ refused' \subseteq Log!Days
      BY <1>1, <1>2, <2>2 DEF Log!TypeOK, Log!Days
    <3>5. QED
      BY <1>1, <2>2, <2>4, <3>1, <3>2, <3>3, <3>4, LogStepParts
  <2>6. Log!EarlyKept'
    BY <1>1, <2>2, <2>3 DEF Log!EarlyKept
  <2>7. ASSUME Log!Holds(t), ~overlapped, wrong = {}, main # "crashed"
        PROVE  wrong' = {} /\ main' # "crashed" /\ (~Log!Busy(t)' => Log!NoneOpen') /\ Log!Holds(t)'
    <3>1. open = <<>> /\ files \ filled \subseteq refused /\ ~task[t].view
      BY <1>1, <2>7 DEF Log!Holds, Log!NoneOpen, Log!Written
    <3>2. DOMAIN open = {}
      BY <3>1
    <3>3. Log!OpenFor(t)'
      BY <1>1, <2>2, <2>3, <2>4, <3>1, <3>2 DEF Log!OpenFor
    <3>4. QED
      BY <1>1, <2>2, <2>4, <2>7, <3>1, <3>3 DEF Log!Holds, Log!Busy
  <2>8. Log!HandleSound'
    BY <1>1, <2>4, <2>7, LogStepHandle
  <2>9. QED
    BY <2>5, <2>6, <2>8
<1>5. QED
  BY <1>3, <1>4 DEF Log!Opens

\* A line is put, into whichever file the handle is.
LEMMA LogPutsKeeps ==
  ASSUME Log!LogsAssumption, Log!Inductive, NEW t \in Log!Tasks, Log!Puts(t)
  PROVE  Log!Inductive'
<1> USE DEF Log!Inductive
<1>1. /\ task[t].at = "put" /\ main # "crashed" /\ Log!Busy(t)
      /\ UNCHANGED <<last, clock, shift, zone, unset, runs, kind, logging, lines, files, filled, early, handle, overlapped>>
  BY DEF Log!Puts, Log!AtStep, Log!LogUnchanged, Log!time, Log!kept, Log!daily, Log!Busy
<1>2. "check" \in Log!Steps
  BY DEF Log!Steps
<1>3. /\ task' \in [Log!Tasks -> [at : Log!Steps, day : Int \union {None}, view : BOOLEAN]]
      /\ task'[t].day = task[t].day /\ task'[t].view = task[t].view /\ task'[t].at \in {"put", "check"}
      /\ \A u \in Log!Tasks \ {t} : task'[u] = task[u]
  <2>1. CASE Log!Goes(t, "check")
    BY <1>2, <2>1, LogGoes
  <2>2. CASE UNCHANGED task
    BY <1>1, <2>2 DEF Log!TasksSound
  <2>3. QED
    BY <2>1, <2>2 DEF Log!Puts
<1>4. /\ DOMAIN open' = DOMAIN open
      /\ \A f \in DOMAIN open : open'[f] \in [day : Log!Days, line : BOOLEAN] /\ open'[f].day = open[f].day
  <2>1. CASE handle \in DOMAIN open /\ open' # open
    <3>1. open' = [open EXCEPT ![handle].line = TRUE]
      BY <2>1 DEF Log!Puts
    <3>2. open[handle] \in [day : Log!Days, line : BOOLEAN]
      BY <2>1 DEF Log!TasksSound
    <3>3. open'[handle] = [open[handle] EXCEPT !.line = TRUE] /\ \A f \in DOMAIN open \ {handle} : open'[f] = open[f]
      BY <2>1, <3>1
    <3>4. QED
      BY <3>1, <3>2, <3>3 DEF Log!TasksSound
  <2>2. CASE open' = open
    BY <2>2 DEF Log!TasksSound
  <2>3. QED
    BY <2>1, <2>2 DEF Log!Puts
<1>5. main' \in {main, "crashed"} /\ wrong' \subseteq wrong \union {"lost", "misplaced", "hung"}
      /\ \/ refused' = refused
         \/ handle \in DOMAIN open /\ refused' = refused \union {open[handle].day}
  BY DEF Log!Puts
<1>6. Log!TypeOK' /\ Log!TasksSound' /\ Log!RemovalSound'
  <2>1. t = "flow" => ~task'[t].view
    BY <1>3 DEF Log!TasksSound
  <2>2. \A f \in DOMAIN open' : open'[f] \in [day : Log!Days, line : BOOLEAN]
    BY <1>4
  <2>3. handle' \in 1 .. MaxFiles \union {None} /\ DOMAIN open' \subseteq 1 .. MaxFiles
    BY <1>1, <1>4 DEF Log!TypeOK
  <2>4. filled' \subseteq files' /\ files' \subseteq Log!Days /\ refused' \subseteq Log!Days
    BY <1>1, <1>5 DEF Log!TypeOK, Log!Days, Log!TasksSound
  <2>5. QED
    BY <1>1, <1>3, <1>5, <2>1, <2>2, <2>3, <2>4, LogStepParts
<1>7. Log!EarlyKept'
  BY <1>1, <1>4, <1>5 DEF Log!EarlyKept
<1>8. ASSUME Log!Holds(t), ~overlapped, wrong = {}, main # "crashed"
      PROVE  wrong' = {} /\ main' # "crashed" /\ (~Log!Busy(t)' => Log!NoneOpen') /\ Log!Holds(t)'
  <2>1. Log!OpenFor(t) /\ ~task[t].view
    BY <1>1, <1>8 DEF Log!Holds
  <2>2. handle \in DOMAIN open /\ open[handle].day = task[t].day
    BY <2>1 DEF Log!OpenFor
  <2>3. /\ Log!Goes(t, "check") /\ main' = main /\ wrong' = wrong /\ refused \subseteq refused'
        /\ \/ open' = [open EXCEPT ![handle].line = TRUE]
           \/ task[t].day \in refused'
    BY <2>2 DEF Log!Puts
  <2>4. task'[t].at = "check"
    BY <1>2, <2>3, LogGoes
  <2>5. open'[handle].line \/ task[t].day \in refused'
    <3>1. open[handle] \in [day : Log!Days, line : BOOLEAN]
      BY <2>2 DEF Log!TasksSound
    <3>2. QED
      BY <2>2, <2>3, <3>1
  <2>6. Log!OpenFor(t)'
    BY <1>1, <1>3, <1>4, <2>1, <2>2, <2>3, <2>5 DEF Log!OpenFor
  <2>7. QED
    BY <1>3, <1>8, <2>1, <2>3, <2>4, <2>6 DEF Log!Holds, Log!Busy
<1>9. Log!HandleSound'
  BY <1>1, <1>3, <1>8, LogStepHandle
<1>10. QED
  BY <1>6, <1>7, <1>9

\* A look at the handle.
LEMMA LogChecksKeeps ==
  ASSUME Log!LogsAssumption, Log!Inductive, NEW t \in Log!Tasks, Log!Checks(t)
  PROVE  Log!Inductive'
<1> USE DEF Log!Inductive
<1>1. /\ task[t].at = "check" /\ main # "crashed" /\ Log!Busy(t)
      /\ UNCHANGED <<last, clock, shift, zone, unset, runs, kind, logging, lines, main, files, filled, early, refused,
                     handle, open, overlapped, wrong>>
  BY DEF Log!Checks, Log!AtStep, Log!LogUnchanged, Log!time, Log!kept, Log!daily, Log!shared, Log!Busy
<1>2. task[t].view \in BOOLEAN /\ (t = "flow" => ~task[t].view) /\ "close" \in Log!Steps
  BY DEF Log!TasksSound, Log!Steps
<1>3. /\ task' \in [Log!Tasks -> [at : Log!Steps, day : Int \union {None}, view : BOOLEAN]]
      /\ Log!Busy(t)' => task'[t].day = task[t].day
      /\ \A u \in Log!Tasks \ {t} : task'[u] = task[u]
      /\ handle = None => task'[t].at = IF task[t].view THEN "read" ELSE "idle"
      /\ handle # None => task'[t].at = "close" /\ task'[t].view = task[t].view
      /\ ~task[t].view => ~task'[t].view
  <2>1. CASE handle = None
    <3>1. Log!Closed(t)
      BY <2>1 DEF Log!Checks
    <3>2. QED
      BY <1>2, <2>1, <3>1, LogClosed DEF Log!Busy
  <2>2. CASE handle # None
    <3>1. Log!Goes(t, "close")
      BY <2>2 DEF Log!Checks
    <3>2. QED
      BY <1>2, <2>2, <3>1, LogGoes
  <2>3. QED
    BY <2>1, <2>2
<1>4. Log!TypeOK' /\ Log!TasksSound' /\ Log!RemovalSound'
  <2>1. task'[t].at \in {"read", "idle", "close"} /\ (t = "flow" => task'[t].at # "read" /\ ~task'[t].view)
    BY <1>2, <1>3
  <2>2. \A f \in DOMAIN open' : open'[f] \in [day : Log!Days, line : BOOLEAN]
    BY <1>1 DEF Log!TasksSound
  <2>3. handle' \in 1 .. MaxFiles \union {None} /\ DOMAIN open' \subseteq 1 .. MaxFiles
    BY <1>1 DEF Log!TypeOK
  <2>4. filled' \subseteq files' /\ files' \subseteq Log!Days /\ refused' \subseteq Log!Days
    BY <1>1 DEF Log!TypeOK, Log!Days
  <2>5. QED
    BY <1>1, <1>3, <2>1, <2>2, <2>3, <2>4, LogStepParts
<1>5. Log!EarlyKept'
  BY <1>1 DEF Log!EarlyKept
<1>6. ASSUME Log!Holds(t), ~overlapped, wrong = {}, main # "crashed"
      PROVE  wrong' = {} /\ main' # "crashed" /\ (~Log!Busy(t)' => Log!NoneOpen') /\ Log!Holds(t)'
  <2>1. CASE task[t].view
    <3>1. Log!NoneOpen
      BY <1>1, <1>6, <2>1 DEF Log!Holds
    <3>2. Log!NoneOpen' /\ task'[t].at = "read"
      BY <1>1, <1>3, <2>1, <3>1 DEF Log!NoneOpen, Log!Written
    <3>3. QED
      BY <1>1, <1>6, <3>2 DEF Log!Holds
  <2>2. CASE ~task[t].view
    <3>1. Log!OpenFor(t)
      BY <1>1, <1>6, <2>2 DEF Log!Holds
    <3>2. handle # None
      BY <3>1 DEF Log!OpenFor, Log!TypeOK, Log!LogsAssumption
    <3>3. task'[t].at = "close" /\ ~task'[t].view /\ task'[t].day = task[t].day
      BY <1>3, <2>2, <3>2 DEF Log!Busy
    <3>4. Log!OpenFor(t)'
      BY <1>1, <3>1, <3>3 DEF Log!OpenFor
    <3>5. QED
      BY <1>1, <1>6, <3>3, <3>4 DEF Log!Holds, Log!Busy
  <2>3. QED
    BY <1>2, <2>1, <2>2
<1>7. Log!HandleSound'
  BY <1>1, <1>3, <1>6, LogStepHandle
<1>8. QED
  BY <1>4, <1>5, <1>7

\* The file is closed, and its line with it.
LEMMA LogClosesKeeps ==
  ASSUME Log!LogsAssumption, Log!Inductive, NEW t \in Log!Tasks, Log!Closes(t)
  PROVE  Log!Inductive'
<1> DEFINE day == open[handle].day
           put == IF open[handle].line THEN {day} ELSE {}
<1> USE DEF Log!Inductive
<1>1. /\ task[t].at = "close" /\ main # "crashed" /\ Log!Busy(t)
      /\ UNCHANGED <<last, clock, shift, zone, unset, runs, kind, logging, lines, files, handle, overlapped, wrong>>
  BY DEF Log!Closes, Log!AtStep, Log!LogUnchanged, Log!time, Log!kept, Log!Busy
<1>2. "clear" \in Log!Steps
  BY DEF Log!Steps
<1>3. /\ task' \in [Log!Tasks -> [at : Log!Steps, day : Int \union {None}, view : BOOLEAN]]
      /\ task'[t].day = task[t].day /\ task'[t].view = task[t].view /\ task'[t].at \in {"close", "clear"}
      /\ \A u \in Log!Tasks \ {t} : task'[u] = task[u]
  <2>1. CASE Log!Goes(t, "clear")
    BY <1>2, <2>1, LogGoes
  <2>2. CASE UNCHANGED task
    BY <1>1, <2>2 DEF Log!TasksSound
  <2>3. QED
    BY <2>1, <2>2 DEF Log!Closes
<1>4. main' \in {main, "crashed"}
  BY DEF Log!Closes
<1>5. ASSUME handle \in DOMAIN open
      PROVE  /\ \/ /\ filled' = filled \union (put \intersect files) /\ refused' = refused
                   /\ early' = (early \/ (~Log!IsSet /\ 0 \in put))
                \/ refused' = refused \union {day} /\ filled' = filled /\ early' = early
             /\ open' = Log!Restrict(open, DOMAIN open \ {handle}) /\ Log!Goes(t, "clear") /\ main' = main
  BY <1>5 DEF Log!Closes
<1>6. DOMAIN open' \subseteq DOMAIN open /\ \A f \in DOMAIN open' : open'[f] = open[f]
  <2>1. CASE handle \in DOMAIN open
    BY <1>5, <2>1 DEF Log!Restrict
  <2>2. CASE handle \notin DOMAIN open
    BY <2>2 DEF Log!Closes
  <2>3. QED
    BY <2>1, <2>2
<1>7. filled \subseteq filled' /\ filled' \subseteq files' /\ refused \subseteq refused' /\ refused' \subseteq Log!Days
  <2>1. CASE handle \in DOMAIN open
    <3>1. day \in Log!Days
      BY <2>1 DEF Log!TasksSound
    <3>2. QED
      BY <1>1, <1>5, <2>1, <3>1 DEF Log!TypeOK, Log!Days
  <2>2. CASE handle \notin DOMAIN open
    BY <1>1, <2>2 DEF Log!Closes, Log!TypeOK, Log!Days
  <2>3. QED
    BY <2>1, <2>2
<1>8. Log!TypeOK' /\ Log!TasksSound' /\ Log!RemovalSound'
  <2>1. t = "flow" => ~task'[t].view
    BY <1>3 DEF Log!TasksSound
  <2>2. \A f \in DOMAIN open' : open'[f] \in [day : Log!Days, line : BOOLEAN]
    BY <1>6 DEF Log!TasksSound
  <2>3. handle' \in 1 .. MaxFiles \union {None} /\ DOMAIN open' \subseteq 1 .. MaxFiles
    BY <1>1, <1>6 DEF Log!TypeOK
  <2>4. files' \subseteq Log!Days
    BY <1>1 DEF Log!TypeOK, Log!Days
  <2>5. QED
    BY <1>1, <1>3, <1>4, <1>7, <2>1, <2>2, <2>3, <2>4, LogStepParts
<1>9. Log!EarlyKept'
  <2>1. SUFFICES ASSUME main' = "starts" \/ unset'
                 PROVE  (early' => 0 \in filled') /\ \A f \in DOMAIN open' : open'[f].day = 0 => 0 \in files'
    BY DEF Log!EarlyKept
  <2>2. main = "starts" \/ unset
    BY <1>1, <1>4, <2>1
  <2>3. \A f \in DOMAIN open' : open'[f].day = 0 => 0 \in files'
    BY <1>1, <1>6, <2>2 DEF Log!EarlyKept
  <2>4. ASSUME early' PROVE 0 \in filled'
    <3>1. CASE early
      BY <1>7, <2>2, <3>1 DEF Log!EarlyKept
    <3>2. CASE ~early
      <4>1. handle \in DOMAIN open /\ 0 \in put /\ filled' = filled \union (put \intersect files)
        BY <1>5, <2>4, <3>2 DEF Log!Closes
      <4>2. 0 \in files
        BY <2>2, <4>1 DEF Log!EarlyKept
      <4>3. QED
        BY <4>1, <4>2
    <3>3. QED
      BY <3>1, <3>2
  <2>5. QED
    BY <2>3, <2>4
<1>10. ASSUME Log!Holds(t), ~overlapped, wrong = {}, main # "crashed"
       PROVE  wrong' = {} /\ main' # "crashed" /\ (~Log!Busy(t)' => Log!NoneOpen') /\ Log!Holds(t)'
  <2>1. ~task[t].view /\ Log!OpenFor(t)
    BY <1>1, <1>10 DEF Log!Holds
  <2>2. /\ DOMAIN open = {handle}
        /\ open[handle].line \/ day \in refused
        /\ day = task[t].day /\ day \in files /\ files \ filled \subseteq refused \union {day}
    BY <1>1, <2>1 DEF Log!OpenFor
  <2>3. open' = <<>>
    <3>1. DOMAIN open \ {handle} = {}
      BY <2>2
    <3>2. QED
      BY <1>5, <2>2, <3>1, LogNothing
  <2>4. Log!Written' /\ main' = main
    <3>1. main' = main /\ handle \in DOMAIN open
      BY <1>5, <2>2
    <3>0. /\ put = {day} \/ day \in refused
          /\ files' = files /\ day \in files /\ files \ filled \subseteq refused \union {day}
      BY <1>1, <2>2
    <3> HIDE DEF day, put
    <3>2. CASE filled' = filled \union (put \intersect files) /\ refused' = refused
      BY <3>0, <3>1, <3>2 DEF Log!Written
    <3>3. CASE refused' = refused \union {day} /\ filled' = filled
      BY <3>0, <3>1, <3>3 DEF Log!Written
    <3>4. QED
      BY <1>5, <3>1, <3>2, <3>3
  <2>5. task'[t].at = "clear"
    BY <1>2, <1>5, <2>2, LogGoes
  <2>6. QED
    BY <1>1, <1>3, <1>10, <2>1, <2>3, <2>4, <2>5 DEF Log!Holds, Log!Busy
<1>11. Log!HandleSound'
  BY <1>1, <1>3, <1>10, LogStepHandle
<1>12. QED
  BY <1>8, <1>9, <1>11

\* The handle is cleared.
LEMMA LogClearsKeeps ==
  ASSUME Log!LogsAssumption, Log!Inductive, NEW t \in Log!Tasks, Log!Clears(t)
  PROVE  Log!Inductive'
<1> USE DEF Log!Inductive
<1>1. /\ task[t].at = "clear" /\ main # "crashed" /\ Log!Busy(t) /\ handle' = None /\ Log!Closed(t)
      /\ UNCHANGED <<last, clock, shift, zone, unset, runs, kind, logging, lines, main, files, filled, early, refused,
                     open, overlapped, wrong>>
  BY DEF Log!Clears, Log!AtStep, Log!LogUnchanged, Log!time, Log!kept, Log!daily, Log!Busy
<1>2. task[t].view \in BOOLEAN /\ (t = "flow" => ~task[t].view)
  BY DEF Log!TasksSound
<1>3. /\ task' \in [Log!Tasks -> [at : Log!Steps, day : Int \union {None}, view : BOOLEAN]]
      /\ task'[t].at = IF task[t].view THEN "read" ELSE "idle"
      /\ Log!Busy(t)' => task'[t].day = task[t].day
      /\ ~task[t].view => ~task'[t].view
      /\ \A u \in Log!Tasks \ {t} : task'[u] = task[u]
  BY <1>1, <1>2, LogClosed DEF Log!Busy
<1>4. Log!TypeOK' /\ Log!TasksSound' /\ Log!RemovalSound'
  <2>1. task'[t].at \in {"read", "idle"} /\ (t = "flow" => task'[t].at # "read" /\ ~task'[t].view)
    BY <1>2, <1>3
  <2>2. \A f \in DOMAIN open' : open'[f] \in [day : Log!Days, line : BOOLEAN]
    BY <1>1 DEF Log!TasksSound
  <2>3. handle' \in 1 .. MaxFiles \union {None} /\ DOMAIN open' \subseteq 1 .. MaxFiles
    BY <1>1 DEF Log!TypeOK
  <2>4. filled' \subseteq files' /\ files' \subseteq Log!Days /\ refused' \subseteq Log!Days
    BY <1>1 DEF Log!TypeOK, Log!Days
  <2>5. QED
    BY <1>1, <1>3, <2>1, <2>2, <2>3, <2>4, LogStepParts
<1>5. Log!EarlyKept'
  BY <1>1 DEF Log!EarlyKept
<1>6. ASSUME Log!Holds(t), ~overlapped, wrong = {}, main # "crashed"
      PROVE  wrong' = {} /\ main' # "crashed" /\ (~Log!Busy(t)' => Log!NoneOpen') /\ Log!Holds(t)'
  <2>1. ~task[t].view /\ open = <<>> /\ Log!Written
    BY <1>1, <1>6 DEF Log!Holds
  <2>2. task'[t].at = "idle" /\ Log!NoneOpen'
    BY <1>1, <1>3, <2>1 DEF Log!NoneOpen, Log!Written
  <2>3. QED
    BY <1>1, <1>6, <2>2 DEF Log!Holds
<1>7. Log!HandleSound'
  BY <1>1, <1>3, <1>6, LogStepHandle
<1>8. QED
  BY <1>4, <1>5, <1>7

\* The log is sent, or the search for its first line does not end.
LEMMA LogSendsKeeps ==
  ASSUME Log!LogsAssumption, Log!Inductive, Log!Sends
  PROVE  Log!Inductive'
<1> DEFINE t == "web"
<1> USE DEF Log!Inductive
<1>1. /\ t \in Log!Tasks /\ task[t].at = "read" /\ main # "crashed" /\ Log!Busy(t)
      /\ UNCHANGED <<last, clock, shift, zone, unset, runs, kind, logging, lines, main, files, filled, early,
                     handle, open, overlapped>>
  BY DEF Log!Sends, Log!AtStep, Log!LogUnchanged, Log!time, Log!kept, Log!daily, Log!shared, Log!Busy, Log!Tasks
<1>2. /\ "hung" \in Log!Steps /\ Log!Idle.at = "idle"
      /\ Log!Idle \in [at : Log!Steps, day : Int \union {None}, view : BOOLEAN]
  BY DEF Log!Steps, Log!Idle
<1>3. /\ task' \in [Log!Tasks -> [at : Log!Steps, day : Int \union {None}, view : BOOLEAN]]
      /\ task'[t].at \in {"idle", "hung"} /\ (Log!Busy(t)' => task'[t].day = task[t].day)
      /\ \A u \in Log!Tasks \ {t} : task'[u] = task[u]
      /\ wrong' \subseteq wrong \union {"hung"}
      /\ refused \subseteq refused' /\ refused' \subseteq Log!Days
      /\ \/ task'[t].at = "idle" /\ wrong' = wrong
         \/ /\ task'[t].at = "hung" /\ task'[t].day = task[t].day /\ task[t].day \in files
            /\ task[t].day \in filled => task[t].day \in refused'
  <2>0. refused \subseteq Log!Days /\ task[t].day \in Log!Days
    BY <1>1 DEF Log!TypeOK, Log!Days, Log!TasksSound
  <2>1. CASE task' = [task EXCEPT ![t] = Log!Idle] /\ UNCHANGED <<refused, wrong>>
    BY <1>1, <1>2, <2>0, <2>1 DEF Log!TasksSound, Log!Busy
  <2>2. CASE /\ task[t].day \in files /\ Log!Goes(t, "hung") /\ wrong' = wrong \union {"hung"}
             /\ IF task[t].day \in filled THEN refused' = refused \union {task[t].day} ELSE refused' = refused
    BY <1>1, <1>2, <2>0, <2>2, LogGoes
  <2>3. QED
    BY <2>1, <2>2 DEF Log!Sends
<1>4. Log!TypeOK' /\ Log!TasksSound' /\ Log!RemovalSound'
  <2>1. \A f \in DOMAIN open' : open'[f] \in [day : Log!Days, line : BOOLEAN]
    BY <1>1 DEF Log!TasksSound
  <2>2. handle' \in 1 .. MaxFiles \union {None} /\ DOMAIN open' \subseteq 1 .. MaxFiles
    BY <1>1 DEF Log!TypeOK
  <2>3. filled' \subseteq files' /\ files' \subseteq Log!Days /\ refused' \subseteq Log!Days
    BY <1>1, <1>3 DEF Log!TypeOK, Log!Days
  <2>4. QED
    BY <1>1, <1>3, <2>1, <2>2, <2>3, LogStepParts
<1>5. Log!EarlyKept'
  BY <1>1 DEF Log!EarlyKept
<1>6. ASSUME Log!Holds(t), ~overlapped, wrong = {}, main # "crashed"
      PROVE  /\ \/ wrong' = {}
                \/ wrong' = {"hung"} /\ task'[t].at = "hung" /\ task'[t].day \in refused'
             /\ main' # "crashed" /\ (~Log!Busy(t)' => Log!NoneOpen') /\ Log!Holds(t)'
  <2>1. Log!NoneOpen
    BY <1>1, <1>6 DEF Log!Holds
  <2>2. Log!NoneOpen'
    BY <1>1, <1>3, <2>1 DEF Log!NoneOpen, Log!Written
  <2>3. task'[t].at = "hung" => task'[t].day \in refused'
    BY <1>3, <2>1 DEF Log!NoneOpen, Log!Written
  <2>4. QED
    BY <1>1, <1>3, <1>6, <2>2, <2>3 DEF Log!Holds
<1>7. Log!HandleSound'
  BY <1>1, <1>3, <1>6, LogStepHandle
<1>8. QED
  BY <1>4, <1>5, <1>7

\* A reading or a picture is kept in the file of its day.
LEMMA LogKeepsKeeps ==
  ASSUME Log!LogsAssumption, Log!Inductive, Log!Keeps
  PROVE  Log!Inductive'
<1> USE DEF Log!Inductive
<1>1. /\ kind # "log" /\ main # "crashed" /\ logging' \in BOOLEAN
      /\ UNCHANGED <<last, clock, shift, zone, unset, main, runs, lines, early, kind, task, handle, open, overlapped, wrong>>
  BY DEF Log!Keeps, Log!Round, Log!AtStep, Log!time, Log!shared, Log!TypeOK
<1>2. \/ /\ files' = files \union {Log!Day(Log!Local)} /\ filled' = filled \union {Log!Day(Log!Local)}
         /\ refused' = refused
      \/ /\ files' = files \union {Log!Day(Log!Local)} /\ refused' = refused \union {Log!Day(Log!Local)}
         /\ filled' = filled
      \/ UNCHANGED <<files, filled, refused>>
  BY DEF Log!Keeps
<1>3. Log!Day(Log!Local) \in Log!Days
  BY LogTime
<1>4. open = <<>> /\ ~early /\ \A t \in Log!Tasks : ~Log!Busy(t)
  BY <1>1 DEF Log!TasksSound
<1>5. Log!TypeOK'
  BY <1>1, <1>2, <1>3 DEF Log!TypeOK, Log!Days, Log!Begins, Log!Ends
<1>6. Log!TasksSound'
  BY <1>1 DEF Log!TasksSound, Log!Busy, Log!Begins
<1>7. Log!RemovalSound'
  BY <1>1 DEF Log!RemovalSound, Log!Spared, Log!Local
<1>8. Log!EarlyKept'
  <2>1. DOMAIN open' = {}
    BY <1>1, <1>4
  <2>2. QED
    BY <1>1, <1>4, <2>1 DEF Log!EarlyKept
<1>9. Log!HandleSound'
  BY <1>1, <1>2, <1>4 DEF Log!HandleSound, Log!Busy, Log!Holds, Log!NoneOpen, Log!Written
<1>10. QED
  BY <1>5, <1>6, <1>7, <1>8, <1>9

\* The flow task begins or ends a cleanup.
LEMMA LogCleans ==
  ASSUME Log!LogsAssumption, Log!Inductive, main # "crashed",
         task["flow"].at \in {"idle", "clean"}, NEW new \in [at : {"idle", "clean"}, day : Int \union {None}, view : {FALSE}],
         task' = [task EXCEPT !["flow"] = new],
         new.at = "clean" => main # "starts" /\ new.day \in Int /\ Log!Spared(new.day),
         UNCHANGED <<last, clock, shift, zone, unset, main, runs, lines, files, filled, early, refused, kind, logging,
                     handle, open, overlapped, wrong>>
  PROVE  Log!Inductive'
<1> USE DEF Log!Inductive
<1>1. /\ task' \in [Log!Tasks -> [at : Log!Steps, day : Int \union {None}, view : BOOLEAN]]
      /\ task'["flow"] = new /\ task'["web"] = task["web"] /\ new.at \in {"idle", "clean"} /\ ~new.view
  <2>1. new \in [at : Log!Steps, day : Int \union {None}, view : BOOLEAN]
    BY DEF Log!Steps
  <2>2. QED
    BY <2>1 DEF Log!TasksSound, Log!Tasks
<1>2. ~Log!Busy("flow") /\ ~Log!Busy("flow")' /\ (Log!Busy("web")' <=> Log!Busy("web"))
  BY <1>1 DEF Log!Busy
<1>3. Log!TypeOK'
  BY <1>1 DEF Log!TypeOK, Log!Begins, Log!Ends
<1>4. Log!TasksSound'
  BY <1>1, <1>2 DEF Log!TasksSound, Log!Busy, Log!Begins, Log!Tasks
<1>5. Log!RemovalSound'
  BY <1>1 DEF Log!RemovalSound, Log!Spared, Log!Local
<1>6. Log!EarlyKept'
  BY DEF Log!EarlyKept
<1>7. Log!HandleSound'
  <2>1. SUFFICES ASSUME ~overlapped PROVE Log!HandleSound'
    BY DEF Log!HandleSound
  <2>2. (\A t \in Log!Tasks : ~Log!Busy(t)') => Log!NoneOpen'
    BY <1>2, <2>1 DEF Log!HandleSound, Log!NoneOpen, Log!Written, Log!Tasks
  <2>3. Log!Holds("flow")'
    BY <1>1 DEF Log!Holds
  <2>4. Log!Holds("web")'
    BY <1>1, <2>1 DEF Log!HandleSound, Log!Holds, Log!NoneOpen, Log!Written, Log!OpenFor, Log!Tasks
  <2>5. QED
    BY <1>2, <2>1, <2>2, <2>3, <2>4 DEF Log!HandleSound, Log!Tasks
<1>8. QED
  BY <1>3, <1>4, <1>5, <1>6, <1>7

\* The day that a cleanup compares with spares the last ones.
LEMMA LogCleanupKeeps ==
  ASSUME Log!LogsAssumption, Log!Inductive, Log!CleanupBegins \/ Log!CleanupEnds
  PROVE  Log!Inductive'
<1>1. CASE Log!CleanupBegins
  <2>1. PICK day \in Log!Compared : task' = [task EXCEPT !["flow"] = [at |-> "clean", day |-> day, view |-> FALSE]]
    BY <1>1 DEF Log!CleanupBegins
  <2>2. /\ main = "up" /\ task["flow"].at = "idle"
        /\ UNCHANGED <<last, clock, shift, zone, unset, main, runs, lines, files, filled, early, refused, kind, logging,
                       handle, open, overlapped, wrong>>
    BY <1>1 DEF Log!CleanupBegins, Log!Round, Log!AtStep, Log!time, Log!daily, Log!kept, Log!shared
  <2>3. day \in Int /\ Log!Spared(day)
    <3>1. Log!Local \in Int /\ Log!Day(Log!Local) \in Int /\ Retention \in Nat /\ Winter \in Nat
      BY LogTime DEF Log!Inductive, Log!Days, Log!LogsAssumption
    <3>2. \/ day = Log!Day(Log!Local) - Retention + 1
          \/ /\ day = Log!Day(Log!Local) - Retention + 1 + 1
             /\ Log!Local % 2 = 1 /\ Log!Day(Log!Local) >= Winter /\ Log!Day(Log!Local) - Retention + 1 < Winter
      BY <2>1 DEF Log!Compared
    <3>3. QED
      BY <3>1, <3>2 DEF Log!Spared
  <2>4. [at |-> "clean", day |-> day, view |-> FALSE] \in [at : {"idle", "clean"}, day : Int \union {None}, view : {FALSE}]
    BY <2>3
  <2>5. QED
    BY <2>1, <2>2, <2>3, <2>4, LogCleans
<1>2. CASE Log!CleanupEnds
  <2>1. /\ task["flow"].at = "clean" /\ main # "crashed" /\ task' = [task EXCEPT !["flow"] = Log!Idle]
        /\ UNCHANGED <<last, clock, shift, zone, unset, main, runs, lines, files, filled, early, refused, kind, logging,
                       handle, open, overlapped, wrong>>
    BY <1>2 DEF Log!CleanupEnds, Log!AtStep, Log!time, Log!daily, Log!kept, Log!shared
  <2>2. Log!Idle \in [at : {"idle", "clean"}, day : Int \union {None}, view : {FALSE}] /\ Log!Idle.at = "idle"
    BY DEF Log!Idle
  <2>3. QED
    BY <2>1, <2>2, LogCleans
<1>3. QED
  BY <1>1, <1>2

\* A file is removed that is older.
LEMMA LogRemovesKeeps ==
  ASSUME Log!LogsAssumption, Log!Inductive, NEW day \in files, Log!Removes(day)
  PROVE  Log!Inductive'
<1> USE DEF Log!Inductive
<1>1. /\ task["flow"].at = "clean" /\ main # "crashed" /\ day < task["flow"].day
      /\ ~(kind = "log" /\ day = 0 /\ unset)
      /\ files' = files \ {day} /\ filled' = filled \ {day}
      /\ overlapped' = (overlapped \/ \E f \in DOMAIN open : open[f].day = day)
      /\ UNCHANGED <<last, clock, shift, zone, unset, main, runs, lines, early, refused, kind, logging, task, handle,
                     open>>
  BY DEF Log!Removes, Log!AtStep, Log!time, Log!kept, Log!shared
<1>2. wrong' = wrong
  <2>1. /\ Log!Local \in Int /\ Log!Day(Log!Local) \in Int /\ Retention \in Nat /\ Winter \in Nat /\ day \in Int
        /\ task["flow"].day \in Int /\ Log!Spared(task["flow"].day)
    BY <1>1, LogTime DEF Log!Days, Log!LogsAssumption, Log!TypeOK, Log!RemovalSound
  <2>2. ~Log!TooYoung(day)
    BY <1>1, <2>1 DEF Log!TooYoung, Log!Spared
  <2>3. QED
    BY <2>2 DEF Log!Removes
<1>3. main # "starts"
  BY <1>1 DEF Log!RemovalSound
<1>4. Log!TypeOK'
  BY <1>1, <1>2 DEF Log!TypeOK, Log!Begins, Log!Ends
<1>5. Log!TasksSound'
  BY <1>1 DEF Log!TasksSound, Log!Busy, Log!Begins
<1>6. Log!RemovalSound'
  BY <1>1, <1>2 DEF Log!RemovalSound, Log!Spared, Log!Local
<1>7. Log!EarlyKept'
  <2>1. CASE kind = "log"
    BY <1>1, <1>3, <2>1 DEF Log!EarlyKept
  <2>2. CASE kind # "log"
    <3>1. ~early' /\ DOMAIN open' = {}
      BY <1>1, <2>2 DEF Log!TasksSound
    <3>2. QED
      BY <3>1 DEF Log!EarlyKept
  <2>3. QED
    BY <2>1, <2>2
<1>8. Log!HandleSound'
  <2>1. SUFFICES ASSUME ~overlapped' PROVE Log!HandleSound'
    BY DEF Log!HandleSound
  <2>2. ~overlapped /\ \A f \in DOMAIN open : open[f].day # day
    BY <1>1, <2>1 DEF Log!TypeOK
  <2>3. Log!NoneOpen => Log!NoneOpen'
    BY <1>1 DEF Log!NoneOpen, Log!Written
  <2>4. ASSUME NEW t \in Log!Tasks PROVE Log!Holds(t)'
    <3>1. Log!Holds(t)
      BY <2>2 DEF Log!HandleSound
    <3>2. Log!OpenFor(t) => Log!OpenFor(t)'
      BY <1>1, <2>2 DEF Log!OpenFor
    <3>3. Log!Written => Log!Written'
      BY <1>1 DEF Log!Written
    <3>4. QED
      BY <1>1, <2>3, <3>1, <3>2, <3>3 DEF Log!Holds
  <2>5. \A t \in Log!Tasks : Log!Busy(t)' <=> Log!Busy(t)
    BY <1>1 DEF Log!Busy
  <2>6. Log!Busy("flow")' => ~Log!Busy("web")'
    BY <1>1 DEF Log!Busy
  <2>7. QED
    BY <1>1, <1>2, <2>2, <2>3, <2>4, <2>5, <2>6 DEF Log!HandleSound
<1>9. QED
  BY <1>4, <1>5, <1>6, <1>7, <1>8

\* What does not change keeps the invariant of Logs.
LEMMA LogStutters == Log!Inductive /\ UNCHANGED Log!vars => Log!Inductive'
<1> SUFFICES ASSUME Log!Inductive, UNCHANGED Log!vars PROVE Log!Inductive'
  OBVIOUS
<1>1. UNCHANGED <<last, clock, shift, zone, unset, main, runs, lines, files, filled, early, refused, kind, logging, task,
                  handle, open, overlapped, wrong>>
  BY DEF Log!vars, Log!time, Log!daily, Log!kept, Log!shared
<1> USE DEF Log!Inductive
<1>2. Log!TypeOK' /\ Log!TasksSound'
  BY <1>1 DEF Log!TypeOK, Log!TasksSound, Log!Busy, Log!Begins, Log!Ends
<1>3. Log!RemovalSound' /\ Log!EarlyKept'
  BY <1>1 DEF Log!RemovalSound, Log!Spared, Log!Local, Log!EarlyKept
<1>4. Log!HandleSound'
  BY <1>1 DEF Log!HandleSound, Log!Busy, Log!Holds, Log!NoneOpen, Log!Written, Log!OpenFor
<1>5. QED
  BY <1>2, <1>3, <1>4

\* The invariant of Logs is kept by every step.
LEMMA LogStepInductive ==
  Log!LogsAssumption /\ Log!Inductive /\ [Log!Next]_(Log!vars) => Log!Inductive'
<1> SUFFICES ASSUME Log!LogsAssumption, Log!Inductive, [Log!Next]_(Log!vars) PROVE Log!Inductive'
  OBVIOUS
<1>1. CASE wrong = {} /\ (Log!HalfDayPasses \/ Log!SetupTime \/ Log!TimeSync \/ Log!Starts)
  BY <1>1, LogHalfDayKeeps, LogSetupKeeps, LogTimeSyncKeeps, LogStartsKeeps
<1>2. ASSUME NEW t \in Log!Tasks,
             Log!WriteToFile(t) \/ Log!Opens(t) \/ Log!Puts(t) \/ Log!Checks(t) \/ Log!Closes(t) \/ Log!Clears(t)
      PROVE  Log!Inductive'
  BY <1>2, LogBeginsKeeps, LogOpensKeeps, LogPutsKeeps, LogChecksKeeps, LogClosesKeeps, LogClearsKeeps
<1>3. CASE Log!SendLogfile \/ Log!Sends
  BY <1>3, LogBeginsKeeps, LogSendsKeeps
<1>4. CASE Log!Keeps \/ Log!CleanupBegins \/ Log!CleanupEnds
  BY <1>4, LogKeepsKeeps, LogCleanupKeeps
<1>5. CASE \E day \in files : Log!Removes(day)
  BY <1>5, LogRemovesKeeps
<1>6. CASE UNCHANGED Log!vars
  BY <1>6, LogStutters
<1>7. QED
  BY <1>1, <1>2, <1>3, <1>4, <1>5, <1>6 DEF Log!Next

\* The invariant of Logs says what the files are.
LEMMA LogInductiveTrue == Log!LogsAssumption /\ Log!Inductive => Log!TypeOK /\ Log!LogsTrue
<1> SUFFICES ASSUME Log!LogsAssumption, Log!Inductive PROVE Log!TypeOK /\ Log!LogsTrue
  OBVIOUS
<1> USE DEF Log!Inductive
<1>1. "removed" \notin wrong /\ (unset /\ early => 0 \in filled)
  BY DEF Log!RemovalSound, Log!EarlyKept
<1>2. ASSUME ~overlapped
      PROVE  /\ wrong \subseteq {"hung"} /\ main # "crashed"
             /\ "hung" \in wrong => task["web"].day \in refused
             /\ \A t \in Log!Tasks : task[t].at \in {"put", "check", "close"} /\ ~task[t].view =>
                  /\ handle \in DOMAIN open /\ open[handle].day = task[t].day
                  /\ task[t].at # "put" => open[handle].line \/ task[t].day \in refused
             /\ (\A t \in Log!Tasks : task[t].at \in {"idle", "clean"}) =>
                  handle = None /\ open = <<>> /\ Log!Written
  BY <1>2 DEF Log!HandleSound, Log!Holds, Log!OpenFor, Log!NoneOpen, Log!Written, Log!Busy
<1>3. QED
  BY <1>1, <1>2 DEF Log!LogsTrue

-----------------------------------------------------------------------------
(* The composition: a behaviour is about one of the services               *)

LEMMA NextSubject == [Next]_vars => subject' = subject
  BY DEF Next, vars

\* The invariant of FileServer, of the behaviours that are about it.
FileInductive == subject = "files" => File!Inductive

\* A step of such a behaviour is a step of FileServer.
LEMMA FileNext ==
  [Next]_vars /\ subject = "files" => [File!Next]_(File!vars)
<1>1. ASSUME Next, subject = "files" PROVE File!Next
  BY <1>1 DEF Next
<1>2. ASSUME UNCHANGED vars PROVE UNCHANGED File!vars
  BY <1>2 DEF vars, filesVars, File!vars
<1>3. QED
  BY <1>1, <1>2

\* The invariant of FileServer is one of the composition.
LEMMA FileInvariant == Spec => []FileInductive
<1>1. Init => FileInductive
  BY ServicesAssumption, FilesInitInductive DEF Init, FileInductive
<1>2. FileInductive /\ [Next]_vars => FileInductive'
  BY ServicesAssumption, FileNext, NextSubject, FilesStepInductive DEF FileInductive
<1>3. QED
  BY <1>1, <1>2, PTL DEF Spec

\* The invariant of Outputs, of the behaviours that are about it.
OutputInductive == subject = "outputs" => Output!Inductive

\* A step of such a behaviour is a step of Outputs.
LEMMA OutputNext ==
  [Next]_vars /\ subject = "outputs" => [Output!Next]_(Output!vars)
<1>1. ASSUME Next, subject = "outputs" PROVE Output!Next
  BY <1>1 DEF Next
<1>2. ASSUME UNCHANGED vars PROVE UNCHANGED Output!vars
  BY <1>2 DEF vars, outputsVars, Output!vars, Output!numbers, Output!fixed
<1>3. QED
  BY <1>1, <1>2

\* The invariant of Outputs is one of the composition.
LEMMA OutputInvariant == Spec => []OutputInductive
<1>1. Init => OutputInductive
  BY ServicesAssumption, OutputsInitInductive DEF Init, OutputInductive
<1>2. OutputInductive /\ [Next]_vars => OutputInductive'
  BY ServicesAssumption, OutputNext, NextSubject, OutputsStepInductive DEF OutputInductive
<1>3. QED
  BY <1>1, <1>2, PTL DEF Spec

\* The invariant of LegacyUpdate, of the behaviours that are about it.
LegacyInductive == subject = "legacy" => Legacy!Inductive

\* A step of such a behaviour is a step of LegacyUpdate.
LEMMA LegacyNext ==
  [Next]_vars /\ subject = "legacy" => [Legacy!Next]_(Legacy!vars)
<1>1. ASSUME Next, subject = "legacy" PROVE Legacy!Next
  BY <1>1 DEF Next
<1>2. ASSUME UNCHANGED vars PROVE UNCHANGED Legacy!vars
  BY <1>2 DEF vars, legacyVars, Legacy!vars, Legacy!card, Legacy!slots
<1>3. QED
  BY <1>1, <1>2

\* The invariant of LegacyUpdate is one of the composition.
LEMMA LegacyInvariant == Spec => []LegacyInductive
<1>1. Init => LegacyInductive
  BY ServicesAssumption, LegacyInitInductive DEF Init, LegacyInductive
<1>2. LegacyInductive /\ [Next]_vars => LegacyInductive'
  BY ServicesAssumption, LegacyNext, NextSubject, LegacyStepInductive DEF LegacyInductive
<1>3. QED
  BY <1>1, <1>2, PTL DEF Spec

\* The invariant of Recognition, of the behaviours that are about it.
ReadingInductive == subject = "recognition" => Reading!Inductive

\* A step of such a behaviour is a step of Recognition.
LEMMA ReadingNext ==
  [Next]_vars /\ subject = "recognition" => [Reading!Next]_(Reading!vars)
<1>1. ASSUME Next, subject = "recognition" PROVE Reading!Next
  BY <1>1 DEF Next
<1>2. ASSUME UNCHANGED vars PROVE UNCHANGED Reading!vars
  BY <1>2 DEF vars, recognitionVars, Reading!vars, Reading!config, Reading!card, Reading!marks,
     Reading!dials
<1>3. QED
  BY <1>1, <1>2

\* The invariant of Recognition is one of the composition.
LEMMA ReadingInvariant == Spec => []ReadingInductive
<1>1. Init => ReadingInductive
  BY ServicesAssumption, RecognitionInitInductive DEF Init, ReadingInductive
<1>2. ReadingInductive /\ [Next]_vars => ReadingInductive'
  BY ServicesAssumption, ReadingNext, NextSubject, RecognitionStepInductive DEF ReadingInductive
<1>3. QED
  BY <1>1, <1>2, PTL DEF Spec

\* The invariant of Logs, of the behaviours that are about it.
LogInductive == subject = "logs" => Log!Inductive

\* A step of such a behaviour is a step of Logs.
LEMMA LogNext ==
  [Next]_vars /\ subject = "logs" => [Log!Next]_(Log!vars)
<1>1. ASSUME Next, subject = "logs" PROVE Log!Next
  BY <1>1 DEF Next
<1>2. ASSUME UNCHANGED vars PROVE UNCHANGED Log!vars
  BY <1>2 DEF vars, logsVars, Log!vars, Log!time, Log!daily, Log!kept, Log!shared
<1>3. QED
  BY <1>1, <1>2

\* The invariant of Logs is one of the composition.
LEMMA LogInvariant == Spec => []LogInductive
<1>1. Init => LogInductive
  BY ServicesAssumption, LogInitInductive DEF Init, LogInductive
<1>2. LogInductive /\ [Next]_vars => LogInductive'
  BY ServicesAssumption, LogNext, NextSubject, LogStepInductive DEF LogInductive
<1>3. QED
  BY <1>1, <1>2, PTL DEF Spec

(* What the file manager says of the card is so, and no request changes a  *)
(* file while a journal or another task owns the card, or one of a bundle, *)
(* for any files, versions and lengths of an upload (upload_post_handler,  *)
(* delete_post_handler, send_file).                                        *)
THEOREM ServicesFiles == Spec => FilesTrue
<1>1. FileInductive => (subject = "files" => File!TypeOK /\ File!AnswersTrue)
  BY DEF FileInductive, File!Inductive
<1>2. FileInductive /\ [Next]_vars => [CardStep]_vars
  BY ServicesAssumption, FilesCardStep DEF FileInductive, CardStep, Next
<1>3. QED
  BY <1>1, <1>2, FileInvariant, PTL DEF Spec, FilesTrue

(* A reading is stored under a time of its own, and a report has readings  *)
(* and the picture of its round only, for any number of numbers and any    *)
(* length of time (SavePreValue, InfluxDBPublish, WebhookPublish,          *)
(* WebhookUploadPic).                                                      *)
THEOREM ServicesOutputs == Spec => []OutputsTrue
<1>1. OutputInductive => OutputsTrue
  BY DEF OutputInductive, OutputsTrue, Output!Inductive
<1>2. QED
  BY <1>1, OutputInvariant, PTL

(* A package is tried once for each request, unless the card keeps         *)
(* update.txt; an application that boots has been validated, and the       *)
(* interface and an uploaded network are whole wherever the power goes but *)
(* between two renames, for any packages (CheckUpdate, ota_update_task,    *)
(* unzip_new, handler_ota_update).                                         *)
THEOREM ServicesLegacy == Spec => []LegacyKept
<1>1. LegacyInductive => LegacyKept
  BY DEF LegacyInductive, LegacyKept, Legacy!Inductive
<1>2. QED
  BY <1>1, LegacyInvariant, PTL

(* Every dial shows what was read from its own piece of the round's own    *)
(* picture, cut where the marks are, the polar reader shows all dials of a *)
(* picture or none, and a mark is remembered where it was found, for any   *)
(* number of dials, any search fields and any kinds of network (Align,     *)
(* doAlignAndCut, doNeuralNetwork, doPolarNetwork).                        *)
THEOREM ServicesRecognition == Spec => []RecognitionTrue
<1>1. ReadingInductive => RecognitionTrue
  BY DEF ReadingInductive, RecognitionTrue, Reading!Inductive
<1>2. QED
  BY <1>1, ReadingInvariant, PTL

(* No file of the last days is removed, the log of a start without a clock *)
(* is kept while it runs, and as long as no two tasks meet at the log each *)
(* line that the card takes is in the file of its day, no file stays open  *)
(* and only a log of which the card refused lines makes a request hang,    *)
(* for any number of days, files and starts (WriteToFile,                  *)
(* CloseLogFileAppendHandle, send_logfile, RemoveOldLogFile).              *)
THEOREM ServicesLogs == Spec => []LogsTrue
<1>1. LogInductive => LogsTrue
  BY ServicesAssumption, LogInductiveTrue DEF LogInductive, LogsTrue
<1>2. QED
  BY <1>1, LogInvariant, PTL
=============================================================================
