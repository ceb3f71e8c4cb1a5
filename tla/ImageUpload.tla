---------------------------- MODULE ImageUpload ----------------------------
(***************************************************************************)
(* POST /upload/send: AIUploadSendHandler, the image limits of             *)
(* image_resource and ImageRecognizer.  Several requests run at once; they *)
(* share the counter of running jobs, which is taken by a load and a weak  *)
(* compare-and-swap and given back by a destructor, and the map of         *)
(* recognizers under its mutex.                                            *)
(*                                                                         *)
(* An image is what the limits look at: the number of its bytes, whether   *)
(* its markers are those of a PNG or a JPEG ("cut": its size can be read   *)
(* but what follows is broken), the width and height its header states,    *)
(* and what the decoder (OpenCV, external) makes of it.                    *)
(***************************************************************************)
EXTENDS Integers, FiniteSets

CONSTANTS
    Req, User, Images,
    encoded, pixels, bgr, jobs,      \* Policy
    intMax,                          \* the largest int
    side, maxResized                 \* 256, and the limit of the resized image

ASSUME PolicyAssumption ==
    /\ {encoded, pixels, bgr, jobs} \subseteq Nat \ {0}
    /\ side \in Nat \ {0} /\ maxResized \in Nat /\ intMax \in Nat

ASSUME ImagesAssumption ==
    Images \subseteq [size : Nat, header : {"none", "cut", "png", "jpeg"},
                      width : Nat, height : Nat,
                      decodes : {"empty", "same", "turned", "other"}]

VARIABLES
    pc,            \* where each request is
    job,           \* its user and its image
    current,       \* the local copy of ActiveJobs in Permit
    status,        \* the answer, 0 before it
    active,        \* ActiveJobs
    recognizerMap, \* users with a recognizer
    sawFull        \* history: requests that asked while every permit was taken

vars == <<pc, job, current, status, active, recognizerMap, sawFull>>

NoJob == [user |-> "none"]
Step(r, from, to) == pc[r] = from /\ pc' = [pc EXCEPT ![r] = to]
Answer(r, code) == status' = [status EXCEPT ![r] = code]
Waiting == {r \in Req : pc[r] \in {"load", "cas"}}
Holders == {r \in Req : pc[r] \in {"decode", "predict"}}

-----------------------------------------------------------------------------
(* The limits: 0, or the status of the Error they throw *)

CheckEncoded(size) == IF size > encoded THEN 413 ELSE IF size = 0 THEN 400 ELSE 0

\* Mutant: the size of the output buffer is not looked at.
CheckShapePixels(width, height) ==
    IF width = 0 \/ height = 0 \/ width > intMax \/ height > intMax THEN 400
    ELSE IF width > pixels \div height THEN 413 ELSE 0

CheckShape(width, height) ==
    IF width = 0 \/ height = 0 \/ width > intMax \/ height > intMax THEN 400
    ELSE IF width > pixels \div height \/ width > (bgr \div 3) \div height THEN 413
    ELSE 0

Preflight(img) ==
    IF CheckEncoded(img.size) # 0 THEN CheckEncoded(img.size)
    ELSE IF img.header = "none" THEN 400
    ELSE IF CheckShape(img.width, img.height) # 0 THEN CheckShape(img.width, img.height)
    ELSE IF img.header = "cut" THEN 400 ELSE 0

\* The characters of the base64 text of an image; the handler refuses a longer text
\* than the largest image needs before it decodes anything.
Base64(size) == ((size + 2) \div 3) * 4
TextTooLong(img) == Base64(img.size) > ((encoded + 2) \div 3) * 4

\* What imdecode returns: nothing, the shape of the header, the sides exchanged as the
\* EXIF orientation says, or something else.
Decoded(img) ==
    CASE img.decodes = "same" -> <<img.width, img.height>>
      [] img.decodes = "turned" -> <<img.height, img.width>>
      [] img.decodes = "other" -> <<img.width + 1, img.height>>

\* PredictBufferGuarded accepts the decoded shape.
ShapeMatches(img) ==
    \/ Decoded(img) = <<img.width, img.height>>
    \/ img.header = "jpeg" /\ Decoded(img) = <<img.height, img.width>>

\* The larger side after the shorter one was scaled to `side`, rounded.
Resized(length, shorter) == (2 * length * side + shorter) \div (2 * shorter)
ResizedTooLarge(w, h) ==
    LET short == IF w < h THEN w ELSE h
    IN  \/ Resized(w, short) > intMax \/ Resized(h, short) > intMax
        \/ Resized(w, short) * Resized(h, short) > maxResized

-----------------------------------------------------------------------------
(* AIUploadSendHandler::handle *)

Init ==
    /\ pc = [r \in Req |-> "new"] /\ job = [r \in Req |-> NoJob]
    /\ current = [r \in Req |-> 0] /\ status = [r \in Req |-> 0]
    /\ active = 0 /\ recognizerMap = {} /\ sawFull = {}

Unauthorized(r) ==
    /\ Step(r, "new", "done") /\ Answer(r, 401)
    /\ UNCHANGED <<job, current, active, recognizerMap>>

\* A logged-in user's upload: everything that is checked before a recognizer is made.
Upload(r, u, img) ==
    LET verdict == IF img.size = 0 THEN 400
                   ELSE IF TextTooLong(img) THEN 413 ELSE Preflight(img)
    IN  /\ Step(r, "new", IF verdict = 0 THEN "recognizer" ELSE "done")
        /\ job' = [job EXCEPT ![r] = [user |-> u, image |-> img]]
        /\ Answer(r, verdict)
        /\ UNCHANGED <<current, active, recognizerMap>>

\* Under mutexForImageRecognizerMap.
GetRecognizer(r) ==
    /\ Step(r, "recognizer", "load")
    /\ recognizerMap' = recognizerMap \cup {job[r].user}
    /\ UNCHANGED <<job, current, status, active>>

\* The constructor throws: no entry is made.
RecognizerFails(r) ==
    /\ Step(r, "recognizer", "done") /\ job[r].user \notin recognizerMap
    /\ Answer(r, 400)
    /\ UNCHANGED <<job, current, active, recognizerMap>>

-----------------------------------------------------------------------------
(* Permit *)

LoadActive(r) ==
    /\ Step(r, "load", "cas")
    /\ current' = [current EXCEPT ![r] = active]
    /\ UNCHANGED <<job, status, active, recognizerMap>>

Busy(r) ==
    /\ Step(r, "cas", "done") /\ current[r] >= jobs
    /\ Answer(r, 503)
    /\ UNCHANGED <<job, current, active, recognizerMap>>

\* Mutant: the counter is stored, not compared first.
AcquireStores(r) ==
    /\ Step(r, "cas", "decode") /\ current[r] < jobs
    /\ active' = current[r] + 1
    /\ UNCHANGED <<job, current, status, recognizerMap>>

Acquire(r) ==
    /\ Step(r, "cas", "decode") /\ current[r] < jobs
    /\ active = current[r] /\ active' = current[r] + 1
    /\ UNCHANGED <<job, current, status, recognizerMap>>

\* compare_exchange_weak fails, for a reason or not, and loads the value again.
CasFails(r) ==
    /\ pc[r] = "cas" /\ current[r] < jobs
    /\ current' = [current EXCEPT ![r] = active]
    /\ UNCHANGED <<pc, job, status, active, recognizerMap>>

-----------------------------------------------------------------------------
(* ImageRecognizer with the permit; every way out runs ~Permit *)

Release(r, code) ==
    /\ active' = active - 1 /\ Answer(r, code)
    /\ UNCHANGED <<job, current, recognizerMap>>

\* PredictBufferGuarded and the checks of PredictMatGuarded.
Guarded(img) ==
    IF Preflight(img) # 0 THEN Preflight(img)
    ELSE IF img.decodes = "empty" THEN 400
    ELSE IF ~ShapeMatches(img) THEN 400
    ELSE LET shape == Decoded(img)
         IN  IF CheckShape(shape[1], shape[2]) # 0 THEN CheckShape(shape[1], shape[2])
             ELSE IF ResizedTooLarge(shape[1], shape[2]) THEN 400 ELSE 0

DecodeImage(r) ==
    /\ Step(r, "decode", "predict") /\ Guarded(job[r].image) = 0
    /\ UNCHANGED <<job, current, status, active, recognizerMap>>

DecodeFails(r) ==
    /\ Step(r, "decode", "done") /\ Guarded(job[r].image) # 0
    /\ Release(r, Guarded(job[r].image))

Predict(r) == Step(r, "predict", "done") /\ Release(r, 200)

\* The model or OpenCV throws.
PredictFails(r) == Step(r, "predict", "done") /\ Release(r, 400)

Operation(r) ==
    \/ Unauthorized(r) \/ GetRecognizer(r) \/ RecognizerFails(r)
    \/ LoadActive(r) \/ Busy(r) \/ Acquire(r) \/ CasFails(r)
    \/ DecodeImage(r) \/ DecodeFails(r) \/ Predict(r) \/ PredictFails(r)
    \/ \E u \in User, img \in Images : Upload(r, u, img)

Next ==
    \E r \in Req :
      /\ Operation(r)
      /\ sawFull' = IF active = jobs THEN sawFull \cup Waiting ELSE sawFull

Spec == Init /\ [][Next]_vars

-----------------------------------------------------------------------------
(* Properties *)

OverBudget(img) ==
    img.size > encoded \/ img.width * img.height > pixels \/ 3 * img.width * img.height > bgr

\* ActiveJobs is the number of requests at work, never above the limit, after any
\* interleaving of loads, failed swaps, exceptions and releases; and what they work on
\* is within the budget, whatever the decoder made of the header.
WorkIsBounded ==
    /\ active = Cardinality(Holders) /\ active <= jobs
    /\ \A r \in Req : pc[r] = "predict" =>
         LET shape == Decoded(job[r].image)
         IN  shape[1] * shape[2] <= pixels /\ 3 * shape[1] * shape[2] <= bgr

\* The status means what it says: 503 only if every permit was taken while the request
\* asked for one, 413 only for an image beyond a limit, 200 only for one within all of
\* them; the base64 check before decoding refuses no image the limit allows.
StatusIsTrue ==
    \A r \in Req :
       /\ status[r] = 503 => r \in sawFull
       /\ status[r] = 413 => OverBudget(job[r].image)
       /\ status[r] = 200 => ~OverBudget(job[r].image) /\ job[r].image.header \in {"png", "jpeg"}
=============================================================================
