------------------------- MODULE ImageUploadProofs -------------------------
(***************************************************************************)
(* Proofs about ImageUpload, for any requests, images and limits: the      *)
(* counter of running jobs is exact and bounded, nothing beyond the pixel  *)
(* budgets reaches the model, and each status means what it says.          *)
(***************************************************************************)
EXTENDS ImageUpload, FiniteSetTheorems, TLAPS

-----------------------------------------------------------------------------
(* The arithmetic of the limits *)

\* Dividing the budget by the height is as good as multiplying the sides.
LEMMA DivisionBound ==
    ASSUME NEW budget \in Nat, NEW w \in Nat, NEW h \in Nat, h # 0
    PROVE  w > budget \div h <=> w * h > budget
<1> DEFINE q == budget \div h
<1>1. q \in Nat /\ h * q <= budget /\ budget < h * (q + 1)
  BY SMT
<1> HIDE DEF q
<1>2. CASE w > q
  <2>1. w >= q + 1
    BY <1>1, <1>2
  <2>2. w * h >= h * (q + 1)
    BY <1>1, <2>1
  <2> QED BY <1>1, <1>2, <2>2 DEF q
<1>3. CASE w <= q
  <2>1. w * h <= h * q
    BY <1>1, <1>3
  <2> QED BY <1>1, <1>3, <2>1 DEF q
<1> QED BY <1>1, <1>2, <1>3

\* CheckShape lets exactly the shapes within both budgets pass, and blames the budgets
\* only for shapes beyond one.
LEMMA CheckShapeMeans ==
    ASSUME NEW w \in Nat, NEW h \in Nat
    PROVE  /\ CheckShape(w, h) \in {0, 400, 413}
           /\ CheckShape(w, h) = 0 => w * h <= pixels /\ 3 * w * h <= bgr
           /\ CheckShape(w, h) = 413 => w * h > pixels \/ 3 * w * h > bgr
<1>1. CASE h = 0
  BY <1>1 DEF CheckShape
<1>2. CASE h # 0
  <2>1. pixels \in Nat /\ bgr \in Nat /\ bgr \div 3 \in Nat /\ w * h \in Nat
    BY PolicyAssumption
  <2>2. w > pixels \div h <=> w * h > pixels
    BY <1>2, <2>1, DivisionBound
  <2>3. w > (bgr \div 3) \div h <=> w * h > bgr \div 3
    BY <1>2, <2>1, DivisionBound
  <2>4. 3 * w * h = 3 * (w * h)
    OBVIOUS
  <2>5. w * h > bgr \div 3 <=> 3 * w * h > bgr
    BY <2>1, <2>4
  <2>6. pixels \div h \in Int /\ (bgr \div 3) \div h \in Int /\ 3 * w * h \in Int
    BY <1>2, <2>1
  <2>7. /\ ~(w > pixels \div h) => w * h <= pixels
        /\ ~(w > (bgr \div 3) \div h) => 3 * w * h <= bgr
    BY <2>1, <2>2, <2>3, <2>5, <2>6
  <2> QED BY <2>2, <2>3, <2>5, <2>7 DEF CheckShape
<1> QED BY <1>1, <1>2

LEMMA ImageTypes ==
    ASSUME NEW img \in Images
    PROVE  /\ img.size \in Nat /\ img.width \in Nat /\ img.height \in Nat
           /\ img.header \in {"none", "cut", "png", "jpeg"}
           /\ img.decodes \in {"empty", "same", "turned", "other"}
BY ImagesAssumption

\* The preflight refuses for its size only what is over a budget, and what it passes is
\* a PNG or JPEG within all of them.
LEMMA PreflightMeans ==
    ASSUME NEW img \in Images
    PROVE  /\ Preflight(img) \in {0, 400, 413}
           /\ Preflight(img) = 0 => ~OverBudget(img) /\ img.header \in {"png", "jpeg"}
           /\ Preflight(img) = 413 => OverBudget(img)
<1> DEFINE w == img.width
           h == img.height
           code == CheckShape(w, h)
<1>1. img.size \in Nat /\ w \in Nat /\ h \in Nat /\ img.header \in {"none", "cut", "png", "jpeg"}
  BY ImageTypes
<1>2. /\ code \in {0, 400, 413}
      /\ code = 0 => w * h <= pixels /\ 3 * w * h <= bgr
      /\ code = 413 => w * h > pixels \/ 3 * w * h > bgr
  BY <1>1, CheckShapeMeans
<1>3. encoded \in Nat /\ pixels \in Nat /\ bgr \in Nat /\ w * h \in Nat /\ 3 * w * h \in Nat
  BY <1>1, PolicyAssumption
<1>4. /\ CheckEncoded(img.size) \in {0, 400, 413}
      /\ CheckEncoded(img.size) = 0 => img.size <= encoded
      /\ CheckEncoded(img.size) = 413 => img.size > encoded
  BY <1>1, <1>3 DEF CheckEncoded
<1>5. Preflight(img) = IF CheckEncoded(img.size) # 0 THEN CheckEncoded(img.size)
                       ELSE IF img.header = "none" THEN 400
                       ELSE IF code # 0 THEN code
                       ELSE IF img.header = "cut" THEN 400 ELSE 0
  BY DEF Preflight
<1>6. OverBudget(img) <=> img.size > encoded \/ w * h > pixels \/ 3 * w * h > bgr
  BY DEF OverBudget
<1> HIDE DEF code, w, h
<1> QED BY <1>1, <1>2, <1>3, <1>4, <1>5, <1>6

\* The base64 text is refused only if the image it encodes is over the limit.
LEMMA TextTooLongMeans ==
    ASSUME NEW img \in Images, TextTooLong(img)
    PROVE  OverBudget(img)
<1>1. img.size \in Nat /\ encoded \in Nat
  BY ImageTypes, PolicyAssumption
<1>2. img.size > encoded
  BY <1>1 DEF TextTooLong, Base64
<1> QED BY <1>2 DEF OverBudget

\* Only the shape of the header, or that shape turned, gets past the comparison.
LEMMA ShapeMatchesMeans ==
    ASSUME NEW img \in Images, img.decodes # "empty", ShapeMatches(img)
    PROVE  \/ Decoded(img)[1] = img.width /\ Decoded(img)[2] = img.height
           \/ Decoded(img)[1] = img.height /\ Decoded(img)[2] = img.width
BY DEF ShapeMatches

LEMMA GuardedMeans ==
    ASSUME NEW img \in Images
    PROVE  /\ Guarded(img) \in {0, 400, 413}
           /\ Guarded(img) = 0 => /\ ~OverBudget(img) /\ img.header \in {"png", "jpeg"}
                                  /\ Decoded(img)[1] * Decoded(img)[2] <= pixels
                                  /\ 3 * Decoded(img)[1] * Decoded(img)[2] <= bgr
           /\ Guarded(img) = 413 => OverBudget(img)
<1> DEFINE w == Decoded(img)[1]
           h == Decoded(img)[2]
           code == CheckShape(w, h)
<1>1. CASE Preflight(img) # 0
  BY <1>1, PreflightMeans DEF Guarded
<1>2. CASE Preflight(img) = 0 /\ (img.decodes = "empty" \/ ~ShapeMatches(img))
  BY <1>2 DEF Guarded
<1>3. CASE Preflight(img) = 0 /\ img.decodes # "empty" /\ ShapeMatches(img)
  <2>1. ~OverBudget(img) /\ img.header \in {"png", "jpeg"}
    BY <1>3, PreflightMeans
  <2>2. img.width \in Nat /\ img.height \in Nat
    BY ImageTypes
  <2>3. \/ w = img.width /\ h = img.height
        \/ w = img.height /\ h = img.width
    BY <1>3, ShapeMatchesMeans
  <2>4. w \in Nat /\ h \in Nat
    BY <2>2, <2>3
  <2>5. /\ code \in {0, 400, 413}
        /\ code = 0 => w * h <= pixels /\ 3 * w * h <= bgr
        /\ code = 413 => w * h > pixels \/ 3 * w * h > bgr
    BY <2>4, CheckShapeMeans
  <2>6. w * h = img.width * img.height /\ 3 * w * h = 3 * img.width * img.height
    BY <2>2, <2>3
  <2>7. Guarded(img) = IF code # 0 THEN code ELSE IF ResizedTooLarge(w, h) THEN 400 ELSE 0
    BY <1>3 DEF Guarded
  <2>8. code = 413 => OverBudget(img)
    BY <2>5, <2>6 DEF OverBudget
  <2> HIDE DEF code, w, h
  <2>9. /\ Guarded(img) \in {0, 400, 413}
        /\ Guarded(img) = 413 => code = 413
        /\ Guarded(img) = 0 => code = 0
    BY <2>5, <2>7
  <2> QED BY <2>1, <2>5, <2>8, <2>9 DEF w, h
<1> QED BY <1>1, <1>2, <1>3

-----------------------------------------------------------------------------
(* The inductive invariant *)

Shape ==
    /\ DOMAIN pc = Req /\ DOMAIN job = Req /\ DOMAIN status = Req
    /\ current \in [Req -> Nat]

\* The counter and the requests between Permit and ~Permit.
Counted ==
    /\ IsFiniteSet(Holders) /\ active = Cardinality(Holders)
    /\ active \in Nat /\ active <= jobs

\* What a request relies on where it is: past the preflight it has an image; a counter
\* it has read as full was full when it read it; and only a guarded image is predicted.
Progress(r) ==
    /\ pc[r] \notin {"new", "done"} => job[r].image \in Images
    /\ pc[r] # "done" => status[r] = 0
    /\ pc[r] = "cas" /\ current[r] >= jobs => r \in sawFull
    /\ pc[r] = "predict" => Guarded(job[r].image) = 0

\* StatusIsTrue, of one request.
Truth(r) ==
    /\ status[r] = 503 => r \in sawFull
    /\ status[r] = 413 => OverBudget(job[r].image)
    /\ status[r] = 200 => ~OverBudget(job[r].image) /\ job[r].image.header \in {"png", "jpeg"}

RequestOK(r) == Progress(r) /\ Truth(r)

Inv == Shape /\ Counted /\ \A r \in Req : RequestOK(r)

-----------------------------------------------------------------------------
(* What the steps have in common *)

\* The second half of Next.
Observes == sawFull' = IF active = jobs THEN sawFull \cup Waiting ELSE sawFull

\* The step of one request: the others keep what they have.
LEMMA StepOK ==
    ASSUME Inv, Observes, NEW r \in Req, Shape', Counted',
           \A q \in Req \ {r} : /\ pc'[q] = pc[q] /\ job'[q] = job[q]
                                /\ current'[q] = current[q] /\ status'[q] = status[q],
           RequestOK(r)'
    PROVE  Inv'
<1>1. sawFull \subseteq sawFull'
  BY DEF Observes
<1>2. ASSUME NEW q \in Req \ {r} PROVE RequestOK(q)'
  BY <1>1, <1>2 DEF Inv, RequestOK, Progress, Truth
<1> QED BY <1>2 DEF Inv

LEMMA StepSets ==
    ASSUME Inv, NEW r \in Req, NEW from, NEW to, Step(r, from, to)
    PROVE  /\ DOMAIN pc' = Req /\ pc[r] = from /\ pc'[r] = to
           /\ \A q \in Req \ {r} : pc'[q] = pc[q]
BY DEF Step, Inv, Shape

LEMMA AnswerSets ==
    ASSUME Inv, NEW r \in Req, NEW code, Answer(r, code)
    PROVE  /\ DOMAIN status' = Req /\ status'[r] = code
           /\ \A q \in Req \ {r} : status'[q] = status[q]
BY DEF Answer, Inv, Shape

\* A request that neither takes nor gives back a permit.
LEMMA SameHolders ==
    ASSUME Inv, NEW r \in Req, DOMAIN pc' = Req, UNCHANGED active,
           \A q \in Req \ {r} : pc'[q] = pc[q],
           pc[r] \in {"decode", "predict"} <=> pc'[r] \in {"decode", "predict"}
    PROVE  Counted'
<1>1. Holders' = Holders
  BY DEF Holders
<1> QED BY <1>1 DEF Inv, Counted

\* One that takes it.
LEMMA OneMoreHolder ==
    ASSUME Inv, NEW r \in Req, DOMAIN pc' = Req, active < jobs, active' = active + 1,
           \A q \in Req \ {r} : pc'[q] = pc[q],
           pc[r] \notin {"decode", "predict"}, pc'[r] \in {"decode", "predict"}
    PROVE  Counted'
<1>1. Holders' = Holders \cup {r} /\ r \notin Holders
  BY DEF Holders
<1>2. IsFiniteSet(Holders \cup {r}) /\ Cardinality(Holders \cup {r}) = Cardinality(Holders) + 1
  BY <1>1, FS_AddElement DEF Inv, Counted
<1>3. jobs \in Nat
  BY PolicyAssumption
<1> QED BY <1>1, <1>2, <1>3 DEF Inv, Counted

\* One that gives it back.
LEMMA OneHolderLess ==
    ASSUME Inv, NEW r \in Req, DOMAIN pc' = Req, active' = active - 1,
           \A q \in Req \ {r} : pc'[q] = pc[q],
           pc[r] \in {"decode", "predict"}, pc'[r] \notin {"decode", "predict"}
    PROVE  Counted'
<1>1. Holders' = Holders \ {r} /\ r \in Holders
  BY DEF Holders
<1>2. IsFiniteSet(Holders \ {r}) /\ Cardinality(Holders \ {r}) = Cardinality(Holders) - 1
  BY <1>1, FS_RemoveElement DEF Inv, Counted
<1>3. Cardinality(Holders \ {r}) \in Nat /\ jobs \in Nat
  BY <1>2, FS_CardinalityType, PolicyAssumption
<1> QED BY <1>1, <1>2, <1>3 DEF Inv, Counted

-----------------------------------------------------------------------------
(* The steps *)

LEMMA InitInv == Init => Inv
<1> SUFFICES ASSUME Init PROVE Inv
  OBVIOUS
<1>1. Shape
  BY DEF Init, Shape
<1>2. Holders = {}
  BY DEF Init, Holders
<1>3. Counted
  BY <1>2, FS_EmptySet, PolicyAssumption DEF Init, Counted
<1>4. ASSUME NEW r \in Req PROVE RequestOK(r)
  BY DEF Init, RequestOK, Progress, Truth
<1> QED BY <1>1, <1>3, <1>4 DEF Inv

\* A request without a permit is answered: 400, 401, or an answer that is true.
LEMMA EndsInv ==
    ASSUME Inv, Observes, NEW r \in Req, NEW from, from \notin {"decode", "predict"}, NEW code,
           Step(r, from, "done"), Answer(r, code), UNCHANGED <<job, current, active>>,
           code \in {400, 401} \/ (code = 503 /\ r \in sawFull)
    PROVE  Inv'
<1>1. /\ DOMAIN pc' = Req /\ pc[r] = from /\ pc'[r] = "done"
      /\ \A q \in Req \ {r} : pc'[q] = pc[q]
  BY StepSets
<1>2. /\ DOMAIN status' = Req /\ status'[r] = code
      /\ \A q \in Req \ {r} : status'[q] = status[q]
  BY AnswerSets
<1>3. Shape'
  BY <1>1, <1>2 DEF Inv, Shape
<1>4. Counted'
  BY <1>1, SameHolders
<1>5. RequestOK(r)'
  BY <1>1, <1>2 DEF Observes, RequestOK, Progress, Truth
<1> QED BY <1>1, <1>2, <1>3, <1>4, <1>5, StepOK

LEMMA UnauthorizedInv ==
    ASSUME Inv, Observes, NEW r \in Req, Unauthorized(r)
    PROVE  Inv'
<1>1. Step(r, "new", "done") /\ Answer(r, 401) /\ UNCHANGED <<job, current, active>>
  BY DEF Unauthorized
<1> QED BY <1>1, EndsInv

LEMMA UploadInv ==
    ASSUME Inv, Observes, NEW r \in Req, NEW u \in User, NEW img \in Images, Upload(r, u, img)
    PROVE  Inv'
<1> DEFINE verdict == IF img.size = 0 THEN 400
                      ELSE IF TextTooLong(img) THEN 413 ELSE Preflight(img)
           to == IF verdict = 0 THEN "recognizer" ELSE "done"
<1>1. /\ Step(r, "new", to) /\ Answer(r, verdict)
      /\ job' = [job EXCEPT ![r] = [user |-> u, image |-> img]]
      /\ UNCHANGED <<current, active, recognizerMap>>
  BY DEF Upload
<1>2. verdict \in {0, 400, 413} /\ (verdict = 413 => OverBudget(img))
  BY TextTooLongMeans, PreflightMeans
<1>3. to \in {"recognizer", "done"} /\ (to = "recognizer" => verdict = 0)
  OBVIOUS
<1> HIDE DEF verdict, to
<1>4. /\ DOMAIN pc' = Req /\ pc[r] = "new" /\ pc'[r] = to
      /\ \A q \in Req \ {r} : pc'[q] = pc[q]
  BY <1>1, StepSets
<1>5. /\ DOMAIN status' = Req /\ status'[r] = verdict
      /\ \A q \in Req \ {r} : status'[q] = status[q]
  BY <1>1, AnswerSets
<1>6. /\ DOMAIN job' = Req /\ job'[r].image = img
      /\ \A q \in Req \ {r} : job'[q] = job[q]
  BY <1>1 DEF Inv, Shape
<1>7. Shape'
  BY <1>1, <1>4, <1>5, <1>6 DEF Inv, Shape
<1>8. Counted'
  BY <1>1, <1>3, <1>4, SameHolders
<1>9. RequestOK(r)'
  BY <1>2, <1>3, <1>4, <1>5, <1>6 DEF RequestOK, Progress, Truth
<1> QED BY <1>1, <1>4, <1>5, <1>6, <1>7, <1>8, <1>9, StepOK

LEMMA GetRecognizerInv ==
    ASSUME Inv, Observes, NEW r \in Req, GetRecognizer(r)
    PROVE  Inv'
<1>1. Step(r, "recognizer", "load") /\ UNCHANGED <<job, current, status, active>>
  BY DEF GetRecognizer
<1>2. /\ DOMAIN pc' = Req /\ pc[r] = "recognizer" /\ pc'[r] = "load"
      /\ \A q \in Req \ {r} : pc'[q] = pc[q]
  BY <1>1, StepSets
<1>3. Shape'
  BY <1>1, <1>2 DEF Inv, Shape
<1>4. Counted'
  BY <1>1, <1>2, SameHolders
<1>5. RequestOK(r)'
  BY <1>1, <1>2 DEF Inv, RequestOK, Progress, Truth
<1> QED BY <1>1, <1>2, <1>3, <1>4, <1>5, StepOK

LEMMA RecognizerFailsInv ==
    ASSUME Inv, Observes, NEW r \in Req, RecognizerFails(r)
    PROVE  Inv'
<1>1. Step(r, "recognizer", "done") /\ Answer(r, 400) /\ UNCHANGED <<job, current, active>>
  BY DEF RecognizerFails
<1> QED BY <1>1, EndsInv

\* Reading the counter, first or after a failed swap: a request that reads it as full
\* is one of those that waited while it was full.
LEMMA ReadsInv ==
    ASSUME Inv, Observes, NEW r \in Req, pc[r] \in {"load", "cas"},
           DOMAIN pc' = Req, pc'[r] = "cas", \A q \in Req \ {r} : pc'[q] = pc[q],
           current' = [current EXCEPT ![r] = active], UNCHANGED <<job, status, active>>
    PROVE  Inv'
<1>1. current'[r] = active /\ \A q \in Req \ {r} : current'[q] = current[q]
  BY DEF Inv, Shape
<1>2. Shape'
  BY <1>1 DEF Inv, Shape, Counted
<1>3. Counted'
  BY <1>1, SameHolders
<1>4. active >= jobs => r \in sawFull'
  BY PolicyAssumption DEF Observes, Waiting, Inv, Counted
<1>5. job'[r].image \in Images /\ status'[r] = 0
  BY DEF Inv, RequestOK, Progress
<1>6. RequestOK(r)'
  BY <1>1, <1>4, <1>5 DEF RequestOK, Progress, Truth
<1> QED BY <1>1, <1>2, <1>3, <1>6, StepOK

LEMMA LoadActiveInv ==
    ASSUME Inv, Observes, NEW r \in Req, LoadActive(r)
    PROVE  Inv'
<1>1. /\ Step(r, "load", "cas") /\ current' = [current EXCEPT ![r] = active]
      /\ UNCHANGED <<job, status, active>>
  BY DEF LoadActive
<1> QED BY <1>1, StepSets, ReadsInv

LEMMA CasFailsInv ==
    ASSUME Inv, Observes, NEW r \in Req, CasFails(r)
    PROVE  Inv'
<1>1. /\ pc[r] = "cas" /\ current' = [current EXCEPT ![r] = active]
      /\ UNCHANGED <<pc, job, status, active>>
  BY DEF CasFails
<1>2. DOMAIN pc' = Req /\ pc'[r] = "cas" /\ \A q \in Req \ {r} : pc'[q] = pc[q]
  BY <1>1 DEF Inv, Shape
<1> QED BY <1>1, <1>2, ReadsInv

LEMMA BusyInv ==
    ASSUME Inv, Observes, NEW r \in Req, Busy(r)
    PROVE  Inv'
<1>1. /\ Step(r, "cas", "done") /\ Answer(r, 503) /\ UNCHANGED <<job, current, active>>
      /\ current[r] >= jobs
  BY DEF Busy
<1>2. r \in sawFull
  BY <1>1 DEF Step, Inv, RequestOK, Progress
<1> QED BY <1>1, <1>2, EndsInv

LEMMA AcquireInv ==
    ASSUME Inv, Observes, NEW r \in Req, Acquire(r)
    PROVE  Inv'
<1>1. /\ Step(r, "cas", "decode") /\ active < jobs /\ active' = active + 1
      /\ UNCHANGED <<job, current, status>>
  BY DEF Acquire
<1>2. /\ DOMAIN pc' = Req /\ pc[r] = "cas" /\ pc'[r] = "decode"
      /\ \A q \in Req \ {r} : pc'[q] = pc[q]
  BY <1>1, StepSets
<1>3. Shape'
  BY <1>1, <1>2 DEF Inv, Shape
<1>4. Counted'
  BY <1>1, <1>2, OneMoreHolder
<1>5. RequestOK(r)'
  BY <1>1, <1>2 DEF Inv, RequestOK, Progress, Truth
<1> QED BY <1>1, <1>2, <1>3, <1>4, <1>5, StepOK

LEMMA DecodeImageInv ==
    ASSUME Inv, Observes, NEW r \in Req, DecodeImage(r)
    PROVE  Inv'
<1>1. /\ Step(r, "decode", "predict") /\ Guarded(job[r].image) = 0
      /\ UNCHANGED <<job, current, status, active>>
  BY DEF DecodeImage
<1>2. /\ DOMAIN pc' = Req /\ pc[r] = "decode" /\ pc'[r] = "predict"
      /\ \A q \in Req \ {r} : pc'[q] = pc[q]
  BY <1>1, StepSets
<1>3. Shape'
  BY <1>1, <1>2 DEF Inv, Shape
<1>4. Counted'
  BY <1>1, <1>2, SameHolders
<1>5. Guarded(job'[r].image) = 0
  BY <1>1
<1>6. RequestOK(r)'
  BY <1>1, <1>2, <1>5 DEF Inv, RequestOK, Progress, Truth
<1> QED BY <1>1, <1>2, <1>3, <1>4, <1>6, StepOK

\* Every way out of the work gives the permit back.
LEMMA ReleaseInv ==
    ASSUME Inv, Observes, NEW r \in Req, NEW from \in {"decode", "predict"}, NEW code,
           Step(r, from, "done"), Release(r, code),
           code \in {200, 400, 413}, code = 413 => OverBudget(job[r].image),
           code = 200 => ~OverBudget(job[r].image) /\ job[r].image.header \in {"png", "jpeg"}
    PROVE  Inv'
<1>1. /\ DOMAIN pc' = Req /\ pc[r] = from /\ pc'[r] = "done"
      /\ \A q \in Req \ {r} : pc'[q] = pc[q]
  BY StepSets
<1>2. Answer(r, code) /\ active' = active - 1 /\ UNCHANGED <<job, current>>
  BY DEF Release
<1>3. /\ DOMAIN status' = Req /\ status'[r] = code
      /\ \A q \in Req \ {r} : status'[q] = status[q]
  BY <1>2, AnswerSets
<1>4. Shape'
  BY <1>1, <1>2, <1>3 DEF Inv, Shape
<1>5. Counted'
  BY <1>1, <1>2, OneHolderLess
<1>6. job'[r] = job[r]
  BY <1>2
<1>7. RequestOK(r)'
  BY <1>1, <1>3, <1>6 DEF RequestOK, Progress, Truth, OverBudget
<1> QED BY <1>1, <1>2, <1>3, <1>4, <1>5, <1>7, StepOK

LEMMA DecodeFailsInv ==
    ASSUME Inv, Observes, NEW r \in Req, DecodeFails(r)
    PROVE  Inv'
<1> DEFINE code == Guarded(job[r].image)
<1>1. Step(r, "decode", "done") /\ code # 0 /\ Release(r, code)
  BY DEF DecodeFails
<1>2. job[r].image \in Images
  BY <1>1 DEF Step, Inv, RequestOK, Progress
<1>3. code \in {400, 413} /\ (code = 413 => OverBudget(job[r].image))
  BY <1>1, <1>2, GuardedMeans
<1> HIDE DEF code
<1> QED BY <1>1, <1>3, ReleaseInv

LEMMA PredictInv ==
    ASSUME Inv, Observes, NEW r \in Req, Predict(r) \/ PredictFails(r)
    PROVE  Inv'
<1>1. Step(r, "predict", "done") /\ (Release(r, 200) \/ Release(r, 400))
  BY DEF Predict, PredictFails
<1>2. job[r].image \in Images /\ Guarded(job[r].image) = 0
  BY <1>1 DEF Step, Inv, RequestOK, Progress
<1>3. ~OverBudget(job[r].image) /\ job[r].image.header \in {"png", "jpeg"}
  BY <1>2, GuardedMeans
<1> QED BY <1>1, <1>3, ReleaseInv

-----------------------------------------------------------------------------
LEMMA NextInv == Inv /\ [Next]_vars => Inv'
<1> SUFFICES ASSUME Inv, [Next]_vars PROVE Inv'
  OBVIOUS
<1>1. CASE UNCHANGED vars
  BY <1>1 DEF vars, Inv, Shape, Counted, Holders, RequestOK, Progress, Truth
<1>2. CASE Next
  <2>1. PICK r \in Req : Operation(r) /\ Observes
    BY <1>2 DEF Next, Observes
  <2> QED BY <2>1, UnauthorizedInv, UploadInv, GetRecognizerInv, RecognizerFailsInv,
             LoadActiveInv, CasFailsInv, BusyInv, AcquireInv, DecodeImageInv,
             DecodeFailsInv, PredictInv DEF Operation
<1> QED BY <1>1, <1>2

\* The invariant above holds in every reachable state.
THEOREM InvCorrect == Spec => []Inv
<1>1. Init => Inv
  BY InitInv
<1>2. Inv /\ [Next]_vars => Inv'
  BY NextInv
<1> QED BY <1>1, <1>2, PTL DEF Spec

\* ActiveJobs counts the requests between Permit and ~Permit exactly and never passes
\* the limit, and whatever image reaches the model is within the pixel and the BGR
\* budget, for every policy and every set of images.
THEOREM WorkBoundedCorrect == Spec => []WorkIsBounded
<1>1. Inv => WorkIsBounded
  <2> SUFFICES ASSUME Inv PROVE WorkIsBounded
    OBVIOUS
  <2>1. ASSUME NEW r \in Req, pc[r] = "predict"
        PROVE  /\ Decoded(job[r].image)[1] * Decoded(job[r].image)[2] <= pixels
               /\ 3 * Decoded(job[r].image)[1] * Decoded(job[r].image)[2] <= bgr
    <3>1. job[r].image \in Images /\ Guarded(job[r].image) = 0
      BY <2>1 DEF Inv, RequestOK, Progress
    <3> QED BY <3>1, GuardedMeans
  <2> QED BY <2>1 DEF Inv, Counted, WorkIsBounded
<1> QED BY <1>1, InvCorrect, PTL

\* 503 is answered only to a request that met a full counter, 413 only for an image
\* beyond a limit, and 200 only for a PNG or JPEG within all of them.
THEOREM StatusCorrect == Spec => []StatusIsTrue
<1>1. Inv => StatusIsTrue
  BY DEF Inv, RequestOK, Truth, StatusIsTrue
<1> QED BY <1>1, InvCorrect, PTL
=============================================================================
