--------------------------- MODULE DevServer_proofs ---------------------------
(***************************************************************************)
(* Which build the development server serves after a failure, and its      *)
(* state stays well formed, for any inputs and any number of saves and     *)
(* faults.                                                                 *)
(*                                                                         *)
(* That the generations stay within Generations needs an argument: a       *)
(* generation is published only after the fingerprint changed, which takes *)
(* a save, and a second time if the save moved the site's files, because   *)
(* the fingerprint is then taken at the new place.  Counted says so by the *)
(* step the server is at.                                                  *)
(***************************************************************************)
EXTENDS DevServer, SequenceTheorems, TLAPS

USE BoundsAssumption, InputsAssumption

\* A build is due, and the inputs name another place than the build.
Due(project) == input_fingerprint(source, project) # fingerprint
Moved(project) == PlaceOf[source.code] # PlaceOf[project.code]

\* The saves allow for g builds, and for those that are still due.
Fits(g, due, moved) ==
  /\ g <= 2 * edits + 1
  /\ due => g + 1 <= 2 * edits + 1
  /\ due /\ moved => g + 2 <= 2 * edits + 1

\* The generations published, against the saves.
Counted ==
  LET g == published.generation
      b == published.build
  IN /\ server \in {"start", "first_publish"} => g = 0
     /\ server \in {"first_fingerprint", "stopped"} => g <= 1
     /\ server \in {"receive", "watch", "publish"} => Fits(g, Due(b), Moved(b))
     /\ server = "check" => g + 1 <= 2 * edits + 1 /\ (Due(b) \/ Moved(b) => g + 2 <= 2 * edits + 1)
     /\ server = "publish" => Fits(g + 1, Due(Candidate), Moved(Candidate))

Loop == {"receive", "watch", "check", "publish"}

\* What a step of the server starts from.
Control ==
  /\ server \in {"first_publish", "publish"} => checked \in Codes
  /\ server \in Loop \union {"first_fingerprint"} => published.build \in Build
  /\ server = "first_fingerprint" => active = published.build /\ overwritten = FALSE

\* LastGoodUnlessOverwritten, while the server rebuilds too.
LastGood ==
  server \in Loop => IF overwritten THEN Diagnosed ELSE active = published.build

IInv == TypeOK /\ Counted /\ Control /\ LastGood
------------------------------------------------------------------------------
(* Types.                                                                  *)

Servers == {"start", "first_publish", "first_fingerprint", "receive",
            "watch", "check", "publish", "stopped"}

\* Every generation in use has a successor among Generations.
LEMMA NextGeneration ==
  ASSUME TypeOK, Counted
  PROVE  /\ published.generation \in Nat /\ published.generation \in Generations
         /\ published.generation + 1 \in Generations
         /\ edits \in Nat /\ published.generation <= 2 * edits + 1
<1>1. published.generation \in Generations /\ edits \in 0..MaxEdits /\ server \in Servers
  BY DEF TypeOK, Servers
<1>2. published.generation <= 2 * edits + 1
  BY <1>1 DEF Counted, Servers, Generations, Fits
<1>3. QED
  BY <1>1, <1>2 DEF Generations

\* A diagnostic of the next generation.
LEMMA DiagnosticType ==
  ASSUME TypeOK, Counted, NEW b \in [code: Codes, assets: Assets \union {None}]
  PROVE  /\ bounded_diagnostic(b) \in Diagnostic
         /\ bounded_diagnostic(b).generation = published.generation + 1
  BY NextGeneration DEF bounded_diagnostic, Diagnostic

LEMMA CandidateType == ASSUME TypeOK, checked \in Codes PROVE Candidate \in Build
  BY DEF Candidate, TypeOK, Build, Inputs

LEMMA WantedType == ASSUME NEW s \in Inputs PROVE Wanted(s) \in Build
  BY DEF Wanted, Build, Inputs

LEMMA FingerprintType ==
  ASSUME NEW s \in Inputs, NEW b \in Build PROVE input_fingerprint(s, b) \in Fingerprints
<1> DEFINE place == PlaceOf[b.code]
<1>1. place \in Places /\ s.code \in Codes /\ s.files[place] \in Assets
  BY DEF Build, Inputs
<1>2. CASE place \in Skipped
  BY <1>1, <1>2 DEF input_fingerprint, Fingerprints
<1>3. CASE place \notin Skipped
  BY <1>1, <1>3 DEF input_fingerprint, Fingerprints
<1>4. QED
  BY <1>2, <1>3

\* Two projects that name the same place have the same fingerprint.
LEMMA SamePlace ==
  ASSUME NEW s, NEW b, NEW c, PlaceOf[b.code] = PlaceOf[c.code]
  PROVE  input_fingerprint(s, b) = input_fingerprint(s, c)
  BY DEF input_fingerprint

\* The ways in which publishing ends leave a build in the directory, or none.
LEMMA PublishTypes ==
  ASSUME TypeOK, checked \in Codes, write_static_production \/ PublishFails
  PROVE  /\ active' \in Build \union {None} /\ leftover' \subseteq {"staging", "backup"}
         /\ faults' \in 0..MaxFaults /\ overwritten' \in BOOLEAN
         /\ overwritten' = FALSE /\ PublishFails => UNCHANGED <<active, overwritten>>
<1>1. Candidate \in Build /\ active \in Build \union {None}
      /\ leftover \subseteq {"staging", "backup"} /\ faults \in 0..MaxFaults
  BY CandidateType DEF TypeOK
<1>2. faults' \in 0..MaxFaults
  <2>1. faults' = faults \/ Fault
    BY DEF write_static_production, PublishFails, RefuseStale, PopulateFails, PreserveFails,
           RenameFails, CleanupFails, ManifestFails
  <2>2. QED
    BY <1>1, <2>1 DEF Fault
<1>3. active' \in {active, None, Candidate}
  BY DEF write_static_production, PublishFails, RefuseStale, PopulateFails, PreserveFails,
         RenameFails, CleanupFails, ManifestFails, disk
<1>4. leftover' \in {leftover, {"staging"}, {"backup"}}
  BY DEF write_static_production, PublishFails, RefuseStale, PopulateFails, PreserveFails,
         RenameFails, CleanupFails, ManifestFails, disk
<1>5. overwritten' \in {TRUE, FALSE, overwritten} /\ overwritten \in BOOLEAN
  BY DEF write_static_production, PublishFails, RefuseStale, PopulateFails, PreserveFails,
         RenameFails, CleanupFails, ManifestFails, disk, TypeOK
<1>6. overwritten' = FALSE /\ PublishFails => UNCHANGED <<active, overwritten>>
  BY DEF PublishFails, RefuseStale, PopulateFails, PreserveFails,
         RenameFails, CleanupFails, ManifestFails, disk
<1>7. QED
  BY <1>1, <1>2, <1>3, <1>4, <1>5, <1>6

\* publish_static counts one generation.
LEMMA PublishedType ==
  ASSUME TypeOK, Counted, checked \in Codes, publish_static
  PROVE  /\ published' \in [generation: Generations, build: Build \union {None}]
         /\ published'.generation = published.generation + 1 /\ Candidate \in Build
         /\ published'.build = Candidate /\ active' = Candidate /\ diagnostic' = None
         /\ overwritten' = FALSE
  BY NextGeneration, CandidateType DEF publish_static, write_static_production

\* What the page receives.
LEMMA ResponseFields ==
  ASSUME NEW r \in Response
  PROVE  /\ r[1] = "build" => r[2] \in Generations
         /\ r[1] = "diagnostic" => r[2] \in Generations
         /\ r[1] = "details" => r[2] \in Diagnostic \union {None}
         /\ (r[1] = "page" /\ r[2] # None) => r[2] \in Generations /\ r[3] \in Build
  BY DEF Response

\* What the server answers.
LEMMA ResponseType ==
  ASSUME TypeOK, NEW q \in Request PROVE respond_static(q) \in Response
<1>1. /\ active \in Build \union {None} /\ published.generation \in Generations
      /\ diagnostic \in Diagnostic \union {None}
  BY DEF TypeOK
<1>2. CASE q = <<"page">>
  <2>1. respond_static(q) = IF active = None THEN <<"page", None>>
                            ELSE <<"page", published.generation, active>>
    BY <1>2 DEF respond_static
  <2>2. QED
    BY <1>1, <2>1 DEF Response
<1>3. CASE q = <<"events">>
  <2>1. respond_static(q) = event_document
    BY <1>3 DEF respond_static
  <2>2. diagnostic # None => diagnostic.generation \in Generations
    BY <1>1 DEF Diagnostic
  <2>3. QED
    BY <1>1, <2>1, <2>2 DEF event_document, Diagnosed, Response
<1>4. CASE q \in {"diagnostics"} \X Generations
  <2>1. respond_static(q) = <<"details", IF diagnostic # None /\ diagnostic.generation = q[2]
                                         THEN diagnostic ELSE None>>
    BY <1>4 DEF respond_static
  <2>2. QED
    BY <1>1, <2>1 DEF Response
<1>5. QED
  BY <1>2, <1>3, <1>4 DEF Request
------------------------------------------------------------------------------
(* The actions.                                                            *)

LEMMA InitEstablishes == ASSUME Init PROVE IInv
<1>1. source \in Inputs /\ active \in Build \union {None}
  BY WantedType DEF Init
<1>2. requests \in Seq(Request)
  BY DEF Init
<1>3. page \in Page
  BY DEF Init, Page, Generations
<1>4. published \in [generation: Generations, build: Build \union {None}] /\ published.generation = 0
  BY DEF Init, Generations
<1>5. TypeOK
  <2>1. edits \in 0..MaxEdits /\ faults \in 0..MaxFaults
    BY DEF Init
  <2>2. /\ server = "start" /\ fingerprint = None /\ checked = None /\ diagnostic = None
        /\ leftover = {} /\ arrived = {} /\ missed = FALSE /\ overwritten = FALSE
    BY DEF Init
  <2>3. QED
    BY <1>1, <1>2, <1>3, <1>4, <2>1, <2>2 DEF TypeOK
<1>6. server = "start"
  BY DEF Init
<1>7. QED
  BY <1>4, <1>5, <1>6 DEF IInv, Counted, Control, LastGood, Loop

LEMMA EditKeeps == ASSUME IInv, Edit PROVE IInv'
<1>1. /\ edits < MaxEdits /\ edits' = edits + 1
      /\ UNCHANGED <<server, fingerprint, checked, published, diagnostic, active, leftover,
                     overwritten, requests, page, arrived, faults>>
  BY DEF Edit, build, disk, browser
<1>2. missed' \in BOOLEAN
  BY DEF Edit
<1>3. source' \in Inputs
  <2>1. source \in Inputs
    BY DEF IInv, TypeOK
  <2>2. CASE \E c \in Codes \ {source.code} : source' = [source EXCEPT !.code = c]
    BY <2>1, <2>2 DEF Inputs
  <2>3. CASE \E p \in Places : \E a \in Assets \ {source.files[p]} :
               source' = [source EXCEPT !.files[p] = a]
    BY <2>1, <2>3 DEF Inputs
  <2>4. QED
    BY <2>2, <2>3 DEF Edit
<1>4. TypeOK'
  BY <1>1, <1>2, <1>3 DEF IInv, TypeOK
<1>5. Counted'
  <2>1. published.generation \in Nat /\ edits \in Nat
    BY NextGeneration DEF IInv
  <2>2. \A d, m : Fits(published.generation, d, m) => Fits(published.generation, TRUE, TRUE)'
    BY <1>1, <2>1 DEF Fits
  <2>3. \A d, m : Fits(published.generation + 1, d, m) => Fits(published.generation + 1, TRUE, TRUE)'
    BY <1>1, <2>1 DEF Fits
  <2>4. /\ Fits(published.generation, TRUE, TRUE)'
             => Fits(published.generation, Due(published.build), Moved(published.build))'
        /\ Fits(published.generation + 1, TRUE, TRUE)'
             => Fits(published.generation + 1, Due(Candidate), Moved(Candidate))'
    BY DEF Fits
  <2>5. server = "check" => published.generation + 2 <= 2 * edits' + 1
    BY <1>1, <2>1 DEF IInv, Counted
  <2>6. server \in {"receive", "watch", "publish"} => Fits(published.generation, TRUE, TRUE)'
    BY <2>2 DEF IInv, Counted
  <2>7. server = "publish" => Fits(published.generation + 1, TRUE, TRUE)'
    BY <2>3 DEF IInv, Counted
  <2>8. /\ server' \in {"start", "first_publish"} => published'.generation = 0
        /\ server' \in {"first_fingerprint", "stopped"} => published'.generation <= 1
    BY <1>1 DEF IInv, Counted
  <2>9. server' \in {"receive", "watch", "publish"}
          => Fits(published.generation, Due(published.build), Moved(published.build))'
    BY <1>1, <2>4, <2>6
  <2>10. server' = "publish" => Fits(published.generation + 1, Due(Candidate), Moved(Candidate))'
    BY <1>1, <2>4, <2>7
  <2>11. server' = "check" => /\ published'.generation + 1 <= 2 * edits' + 1
                              /\ published'.generation + 2 <= 2 * edits' + 1
    BY <1>1, <2>1, <2>5
  <2>12. QED
    BY <2>8, <2>9, <2>10, <2>11 DEF Counted
<1>6. Control' /\ LastGood'
  BY <1>1 DEF IInv, Control, LastGood, Diagnosed
<1>7. QED
  BY <1>4, <1>5, <1>6 DEF IInv

LEMMA StartCheckKeeps == ASSUME IInv, StartCheck PROVE IInv'
<1>1. /\ server = "start" /\ server' = "first_publish" /\ checked' = source.code
      /\ UNCHANGED <<source, fingerprint, published, diagnostic, active, leftover, overwritten,
                     requests, page, arrived, missed, edits, faults>>
  BY DEF StartCheck, disk, browser
<1>2. checked' \in Codes
  BY <1>1 DEF IInv, TypeOK, Inputs
<1>3. TypeOK'
  BY <1>1, <1>2 DEF IInv, TypeOK
<1>4. QED
  BY <1>1, <1>2, <1>3 DEF IInv, Counted, Control, LastGood, Loop

LEMMA FirstPublishKeeps == ASSUME IInv, FirstPublish PROVE IInv'
<1>1. /\ server = "first_publish" /\ checked' = None /\ checked \in Codes
      /\ published.generation = 0
      /\ UNCHANGED <<source, fingerprint, requests, page, arrived, missed, edits>>
  BY DEF FirstPublish, browser, IInv, Control, Counted
<1>2. CASE publish_static /\ server' = "first_fingerprint"
  <2>1. /\ published' \in [generation: Generations, build: Build \union {None}]
        /\ published'.generation = 1 /\ published'.build = active' /\ diagnostic' = None
        /\ published'.build \in Build /\ overwritten' = FALSE
    BY <1>1, <1>2, PublishedType DEF IInv
  <2>2. /\ active' \in Build \union {None} /\ leftover' \subseteq {"staging", "backup"}
        /\ faults' \in 0..MaxFaults
    BY <1>1, <1>2, PublishTypes DEF IInv, publish_static
  <2>3. TypeOK'
    BY <1>1, <1>2, <2>1, <2>2 DEF IInv, TypeOK
  <2>4. QED
    BY <1>2, <2>1, <2>3 DEF IInv, Counted, Control, LastGood, Loop
<1>3. CASE PublishFails /\ server' = "stopped" /\ UNCHANGED <<published, diagnostic>>
  <2>1. /\ active' \in Build \union {None} /\ leftover' \subseteq {"staging", "backup"}
        /\ faults' \in 0..MaxFaults /\ overwritten' \in BOOLEAN
    BY <1>1, <1>3, PublishTypes DEF IInv
  <2>2. TypeOK'
    BY <1>1, <1>3, <2>1 DEF IInv, TypeOK
  <2>3. QED
    BY <1>1, <1>3, <2>2 DEF IInv, Counted, Control, LastGood, Loop
<1>4. QED
  BY <1>2, <1>3 DEF FirstPublish

\* The fault count stays in its bounds when a fingerprint fails.
LEMMA FingerprintFaults ==
  ASSUME TypeOK, FingerprintFails PROVE faults' \in 0..MaxFaults
  BY DEF TypeOK, FingerprintFails, Fault

LEMMA FirstFingerprintKeeps == ASSUME IInv, FirstFingerprint PROVE IInv'
<1>1. /\ server = "first_fingerprint" /\ active = published.build /\ overwritten = FALSE
      /\ UNCHANGED <<source, checked, published, diagnostic, active, leftover, overwritten,
                     requests, page, arrived, edits>>
      /\ published.generation <= 1 /\ published.generation \in Nat /\ edits \in Nat
      /\ published.build \in Build /\ source \in Inputs
  BY NextGeneration DEF FirstFingerprint, disk, browser, IInv, Control, Counted, TypeOK
<1>2. CASE FingerprintFails /\ server' = "stopped" /\ UNCHANGED <<fingerprint, missed>>
  <2>1. TypeOK'
    BY <1>1, <1>2, FingerprintFaults DEF IInv, TypeOK
  <2>2. QED
    BY <1>1, <1>2, <2>1 DEF IInv, Counted, Control, LastGood, Loop
<1>3. CASE /\ fingerprint' = input_fingerprint(source, published.build)
           /\ missed' = (published.build # Wanted(source))
           /\ server' = "receive" /\ UNCHANGED faults
  <2>1. fingerprint' \in Fingerprints /\ missed' \in BOOLEAN
    BY <1>1, <1>3, FingerprintType
  <2>2. TypeOK'
    BY <1>1, <1>3, <2>1 DEF IInv, TypeOK
  <2>3. ~Due(published.build)'
    BY <1>1, <1>3 DEF Due
  <2>4. Counted'
    BY <1>1, <1>3, <2>3 DEF Counted, Fits
  <2>5. QED
    BY <1>1, <1>3, <2>2, <2>4 DEF IInv, Control, LastGood, Loop
<1>4. QED
  BY <1>2, <1>3 DEF FirstFingerprint

LEMMA ReceiveKeeps == ASSUME IInv, Receive PROVE IInv'
<1>1. /\ server = "receive" /\ server' = "watch"
      /\ UNCHANGED <<source, fingerprint, checked, published, diagnostic, active, leftover,
                     overwritten, page, missed, edits, faults>>
  BY DEF Receive, build, disk
<1>2. arrived' \subseteq Response /\ requests' \in Seq(Request)
  <2>1. CASE requests # <<>> /\ arrived' = arrived \union {respond_static(Head(requests))}
             /\ requests' = Tail(requests)
    <3>1. Head(requests) \in Request /\ Tail(requests) \in Seq(Request)
      BY <2>1 DEF IInv, TypeOK
    <3>2. respond_static(Head(requests)) \in Response
      BY <3>1, ResponseType DEF IInv
    <3>3. QED
      BY <2>1, <3>1, <3>2 DEF IInv, TypeOK
  <2>2. CASE UNCHANGED <<arrived, requests>>
    BY <2>2 DEF IInv, TypeOK
  <2>3. QED
    BY <2>1, <2>2 DEF Receive
<1>3. TypeOK'
  BY <1>1, <1>2 DEF IInv, TypeOK
<1>4. Counted'
  BY <1>1, <1>3 DEF IInv, Counted, Due, Moved, Fits
<1>5. QED
  BY <1>1, <1>3, <1>4 DEF IInv, Control, LastGood, Loop, Diagnosed

LEMMA WatchKeeps == ASSUME IInv, Watch PROVE IInv'
<1>1. /\ server = "watch"
      /\ UNCHANGED <<source, checked, published, active, leftover, overwritten, requests, page,
                     arrived, edits>>
  BY DEF Watch, disk, browser
<1>2. source \in Inputs /\ published.generation \in Nat /\ published.generation <= 2 * edits + 1
      /\ edits \in Nat /\ published.build \in Build /\ source.code \in Codes
  BY <1>1, NextGeneration DEF IInv, TypeOK, Control, Loop, Inputs
<1>3. Fits(published.generation, Due(published.build), Moved(published.build))
  BY <1>1 DEF IInv, Counted
<1>4. CASE /\ FingerprintFails
           /\ diagnostic' = bounded_diagnostic([code |-> source.code, assets |-> None])
           /\ server' = "receive" /\ missed' = FALSE /\ UNCHANGED fingerprint
  <2>1. [code |-> source.code, assets |-> None] \in [code: Codes, assets: Assets \union {None}]
    BY <1>2
  <2>2. diagnostic' \in Diagnostic /\ diagnostic'.generation = published.generation + 1
    BY <1>4, <2>1, DiagnosticType DEF IInv
  <2>3. TypeOK'
    BY <1>1, <1>4, <2>2, FingerprintFaults DEF IInv, TypeOK
  <2>4. Diagnosed'
    BY <1>1, <1>2, <2>2, NoneAssumption DEF Diagnosed
  <2>5. Counted'
    BY <1>1, <1>3, <1>4 DEF Counted, Due, Moved, Fits
  <2>6. LastGood'
    BY <1>1, <1>4, <2>4 DEF IInv, LastGood, Loop
  <2>7. QED
    BY <1>1, <1>4, <2>3, <2>5, <2>6 DEF IInv, Control, Loop
<1>5. CASE /\ Seen # fingerprint /\ fingerprint' = Seen /\ server' = "check"
           /\ missed' = FALSE /\ UNCHANGED <<diagnostic, faults>>
  <2>1. Seen \in Fingerprints
    BY <1>2, FingerprintType DEF Seen
  <2>2. TypeOK'
    BY <1>1, <1>5, <2>1 DEF IInv, TypeOK
  <2>3. Due(published.build) /\ ~Due(published.build)' /\ (Moved(published.build)' <=> Moved(published.build))
    BY <1>1, <1>5 DEF Due, Seen, Moved
  <2>4. Counted'
    BY <1>1, <1>2, <1>3, <1>5, <2>3 DEF Counted, Fits
  <2>5. QED
    BY <1>1, <1>5, <2>2, <2>4 DEF IInv, Control, LastGood, Loop, Diagnosed
<1>6. CASE server' = "receive" /\ UNCHANGED <<fingerprint, diagnostic, missed, faults>>
  <2>1. TypeOK'
    BY <1>1, <1>6 DEF IInv, TypeOK
  <2>2. Counted'
    BY <1>1, <1>3, <1>6 DEF Counted, Due, Moved, Fits
  <2>3. QED
    BY <1>1, <1>6, <2>1, <2>2 DEF IInv, Control, LastGood, Loop, Diagnosed
<1>7. QED
  BY <1>4, <1>5, <1>6 DEF Watch

LEMMA CheckKeeps == ASSUME IInv, Check PROVE IInv'
<1>1. /\ server = "check" /\ source.code \in Codes /\ published.build \in Build
      /\ UNCHANGED <<source, fingerprint, published, active, leftover, overwritten, requests,
                     page, arrived, missed, edits, faults>>
  BY DEF Check, disk, browser, IInv, TypeOK, Inputs, Control, Loop
<1>2. /\ published.generation \in Nat /\ edits \in Nat /\ published.generation + 1 <= 2 * edits + 1
      /\ Due(published.build) \/ Moved(published.build) => published.generation + 2 <= 2 * edits + 1
  BY <1>1, NextGeneration DEF IInv, Counted
<1>3. /\ Due(published.build)' <=> Due(published.build)
      /\ Moved(published.build)' <=> Moved(published.build)
  BY <1>1 DEF Due, Moved
<1>4. Fits(published.generation, Due(published.build), Moved(published.build))'
  BY <1>1, <1>2, <1>3 DEF Fits
<1>5. CASE /\ diagnostic' = bounded_diagnostic([code |-> source.code, assets |-> None])
           /\ server' = "receive" /\ UNCHANGED checked
  <2>1. [code |-> source.code, assets |-> None] \in [code: Codes, assets: Assets \union {None}]
    BY <1>1
  <2>2. diagnostic' \in Diagnostic /\ diagnostic'.generation = published.generation + 1
    BY <1>5, <2>1, DiagnosticType DEF IInv
  <2>3. TypeOK'
    BY <1>1, <1>5, <2>2 DEF IInv, TypeOK
  <2>4. Diagnosed'
    BY <1>1, <1>2, <2>2, NoneAssumption DEF Diagnosed
  <2>5. Counted'
    BY <1>1, <1>4, <1>5 DEF Counted
  <2>6. LastGood'
    BY <1>1, <1>5, <2>4 DEF IInv, LastGood, Loop
  <2>7. QED
    BY <1>1, <1>5, <2>3, <2>5, <2>6 DEF IInv, Control, Loop
<1>6. CASE checked' = source.code /\ server' = "publish" /\ UNCHANGED diagnostic
  <2>1. TypeOK'
    BY <1>1, <1>6 DEF IInv, TypeOK
  <2>2. Candidate'.code = source.code
    BY <1>1, <1>6 DEF Candidate
  <2>3. ~Moved(Candidate)'
    BY <1>1, <2>2 DEF Moved
  <2>4. Due(Candidate)' => Due(published.build) \/ Moved(published.build)
    BY <1>1, <2>2, SamePlace DEF Due, Moved
  <2>5. Fits(published.generation + 1, Due(Candidate), Moved(Candidate))'
    BY <1>1, <1>2, <2>3, <2>4 DEF Fits
  <2>6. Counted'
    BY <1>1, <1>4, <1>6, <2>5 DEF Counted
  <2>7. QED
    BY <1>1, <1>6, <2>1, <2>6 DEF IInv, Control, LastGood, Loop, Diagnosed
<1>7. QED
  BY <1>5, <1>6 DEF Check

LEMMA PublishKeeps == ASSUME IInv, Publish PROVE IInv'
<1>1. /\ server = "publish" /\ checked' = None /\ checked \in Codes /\ server' = "receive"
      /\ published.build \in Build
      /\ UNCHANGED <<source, fingerprint, requests, page, arrived, missed, edits>>
  BY DEF Publish, browser, IInv, Control, Loop
<1>2. published.generation \in Nat /\ edits \in Nat
  BY NextGeneration DEF IInv
<1>3. CASE publish_static
  <2>1. /\ published' \in [generation: Generations, build: Build \union {None}]
        /\ published'.generation = published.generation + 1
        /\ published'.build = Candidate /\ active' = Candidate /\ diagnostic' = None
        /\ Candidate \in Build /\ overwritten' = FALSE
    BY <1>1, <1>3, PublishedType DEF IInv
  <2>2. /\ leftover' \subseteq {"staging", "backup"} /\ faults' \in 0..MaxFaults
    BY <1>1, <1>3, PublishTypes DEF IInv, publish_static
  <2>3. TypeOK'
    BY <1>1, <2>1, <2>2 DEF IInv, TypeOK
  <2>4. Fits(published.generation + 1, Due(Candidate), Moved(Candidate))
    BY <1>1 DEF IInv, Counted
  <2>5. /\ Due(published.build)' <=> Due(Candidate)
        /\ Moved(published.build)' <=> Moved(Candidate)
    BY <1>1, <2>1 DEF Due, Moved
  <2>6. Counted'
    BY <1>1, <2>1, <2>4, <2>5 DEF Counted, Fits
  <2>7. QED
    BY <1>1, <2>1, <2>3, <2>6 DEF IInv, Control, LastGood, Loop
<1>4. CASE PublishFails /\ diagnostic' = bounded_diagnostic(Candidate) /\ UNCHANGED published
  <2>1. /\ active' \in Build \union {None} /\ leftover' \subseteq {"staging", "backup"}
        /\ faults' \in 0..MaxFaults /\ overwritten' \in BOOLEAN
        /\ overwritten' = FALSE => UNCHANGED <<active, overwritten>>
    BY <1>1, <1>4, PublishTypes DEF IInv
  <2>2. Candidate \in [code: Codes, assets: Assets \union {None}]
    BY <1>1, CandidateType DEF IInv, Build
  <2>3. diagnostic' \in Diagnostic /\ diagnostic'.generation = published.generation + 1
    BY <1>1, <1>4, <2>2, DiagnosticType DEF IInv
  <2>4. TypeOK'
    BY <1>1, <1>4, <2>1, <2>3 DEF IInv, TypeOK
  <2>5. Diagnosed'
    BY <1>2, <1>4, <2>3, NoneAssumption DEF Diagnosed
  <2>6. Counted'
    BY <1>1, <1>4 DEF IInv, Counted, Due, Moved, Fits
  <2>7. LastGood'
    BY <1>1, <1>4, <2>1, <2>5 DEF IInv, LastGood, Loop
  <2>8. QED
    BY <1>1, <1>4, <2>4, <2>6, <2>7 DEF IInv, Control, Loop
<1>5. QED
  BY <1>3, <1>4 DEF Publish

\* The handlers of the page leave the server alone.
Served == <<source, server, fingerprint, checked, published, diagnostic, active, leftover,
            overwritten, missed, edits, faults>>

LEMMA PageKeeps ==
  ASSUME IInv, UNCHANGED Served, page' \in Page, requests' \in Seq(Request), arrived' \subseteq Response
  PROVE  IInv'
<1>1. TypeOK'
  BY DEF IInv, TypeOK, Served
<1>2. Counted'
  BY DEF IInv, Counted, Due, Moved, Fits, Candidate, Served
<1>3. QED
  BY <1>1, <1>2 DEF IInv, Control, LastGood, Diagnosed, Served

LEMMA Asked ==
  ASSUME requests \in Seq(Request), NEW q \in Request, Ask(q) PROVE requests' \in Seq(Request)
  BY DEF Ask

LEMMA OpenKeeps == ASSUME IInv, Open PROVE IInv'
<1>1. page' \in Page
  BY DEF Open, IInv, TypeOK, Page
<1>2. requests' \in Seq(Request)
  BY Asked DEF Open, IInv, TypeOK, Request
<1>3. UNCHANGED Served /\ arrived' \subseteq Response
  BY DEF Open, IInv, TypeOK, Served, build, disk
<1>4. QED
  BY <1>1, <1>2, <1>3, PageKeeps

LEMMA LoadKeeps == ASSUME IInv, Load PROVE IInv'
<1>1. PICK r \in arrived :
        /\ r[1] = "page" /\ arrived' = arrived \ {r}
        /\ IF r[2] = None
             THEN page' = [page EXCEPT !.at = "error"] /\ UNCHANGED requests
             ELSE /\ page' = [at |-> "open", generation |-> r[2], shows |-> r[3], overlay |-> None]
                  /\ Ask(<<"events">>)
  BY DEF Load
<1>2. r \in Response /\ requests \in Seq(Request) /\ page \in Page /\ arrived' \subseteq Response
  BY <1>1 DEF IInv, TypeOK
<1>3. UNCHANGED Served
  BY DEF Load, Served, build, disk
<1>4. CASE r[2] = None
  <2>1. page' \in Page /\ requests' \in Seq(Request)
    BY <1>1, <1>2, <1>4 DEF Page
  <2>2. QED
    BY <1>2, <1>3, <2>1, PageKeeps
<1>5. CASE r[2] # None
  <2>1. page' \in Page
    BY <1>1, <1>2, <1>5, ResponseFields DEF Page
  <2>2. requests' \in Seq(Request)
    BY <1>1, <1>2, <1>5, Asked DEF Request
  <2>3. QED
    BY <1>2, <1>3, <2>1, <2>2, PageKeeps
<1>6. QED
  BY <1>4, <1>5

LEMMA HandleBuildKeeps == ASSUME IInv, HandleBuild PROVE IInv'
<1>1. PICK r \in arrived :
        /\ r[1] = "build"
        /\ IF r[2] > page.generation
             THEN /\ page' = [page EXCEPT !.at = "loading", !.generation = r[2]]
                  /\ requests' = <<<<"page">>>>
                  /\ arrived' = {}
             ELSE /\ Ask(<<"events">>)
                  /\ arrived' = arrived \ {r}
                  /\ UNCHANGED page
  BY DEF HandleBuild
<1>2. r \in Response /\ requests \in Seq(Request) /\ page \in Page /\ arrived' \subseteq Response
  BY <1>1 DEF IInv, TypeOK
<1>3. UNCHANGED Served
  BY DEF HandleBuild, Served, build, disk
<1>4. CASE r[2] > page.generation
  <2>1. r[2] \in Generations
    BY <1>1, <1>2, ResponseFields
  <2>2. page' \in Page
    BY <1>1, <1>2, <1>4, <2>1 DEF Page
  <2>3. requests' \in Seq(Request)
    <3>1. <<"page">> \in Request
      BY DEF Request
    <3>2. requests' = <<<<"page">>>>
      BY <1>1, <1>4
    <3>3. QED
      BY <3>1, <3>2
  <2>4. QED
    BY <1>2, <1>3, <2>2, <2>3, PageKeeps
<1>5. CASE ~(r[2] > page.generation)
  <2>1. requests' \in Seq(Request) /\ page' \in Page
    BY <1>1, <1>2, <1>5, Asked DEF Request
  <2>2. QED
    BY <1>2, <1>3, <2>1, PageKeeps
<1>6. QED
  BY <1>4, <1>5

LEMMA HandleDiagnosticKeeps == ASSUME IInv, HandleDiagnostic PROVE IInv'
<1>1. PICK r \in arrived :
        /\ r[1] = "diagnostic" /\ arrived' = arrived \ {r}
        /\ requests' = requests
             \o (IF r[2] > page.generation
                   /\ \A i \in DOMAIN requests : requests[i] # <<"diagnostics", r[2]>>
                   THEN <<<<"diagnostics", r[2]>>>> ELSE <<>>)
             \o <<<<"events">>>>
  BY DEF HandleDiagnostic
<1>2. r \in Response /\ requests \in Seq(Request) /\ page \in Page /\ arrived' \subseteq Response
  BY <1>1 DEF IInv, TypeOK
<1>3. UNCHANGED Served /\ page' \in Page
  BY <1>2 DEF HandleDiagnostic, Served, build, disk
<1> DEFINE d == IF r[2] > page.generation
                   /\ \A i \in DOMAIN requests : requests[i] # <<"diagnostics", r[2]>>
                THEN <<<<"diagnostics", r[2]>>>> ELSE <<>>
<1>4. r[2] \in Generations
  BY <1>1, <1>2, ResponseFields
<1>5. <<"diagnostics", r[2]>> \in Request /\ <<"events">> \in Request
  BY <1>4 DEF Request
<1>6. d \in Seq(Request) /\ <<<<"events">>>> \in Seq(Request)
  <2>1. <<<<"diagnostics", r[2]>>>> \in Seq(Request) /\ <<>> \in Seq(Request)
        /\ <<<<"events">>>> \in Seq(Request)
    BY <1>5
  <2>2. QED
    BY <2>1
<1>7. requests' = requests \o d \o <<<<"events">>>>
  BY <1>1
<1> HIDE DEF d
<1>8. requests' \in Seq(Request)
  BY <1>2, <1>6, <1>7
<1>9. QED
  BY <1>2, <1>3, <1>8, PageKeeps

LEMMA ShowOverlayKeeps == ASSUME IInv, ShowOverlay PROVE IInv'
<1>1. PICK r \in arrived :
        /\ r[1] = "details" /\ arrived' = arrived \ {r}
        /\ page' = [page EXCEPT !.overlay = IF r[2] = None THEN @ ELSE r[2]]
  BY DEF ShowOverlay
<1>2. /\ r \in Response /\ requests' \in Seq(Request) /\ page \in Page /\ arrived' \subseteq Response
      /\ UNCHANGED Served
  BY <1>1 DEF IInv, TypeOK, ShowOverlay, Served, build, disk
<1>3. r[2] \in Diagnostic \union {None}
  BY <1>1, <1>2, ResponseFields
<1>4. page' \in Page
  BY <1>1, <1>2, <1>3 DEF Page
<1>5. QED
  BY <1>2, <1>4, PageKeeps

LEMMA NextPreserves == ASSUME IInv, [Next]_vars PROVE IInv'
<1>1. CASE UNCHANGED vars
  BY <1>1, PageKeeps DEF vars, IInv, TypeOK, Served, build, disk, browser
<1>2. QED
  BY <1>1, EditKeeps, StartCheckKeeps, FirstPublishKeeps, FirstFingerprintKeeps, ReceiveKeeps,
     WatchKeeps, CheckKeeps, PublishKeeps, OpenKeeps, LoadKeeps, HandleBuildKeeps,
     HandleDiagnosticKeeps, ShowOverlayKeeps DEF Next, Server

------------------------------------------------------------------------------
(* Theorems.                                                               *)

\* Every variable keeps its type; in particular the generation of a static
\* site never outruns the saves: at most two builds are published for a save,
\* the second one when the save moved the site's files.
THEOREM ServerTypes == Spec => []TypeOK
<1>1. IInv => TypeOK
  BY DEF IInv
<1>2. QED
  BY <1>1, InitEstablishes, NextPreserves, PTL DEF Spec

\* Last-good serving (static_site.rs): whenever the server answers a request,
\* the directory it serves from is the published build, unless publish_artifacts
\* failed after it had moved the directory, or publish_static after that; a
\* diagnostic of a later generation is then announced.
THEOREM LastGoodIsServed == Spec => []LastGoodUnlessOverwritten
<1>1. IInv => LastGoodUnlessOverwritten
  BY DEF IInv, LastGood, LastGoodUnlessOverwritten, Answering, Loop
<1>2. QED
  BY <1>1, InitEstablishes, NextPreserves, PTL DEF Spec
=============================================================================
