------------------------------ MODULE DevServer ------------------------------
(***************************************************************************)
(* `witchy dev` for a static site (src/src/commands/web/dev/static_site.rs *)
(* and the parts of web.rs and dev.rs it uses): one thread answers HTTP    *)
(* requests, watches the project's inputs and rebuilds, while a developer  *)
(* saves files at any moment and a browser page polls for events.          *)
(*                                                                         *)
(* The inputs are the code (Witchy modules, content and witchy.toml, read  *)
(* when the site is checked) and files (style sheet and public files, read *)
(* when the artifacts are written).  witchy.toml says at which place the   *)
(* files of the site are, so a code has a place, and a build is the code   *)
(* and the assets at its place that were read.  Hashing is injective.      *)
(***************************************************************************)
EXTENDS Naturals, Sequences, FiniteSets

CONSTANTS
  Codes,          \* contents of the code
  Unparsable,     \* the codes with a syntax error
  Ill,            \* the codes that parse and do not check
  Places,         \* where a witchy.toml can say the files are
  PlaceOf,        \* the place the witchy.toml of a code names
  Skipped,        \* the places in directories that input_fingerprint skips
  Assets,         \* contents of the files at a place
  Unpublishable,  \* the assets populate_static_artifacts refuses
  MaxEdits,       \* bound on the saves
  MaxFaults,      \* bound on the file-system errors
  None

ASSUME InputsAssumption ==
  /\ Unparsable \subseteq Codes /\ Ill \subseteq Codes \ Unparsable
  /\ Unpublishable \subseteq Assets
  /\ PlaceOf \in [Codes -> Places] /\ Skipped \subseteq Places
ASSUME BoundsAssumption == MaxEdits \in Nat /\ MaxFaults \in Nat

VARIABLES
  source,       \* the inputs on disk
  server,       \* the step the server is at
  fingerprint,  \* command's fingerprint
  checked,      \* the code read by check_static_project, while it is built
  published,    \* StaticPublished: generation and build
  diagnostic,   \* published.diagnostic
  active,       \* the build in the directory .witchy/web/active
  leftover,     \* the staging and backup directories that were not removed
  overwritten,  \* history: the last publication failed with the directory moved
  requests,     \* tiny_http's queue
  page,         \* the browser's page
  arrived,      \* responses the page has not handled yet
  missed,       \* history: the watch cannot tell the last save from what it knows
  edits, faults

disk == <<active, leftover, overwritten>>
browser == <<page, arrived>>
build == <<fingerprint, checked, published, diagnostic>>
vars == <<source, server, build, disk, requests, browser, missed, edits, faults>>

Build == [code: Codes, assets: Assets]
Inputs == [code: Codes, files: [Places -> Assets]]
Generations == 0..(2 * MaxEdits + 2)

(* What a message is about: a code, or a code and the assets at its place. *)
Diagnostic == [generation: Generations, about: [code: Codes, assets: Assets \union {None}]]

(* What input_fingerprint takes.                                           *)
Fingerprints == [code: Codes, place: Places \union {None}, assets: Assets \union {None}]

ASSUME NoneAssumption ==
  None \notin Codes \union Assets \union Places \union Build \union Generations
                 \union Diagnostic \union Fingerprints

Request == {<<"page">>, <<"events">>} \union ({"diagnostics"} \X Generations)
Response ==
  ({"page"} \X Generations \X Build) \union {<<"page", None>>}
    \union ({"build"} \X Generations) \union ({"diagnostic"} \X Generations)
    \union ({"details"} \X (Diagnostic \union {None}))

(* The fields of a page: where it is, the generation its client was        *)
(* started with or has accepted, what it displays and its overlay.         *)
Page == [at: {"closed", "loading", "open", "error"}, generation: Generations,
         shows: Build \union {None}, overlay: Diagnostic \union {None}]

TypeOK ==
  /\ source \in Inputs
  /\ server \in {"start", "first_publish", "first_fingerprint", "receive",
                 "watch", "check", "publish", "stopped"}
  /\ fingerprint \in Fingerprints \union {None}
  /\ checked \in Codes \union {None}
  /\ published \in [generation: Generations, build: Build \union {None}]
  /\ diagnostic \in Diagnostic \union {None}
  /\ active \in Build \union {None}
  /\ leftover \subseteq {"staging", "backup"}
  /\ overwritten \in BOOLEAN
  /\ requests \in Seq(Request)
  /\ page \in Page
  /\ arrived \subseteq Response
  /\ missed \in BOOLEAN
  /\ edits \in 0..MaxEdits
  /\ faults \in 0..MaxFaults

(* The build the inputs call for.                                          *)
Wanted(s) == [code |-> s.code, assets |-> s.files[PlaceOf[s.code]]]

(* `active` may hold what an earlier process published.                    *)
Init ==
  /\ source \in {s \in Inputs : s.code \notin Unparsable \union Ill
                                  /\ \A p \in Places : s.files[p] \notin Unpublishable}
  /\ server = "start"
  /\ fingerprint = None /\ checked = None
  /\ published = [generation |-> 0, build |-> None]
  /\ diagnostic = None
  /\ active \in {None, Wanted(source)}
  /\ leftover = {} /\ overwritten = FALSE
  /\ requests = <<>>
  /\ page = [at |-> "closed", generation |-> 0, shows |-> None, overlay |-> None]
  /\ arrived = {}
  /\ missed = FALSE
  /\ edits = 0 /\ faults = 0

------------------------------------------------------------------------------
(* input_fingerprint: the walk skips the directories target*, .witchy,     *)
(* .git and dist, and takes of the other files the modules, the manifests  *)
(* and what the project it is given names.  That project is the published  *)
(* one, so the files at a place that witchy.toml names since are not seen. *)
input_fingerprint(s, project) ==
  LET place == PlaceOf[project.code]
  IN IF place \in Skipped
       THEN [code |-> s.code, place |-> None, assets |-> None]
       ELSE [code |-> s.code, place |-> place, assets |-> s.files[place]]

(* It parses every module and reads every file, and fails if it cannot.    *)
Fault == faults < MaxFaults /\ faults' = faults + 1

FingerprintFails ==
  \/ source.code \in Unparsable /\ UNCHANGED faults
  \/ Fault

(* static_event_document announces the diagnostic of a later generation.   *)
Diagnosed == diagnostic # None /\ diagnostic.generation > published.generation

Concerns(d, s) == d.about.code = s.code /\ d.about.assets \in {None, Wanted(s).assets}

(* What the server announces is about the inputs s.                        *)
Answered(s) ==
  IF Diagnosed THEN Concerns(diagnostic, s) ELSE published.build = Wanted(s)

(* The developer saves a file.  The save is missed if it leaves the inputs *)
(* with the fingerprint the server holds, and the server has not answered  *)
(* for these inputs or is reading them.                                    *)
Edit ==
  /\ edits < MaxEdits
  /\ \/ \E c \in Codes \ {source.code} : source' = [source EXCEPT !.code = c]
     \/ \E p \in Places : \E a \in Assets \ {source.files[p]} :
          source' = [source EXCEPT !.files[p] = a]
  /\ edits' = edits + 1
  /\ missed' = /\ fingerprint # None
               /\ input_fingerprint(source', published.build) = fingerprint
               /\ (server \in {"check", "publish"} \/ ~Answered(source'))
  /\ UNCHANGED <<server, build, disk, requests, browser, faults>>

------------------------------------------------------------------------------
(* publish_artifacts: the staging directory is filled, the output moved    *)
(* aside, the staging directory renamed to the output, the old output      *)
(* removed.  Each alternative is one way it ends; a file-system error uses *)
(* up one of MaxFaults.  write_static_production is the way that returns   *)
(* Ok.                                                                     *)
Candidate == [code |-> checked, assets |-> source.files[PlaceOf[checked]]]
Publishable == Candidate.assets \notin Unpublishable

RefuseStale ==
  /\ leftover # {}
  /\ UNCHANGED <<disk, faults>>

PopulateFails ==
  /\ leftover = {}
  /\ \/ ~Publishable /\ UNCHANGED faults
     \/ Fault
  /\ UNCHANGED disk

PreserveFails ==
  /\ leftover = {} /\ active # None
  /\ Publishable
  /\ Fault
  /\ leftover' = {"staging"} /\ UNCHANGED <<active, overwritten>>

(* Mutant: the old output is not moved back.                               *)
RenameFails_NotRestored ==
  /\ leftover = {} /\ active # None
  /\ Publishable
  /\ Fault
  /\ active' = None /\ leftover' = {"backup"} /\ UNCHANGED overwritten

RenameFails ==
  /\ leftover = {}
  /\ Publishable
  /\ \/ Fault /\ UNCHANGED disk
     \/ /\ active # None /\ Fault
        /\ active' = None /\ leftover' = {"backup"} /\ overwritten' = TRUE

CleanupFails ==
  /\ leftover = {} /\ active # None
  /\ Publishable
  /\ Fault
  /\ active' = Candidate /\ leftover' = {"backup"} /\ overwritten' = TRUE

(* publish_static reads the manifest back from the published directory.    *)
ManifestFails ==
  /\ leftover = {}
  /\ Publishable
  /\ Fault
  /\ active' = Candidate /\ overwritten' = TRUE /\ UNCHANGED leftover

PublishFails ==
  RefuseStale \/ PopulateFails \/ PreserveFails \/ RenameFails \/ CleanupFails \/ ManifestFails

write_static_production ==
  /\ leftover = {}
  /\ Publishable
  /\ active' = Candidate /\ overwritten' = FALSE
  /\ UNCHANGED <<leftover, faults>>

(* Mutant: the generation is counted by the loop and by publish_static.    *)
publish_static_CountsTwice ==
  /\ write_static_production
  /\ published' = [generation |-> published.generation + 2, build |-> Candidate]
  /\ diagnostic' = None

(* publish_static: the new StaticPublished, with no diagnostic.            *)
publish_static ==
  /\ write_static_production
  /\ published' = [generation |-> published.generation + 1, build |-> Candidate]
  /\ diagnostic' = None

------------------------------------------------------------------------------
(* command, up to its loop.  A failure of any step ends the program.       *)
StartCheck ==
  /\ server = "start"
  /\ checked' = source.code
  /\ server' = "first_publish"
  /\ UNCHANGED <<source, fingerprint, published, diagnostic, disk, requests, browser,
                 missed, edits, faults>>

FirstPublish ==
  /\ server = "first_publish"
  /\ \/ publish_static /\ server' = "first_fingerprint"
     \/ PublishFails /\ server' = "stopped" /\ UNCHANGED <<published, diagnostic>>
  /\ checked' = None
  /\ UNCHANGED <<source, fingerprint, requests, browser, missed, edits>>

(* The fingerprint is of the inputs as they are now, which may be others   *)
(* than the ones that were built.                                          *)
FirstFingerprint ==
  /\ server = "first_fingerprint"
  /\ \/ /\ FingerprintFails
        /\ server' = "stopped" /\ UNCHANGED <<fingerprint, missed>>
     \/ /\ source.code \notin Unparsable
        /\ fingerprint' = input_fingerprint(source, published.build)
        /\ missed' = (published.build # Wanted(source))
        /\ server' = "receive" /\ UNCHANGED faults
  /\ UNCHANGED <<source, checked, published, diagnostic, disk, requests, browser, edits>>

------------------------------------------------------------------------------
event_document ==
  IF Diagnosed THEN <<"diagnostic", diagnostic.generation>>
               ELSE <<"build", published.generation>>

(* respond_static: a page is read from `active` and stamped with the       *)
(* published generation; an unreadable `active` fails the request.         *)
respond_static(request) ==
  CASE request[1] = "page" ->
         IF active = None THEN <<"page", None>>
                          ELSE <<"page", published.generation, active>>
    [] request[1] = "events" -> event_document
    [] request[1] = "diagnostics" ->
         <<"details", IF diagnostic # None /\ diagnostic.generation = request[2]
                        THEN diagnostic ELSE None>>

(* recv_timeout takes the oldest request, or times out on an empty queue.  *)
Receive ==
  /\ server = "receive"
  /\ \/ /\ requests # <<>>
        /\ arrived' = arrived \union {respond_static(Head(requests))}
        /\ requests' = Tail(requests)
     \/ /\ requests = <<>>
        /\ UNCHANGED <<arrived, requests>>
  /\ server' = "watch"
  /\ UNCHANGED <<source, build, disk, page, missed, edits, faults>>

(* bounded_diagnostic; the message is what the failed step read.           *)
bounded_diagnostic(about) == [generation |-> published.generation + 1, about |-> about]

Seen == input_fingerprint(source, published.build)

(* Mutant: a code that does not parse is skipped without a diagnostic.     *)
Watch_Forgets ==
  /\ server = "watch"
  /\ server' = IF Seen = fingerprint \/ source.code \in Unparsable THEN "receive" ELSE "check"
  /\ fingerprint' = Seen
  /\ missed' = (missed /\ server' # "check")
  /\ UNCHANGED <<source, checked, published, diagnostic, disk, requests, browser, edits, faults>>

(* A failed fingerprint is reported and the old one stays.                 *)
Watch ==
  /\ server = "watch"
  /\ \/ /\ FingerprintFails
        /\ diagnostic' = bounded_diagnostic([code |-> source.code, assets |-> None])
        /\ server' = "receive"
        /\ missed' = FALSE
        /\ UNCHANGED fingerprint
     \/ /\ source.code \notin Unparsable /\ Seen # fingerprint
        /\ fingerprint' = Seen
        /\ server' = "check"
        /\ missed' = FALSE
        /\ UNCHANGED <<diagnostic, faults>>
     \/ /\ source.code \notin Unparsable /\ Seen = fingerprint
        /\ server' = "receive"
        /\ UNCHANGED <<fingerprint, diagnostic, missed, faults>>
  /\ UNCHANGED <<source, checked, published, disk, requests, browser, edits>>

(* load_project and check_static_project.                                  *)
Check ==
  /\ server = "check"
  /\ IF source.code \in Unparsable \union Ill
       THEN /\ diagnostic' = bounded_diagnostic([code |-> source.code, assets |-> None])
            /\ server' = "receive" /\ UNCHANGED checked
       ELSE /\ checked' = source.code
            /\ server' = "publish" /\ UNCHANGED diagnostic
  /\ UNCHANGED <<source, fingerprint, published, disk, requests, browser, missed, edits, faults>>

Publish ==
  /\ server = "publish"
  /\ \/ publish_static
     \/ /\ PublishFails
        /\ diagnostic' = bounded_diagnostic(Candidate)
        /\ UNCHANGED published
  /\ checked' = None
  /\ server' = "receive"
  /\ UNCHANGED <<source, fingerprint, requests, browser, missed, edits>>

------------------------------------------------------------------------------
(* The browser (CLIENT_SOURCE).  The developer opens the page once the     *)
(* server listens.                                                         *)
Ask(request) == requests' = Append(requests, request)

Open ==
  /\ page.at = "closed" /\ server \in {"receive", "watch", "check", "publish"}
  /\ page' = [page EXCEPT !.at = "loading"]
  /\ Ask(<<"page">>)
  /\ UNCHANGED <<source, server, build, disk, arrived, missed, edits, faults>>

(* The document arrives; its client opens the event stream.                *)
Load ==
  /\ page.at = "loading"
  /\ \E r \in arrived :
       /\ r[1] = "page"
       /\ arrived' = arrived \ {r}
       /\ IF r[2] = None
            THEN page' = [page EXCEPT !.at = "error"] /\ UNCHANGED requests
            ELSE /\ page' = [at |-> "open", generation |-> r[2], shows |-> r[3],
                             overlay |-> None]
                 /\ Ask(<<"events">>)
  /\ UNCHANGED <<source, server, build, disk, missed, edits, faults>>

(* A build event of a later generation reloads the page, which gives up    *)
(* everything the old one asked for; any other is ignored and the stream   *)
(* is opened again.                                                        *)
HandleBuild ==
  /\ page.at = "open"
  /\ \E r \in arrived :
       /\ r[1] = "build"
       /\ IF r[2] > page.generation
            THEN /\ page' = [page EXCEPT !.at = "loading", !.generation = r[2]]
                 /\ requests' = <<<<"page">>>>
                 /\ arrived' = {}
            ELSE /\ Ask(<<"events">>)
                 /\ arrived' = arrived \ {r}
                 /\ UNCHANGED page
  /\ UNCHANGED <<source, server, build, disk, missed, edits, faults>>

(* A diagnostic event makes the page fetch the diagnostic, and the stream  *)
(* is opened again meanwhile.  A second fetch of the same diagnostic that  *)
(* would wait behind the first reads the same thing and is left out.       *)
HandleDiagnostic ==
  /\ page.at = "open"
  /\ \E r \in arrived :
       /\ r[1] = "diagnostic"
       /\ arrived' = arrived \ {r}
       /\ requests' = requests
            \o (IF r[2] > page.generation
                  /\ \A i \in DOMAIN requests : requests[i] # <<"diagnostics", r[2]>>
                  THEN <<<<"diagnostics", r[2]>>>> ELSE <<>>)
            \o <<<<"events">>>>
  /\ UNCHANGED <<source, server, build, disk, page, missed, edits, faults>>

ShowOverlay ==
  /\ page.at = "open"
  /\ \E r \in arrived :
       /\ r[1] = "details"
       /\ arrived' = arrived \ {r}
       /\ page' = [page EXCEPT !.overlay = IF r[2] = None THEN @ ELSE r[2]]
  /\ UNCHANGED <<source, server, build, disk, requests, missed, edits, faults>>

------------------------------------------------------------------------------
Server ==
  StartCheck \/ FirstPublish \/ FirstFingerprint \/ Receive \/ Watch \/ Check \/ Publish
Next ==
  Edit \/ Server \/ Open \/ Load \/ HandleBuild \/ HandleDiagnostic \/ ShowOverlay

(* The server's loop and the page's handlers run; nobody has to save or to *)
(* open the page.                                                          *)
Fairness ==
  /\ WF_vars(Server)
  /\ WF_vars(Load) /\ WF_vars(HandleBuild) /\ WF_vars(HandleDiagnostic) /\ WF_vars(ShowOverlay)

Spec == Init /\ [][Next]_vars /\ Fairness

------------------------------------------------------------------------------
Answering == server \in {"receive", "watch"}

(* static_site.rs:69 "build failed; keeping last good build": whenever the *)
(* server answers, the directory it serves from holds the last published   *)
(* build.  It does not: see LastGoodUnlessOverwritten.                     *)
LastGoodKept == Answering => active = published.build

(* Last-good serving as the code does it: a build that fails its check or  *)
(* its population, that finds a stale directory, cannot move the old       *)
(* output aside, or can move it back, leaves the last published build in   *)
(* the directory served from.  Three failures do not: one of moving the    *)
(* old output back, of removing it, and of reading the manifest of the     *)
(* new.  After them a diagnostic of a later generation is announced until  *)
(* a build succeeds.                                                       *)
LastGoodUnlessOverwritten ==
  Answering => IF overwritten THEN Diagnosed ELSE active = published.build

(* What a page that has caught up displays: the diagnostic the server      *)
(* announces, which is about the inputs as they are, or the build that     *)
(* these call for and no diagnostic.                                       *)
UpToDate ==
  /\ page.at = "open"
  /\ Answered(source)
  /\ IF Diagnosed THEN page.overlay = diagnostic
                  ELSE page.shows = Wanted(source) /\ page.overlay = None

(* Once the developer stops saving, an open page ends up displaying the    *)
(* last save or a diagnostic about it, across syntax errors, failed        *)
(* builds, file-system errors, moved files and reloads, unless             *)
(*  - the watch missed the save: it fell in the first build, or it put the *)
(*    inputs back to the fingerprint taken (the undoing of a syntax error  *)
(*    leaves the diagnostic of the error), or it changed a file that the   *)
(*    published project does not name or whose directory is skipped; or    *)
(*  - a restore failed and left no site to load.                           *)
EditReachesPage ==
  <>[](UpToDate \/ page.at = "closed" \/ server = "stopped" \/ missed \/ active = None)
==============================================================================
