# Verification of Very Good Podcast Recorder

TLA+ models of the session server, the local control API, the control console and
the session app, checked with TLC, and theorems about them proved with TLAPS.

## The system

A *session server* (`internal/sessiond`, Go, one process per session) lets
browsers claim the seats of a session, start and stop one recording run, and
upload chunks of media. It keeps its state in one SQLite database and below an
artifact directory. A *control plane* (`web/control`) plans sessions: a local API
keeps them in memory, a console for the operator edits and runs them. A *session
app* (`web/session`) is what hosts and guests open with a role link; the API
decides whether the link opens.

| Component | State | Operations | What makes it correct | What is hard |
|---|---|---|---|---|
| recording store (`recording_*.go`, `sqlite_recording*.go`) | `session_snapshot`, `recording_tracks`, `track_chunks`, chunk files | start, stop, start track, upload chunk, finish track | what a client was told is stored is stored; complete means gap-free; stopped means complete; sealed means final | a handler is several commits and may end after any of them; requests are repeated, late and reordered |
| artifact manifests (`manifests.go`, `artifact_*.go`) | `track.json`, `session.json` | write, rebuild at start, prune | a manifest never promises more than the disk holds; a restart repairs all of them | they lag behind the database and are written one by one |
| seat claims (`sqlite_claims.go`) | `seat_claims`, the browsers' cookies | seat picker, claim, reclaim, check of the active claim | one owner per seat; a granted cookie keeps proving its seat | answers are lost and overtaken, tabs share a cookie jar |
| store opening (`sqlite.go`, `server.go`) | the open store | bootstrap, compare with the configuration, lazy reopening | a database only serves the session it was made for | restarts with another configuration |
| clock sync (`sqlite_recording.go`) | anchor of the recording epoch | clock sync | offsets of one epoch are comparable | restart between monotonic and wall clock |
| control API (`web/control/src/api`) | `localSessionStore`: sessions, join keys | put, patch, add and remove seats, role links, bootstrap of a link | status and phase agree; the operator's seat stays; seat ids are new; a roster in use is final; nothing goes back to before its run | each patch is allowed alone, sequences and mixtures must be too; the store is gone after a restart |
| session app links (`App.tsx`, `lib/query.ts`) | URL, remembered key, bootstrap query | load, reload, move between pages, redirect of `/`, reconnect | a page opens only for what was handed out together, opens again when it is loaded again, and is decided | configured keys that sessions share, a key that every page has to carry on, lost requests, restarts of the API |
| control console (`web/control/src/app`) | query cache with guesses, mutation queue | click, answer, fetch, reconnect | at rest no guess is left over, what is offered is accepted, the queue empties | guesses over guesses, answers over guesses, a refusal in the middle of the queue, a fetch next to a mutation |
| session app state and pages (`session-state.ts`, `JoinPage.tsx`, `RoomPage.tsx`) | reducer state of seats, dialog, drills, recording | choose, take over, join, leave, media, recording, presets | one seat per browser, no takeover without confirmation, signals of the present phase | long sequences of actions over two pages and a dialog |
| operator reducer (`control-state.ts`), shared contracts and build, clock sync, end-to-end harness | | | | not modelled, or as constants only: see the end |

Interactions: browsers call the server's HTTP routes with the claim cookie; each
recording handler first finds the seat the cookie proves (`requireActiveClaim`),
then works below `store.mu`; uploads complete tracks, tracks stop the session,
and each change is followed by the manifests. Console and session app call the
control API; neither the API nor the session app calls the session server yet, so
the two halves of the models meet in no shared state.

## Modules

| Module | What it is |
|---|---|
| `RecordingRun` | what one recording run promises: a write-once store of chunks, takes that declare their length once and are complete when full, a session that stops when no take is open |
| `RecordingStore` | the recording store with its manifests, one commit at a time; implements `RecordingRun` |
| `RecordingStore_proofs` | theorems about `RecordingStore` |
| `RecordingManifests_proofs` | theorems about the manifests of `RecordingStore` |
| `SeatOwnership` | what the claims promise: a seat stays with the first browser it is granted to, and only that browser acts for it |
| `SeatClaims` | claims, cookies, requests and answers; implements `SeatOwnership` |
| `SeatClaims_proofs` | theorems about `SeatClaims` |
| `ControlSession` | a planned session: the pure functions that API and console compute it with, no state |
| `ControlApi` | the API's store, routes and restarts |
| `ControlApi_proofs` | theorems about `ControlApi` |
| `SessionLinks` | `ControlApi` together with one browser document that opens role links |
| `SessionLinks_proofs` | theorems about `SessionLinks`; it implements `ControlApi` |
| `ControlConsole` | `ControlApi` together with one console, its cache and its mutations |
| `ControlConsole_proofs` | theorems about `ControlConsole` |
| `SessionShell` | the reducer and the pages of the session app |
| `SessionShell_proofs` | theorems about `SessionShell` |
| `MC*` | small instances for TLC |

### RecordingStore

Handlers run one at a time below `store.mu`, but each SQL statement and each
renamed file is a commit of its own, and the request context, an error or the
death of the process may end the handler after any of them. So the model runs a
handler as a sequence of steps. `op` is the handler that holds the mutex and the
step it performs next:

| Handler | First action (checks and first commit) | Steps of `op` |
|---|---|---|
| `startRecording` | `StartRecording` | `sessionManifest`, `reply` |
| `stopRecording` | `StopRecording` | (`advance`), `sessionManifest`, `reply` |
| `startTrack` | `StartTrack` | `trackManifest`, `sessionManifest`, `reply` |
| `uploadChunk` | `UploadChunk`: the file | `insert`, `complete`, `advance`, `trackManifest`, `sessionManifest`, `reply` |
| `uploadChunk`, repeated | `UploadDuplicate` | none |
| `finishTrack` | `FinishTrack` | `advance`, `trackManifest`, `sessionManifest`, `reply` |
| `openStore` | `OpenStore` | `RebuildTrack`*, `RebuildSession`, `PruneStaleFile`*, `FinishRebuild` |

`Fail` ends a handler at any step, `InsertChunkFails` also removes the file as
the code does, and `Crash` ends the process, even during a rebuild. The code
ignores an error of the removal; the file that is then left is the one that `Fail`
and `Crash` leave, until the next start prunes it. Two history variables: `acked`
is the chunks clients were told are stored, `owed` the tracks (and `None` for
`session.json`) whose manifest a handler that ended early did not come to write and
none has written since. A repeated upload or finish is answered 200 and publishes
nothing (`recording_tracks.go:201-215`, `:340-347`), so what its client finds is
current only as far as nothing is owed; `AnswersArePublished` says so for every moment
at which such an answer can be given. Requests arrive at any
time and any number of times, so their loss, repetition and reordering need no
state. A request that is refused changes nothing and is no action.

The client of `RecordingStore` is a seat with an active claim; that only one
browser ever is that client is what `SeatClaims` shows.

Left out: health (no code writes another value than "healthy"), the track states
and routes that exist only in the docs (failed, abandoned), temporary files, what
a power failure takes from unsynced files, order and format of lists and names,
capture offsets, and the exact form of missing chunk ranges (a set here).

### SeatClaims

A handler reads and writes below the mutex and commits one statement, so it is
one action. What is asynchronous is the browser: a request carries the cookie the
jar held when it was sent, an answer sets the jar when it arrives, whatever the
jar holds by then. Both may be lost, and a browser drops the cookie (it has no
Max-Age) when it is closed. `owner`, `acted` and `minted` are history variables.
A join key is a value a browser was given; the two links may even have the same
key, as the configuration allows.

Left out: the LiveKit token, the seat picker (it changes nothing), and
disconnect, heartbeat and takeover, which the docs describe and no code does.

### ControlSession and ControlApi

`ControlSession` translates `session-model.ts`, `session-fixtures.ts` and the
validation of patches and transitions; the console and the API compute with the
same functions, so both models extend it. A seat is its number, which its id
contains; a field that a patch does not have is `None`.

A route is one action: `EnsureSession` (PUT), `CreateSeat`, `DeleteSeat`,
`UpdateSeat`, `UpdateSession`, all but the first through `Handle`, which accepts a
request (`Accepts`) and stores its `Outcome`, normalized as every route does. The
PATCH handlers look the record up, wait for the body, and only then validate, but
it is the same mutable record, which nothing removes while the process runs. What
counts is the moment of the validation, and nothing waits after it.

`Restart` empties the store. A session that is put again has new join keys
(`CreateLocalJoinKeys`): random ones are told apart by session, role and process.
When the bootstrap configuration names the session, it has the configured pair
instead. The configuration, a file and the environment, is read whenever a record
is made and may have changed since, so `bound` and the pair are chosen then
(`RecordJoinKeys`): two sessions may get the same pair one after the other, one
session different pairs, and the two keys of a pair may be equal. That the first seat of
a configuration is a host's is an assumption (`BootstrapRolesOfSeats`), as the
console throws without it; `deploy/local/sessiond.env` and the fixtures satisfy it.

### SessionLinks

`page`, `urlKey` and `remembered` are the URL and the ref of
`useRememberedJoinKey`. Loading a page (`LoadRoot`, `LoadLink`, `Reload`) starts the
document over; `Navigate` moves between join page and room and passes the search
part of the URL on, with the key, as `JoinPage.tsx` and `RoomPage.tsx` do at every
`navigate` (when they do is `SessionShell`'s matter). So a document asks for one
link only, and its cache is one `query`, with the answer under way as a state of its
own: answers may be served at one time, settle at another, or be lost, and
`Reconnect` sends a query that failed again. Two history variables: `issued` is the
links that were ever handed out, each a session, a role and a key; a key of any of
them, one of before a restart too, may be put into any URL. `admitted` is the link
that the API, since its last start, has let the document in with.

### ControlConsole

| Code (`useControlSessionController.ts` and pages) | Model |
|---|---|
| `useQuery`, `queryClient.setQueryData`, `cancelQueries`, `invalidateQueries` | `cache`, `fetch`; `ServeFetch`, `FetchSucceeds`, `FetchFails`, `Reconnect` |
| `ensureSessionContract` before the first answer | `waiting`, `EnsureSessionContract` |
| `runSessionMutation`, the mutation scope that queues | `RunSessionMutation`, `queue` |
| the PATCH, POST or DELETE under way, its success and failure | `ServeMutation`, `MutationSucceeds`, `MutationRefused`, `MutationLost` |
| what setup and room page offer | `Offered`, from `SessionForm`, `SeatList`, `OpenRoom`, `RecordingStatusBar`, `RoomControls` |
| drills of the room page | `demoPreset`, `PresentSession` |

The query library is external: it is modelled as it is configured (no retry) and
called. `seen`, `newest`, `last` and `toggles` are history variables. `seen` is the
session as the API last told this console and `newest` whether it told it to the
fetch or to a mutation; `last` is whether the answer that was cached last was the
newest, an older one, or none because the fetch failed. So `CacheIsCurrent` covers
refusals with edits queued behind them and fetches beside the queue, in every order
but the one that is the finding `console_refetch`: an older answer that comes last.

### SessionShell

The reducer's actions, each where a page dispatches it and under the condition the
page dispatches it: `SeatPickerOpen`, `DevicePreviewShown`, `TakeoverDialogShown`,
`RoomShown`, `StatusBar`. The dialog covers the page for the pointer and not for
the keyboard, so it disables nothing. `PresentSession` is what the pages show
under a drill, `SeatPickerNotice`, `ClaimSignalValue` and `PhaseDescription` what
they say. The app does not call the claim routes yet: its claims are local to the
reducer, and it is not composed with `SeatClaims`.

## Runs

| Run | What it checks and shows |
|---|---|
| `store_chunks` | One track of up to three chunks, two possible bodies, a host and a guest, failures and crashes anywhere. Acknowledged chunks survive, rows have files, complete means gap-free, manifests never overclaim, what is published only grows, a restart repairs. |
| `store_tracks` | Two tracks of one chunk, two seats, two sources and one segment key they may compete for, failures and crashes. Tracks do not overwrite each other, a stopped session is complete and its manifest final, an answer finds its manifests current unless a failed handler owes them, sealed rows and files stay, `RecordingRun` is implemented. |
| `store_drain` | One track of up to two chunks under `FairSpec`: a draining session stops, unless a failure strands a track. |
| `store_recheck` | Violated: see findings. |
| `claims` | Two browsers, one given both links, a host's and a guest's seat, three messages under way, faults. Cookies keep proving their seat, host seats go to browsers with the host link, `SeatOwnership` is implemented. |
| `claims_owned` | Violated: see findings. |
| `links` | One session, bound or not, with every move of status and phase, alone and together, seats added, removed and given the other role, a restart; or two sessions that are closed, opened and activated; one document that tries every key on every page. The session's two state machines agree, ids are new, the roster is final once in use, runs move forward; a page opens only for a session, role and key that were handed out together, is decided, and once let in opens again after any moves and loads. |
| `links_seatless` | Violated: see findings. |
| `shell` | A host's or a guest's link, three host seats, one of every claim state, and a guest's. One seat per browser, confirmed takeovers, media and signals that are up to date. |
| `console` | A console opened on a session in any state of its run, or on none, two clicks in every order with the answers, and one fault: a lost request, a reconnect, or an edit or a restart elsewhere. At rest the cache is what the API last told, guesses follow their phase, offers are accepted, the queue empties. |
| `console_toggle` | Violated: see findings. |
| `console_refetch` | Violated: see findings. |

Bounds. `MaxIndex` bounds chunk indices: with 2 a track can miss its first, middle
or last chunk, and 0 to 3 chunks can be declared, so counts below, at and above
the stored ones occur. Two bodies tell a repeated upload from a conflicting one.
Two epochs make a stale epoch possible. One chunk per track is enough where two
tracks compete, as the conflict is about the directory. Three messages under way
let a claim, its repetition and another browser's claim overlap; three secrets
are one more than there are seats, so a seat granted twice would show. Symmetry is
used in the safety runs for values the code only compares: track ids, bodies,
secrets. It is not used in a run with a liveness property.

`links` has seat numbers 1 to 4 and rosters of at most three: the fixture's three
seats are a full roster, one can be removed and the fourth number given, after
which the counter is at its bound. No route touches two sessions; what two of them
can share is a configured key. So a second one is put only as long as both are as
they were made, but for their status, and the API was not started again (`MCBound`);
the document opens its pages only when its links were handed out (`MCPageBound`). One
configured key is enough for pairs that are equal and shared; the proofs hold for any
number of sessions and keys. One restart gives keys of two processes. `shell` has all
four claim states and drills; two devices
tell a preview's from a seat's, and one media click at a time changes them.
`console` has two clicks: a guess on top of a guess, and a mutation that waits
behind one that is refused; the states of the run are initial states (`Earlier`,
each made of the fixture by allowed patches), so that two clicks suffice. A third
click is what `console_toggle` needs, without faults.

Deadlock is checked but in the three console runs: there clicks are bounded and the
operator may stop. A host can always repeat its stop, a browser can always send,
drop, receive or load a page.

Fairness (`FairSpec`, only in `store_drain`). The process keeps executing a handler
it began (weak fairness of `HandlerStep`). Clients and the host repeat their
requests; a request that waits for `store.mu` gets it, since Go's mutex hands over
to a waiter after a millisecond, so an operation that is possible again and again
is performed in the end (strong fairness of stop, finish and upload). A step that
is tried again and again succeeds once (strong fairness of the insert and of the
advance). Crashes are switched off there: each would restart the argument.

`LinkFairness` and `ConsoleFairness` are weak: the API handles a request that has
arrived, and the browser's event loop delivers an answer or, when it is lost, an
error. Nobody has to click, load a page or keep the network; the operator's clicks
in `console` are bounded by the model, and `ConsoleSettles` says that everything
they started ends (a click that waits for a fetch may end by being lost with it).
`LinkIsDecided` holds in documents that are not loaded again.

## Findings

* `store_recheck`: a handler that ends between the insert of the last chunk and
  the completion check strands the track. The repeated upload and the repeated
  finish answer success without checking, against
  `docs/recording-upload-protocol.md:343`, and the session can never stop: that it
  cannot is the theorem `StrandedForGood`.
* `claims_owned`: two tabs of a browser claim two seats at once; both are granted,
  and the cookie of one replaces the other. The first seat is active and owned by
  nobody, against `docs/seat-claim-protocol.md:58`. A lost answer or a closed
  browser has the same effect, as nothing marks a seat disconnected.
* `links_seatless`: guests can be removed, or made hosts, until none is left, and the
  bootstrap route still admits the guest link; the app throws "Session shell
  requires at least one seat for the active role." (`session-fixtures.ts:111`)
  while it is built.
* `console_toggle`: the answer to a toggle replaces the guess of the next one that
  still waits, and a third toggle is computed from the older value; three toggles
  leave the microphone unmuted, against `e2e/scenarios/control-shell.spec.ts:29`.
* `console_refetch`: a refused edit starts a fetch while the edit behind it is sent.
  When the fetch is served first and arrives last, its older answer is cached for
  good: without any fault, the console shows a session that lacks an edit the API
  has stored, against `e2e/scenarios/control-shell.spec.ts:81`.

Met on the way, without a run of their own:

* A second recording run. `docs/session-lifecycle.md:200-202` says that stopped and
  failed are terminal and that there is no second recording run. The API's
  transitions allow stopped to recording, and to failed (`transitions.ts:31`, `:47`),
  the console offers the start of a stopped recording, and the session app's status
  bar and reducer start one, too (`session-state.ts:245`). The models do what the
  code does, and no property says it should not: what holds of the API's sequences
  is `RunMovesForward`, where only a failed recording is final.
* A handler that ends before its advance leaves a draining session without open
  tracks, against `docs/session-lifecycle.md:282`. Only a host who repeats the stop
  moves it on, not a restart; that this is enough is `DrainingEnds`.
* The console's room page offers its controls in an ended session, where each is
  refused.

## Proofs

`tlapm` checks every proof from nothing. Assumptions are those of the modules on
their constants: hosts' seats are seats, `MaxIndex` is a natural number, keys and
keyrings are what their names say, and `None` is none of the values it stands
beside, a manifest (`NoneIsNoManifest`) and a join key (`NoneIsNoJoinKey`) among
them. Nothing is assumed of the configured keys. TLC evaluates them in the runs.

**Recording store** (`RecordingStore_proofs`). `TypeOK` needs `HandlerShape`: a
handler has the arguments its next step needs. The safety properties are not
inductive alone; `StoreInv` adds

* `SegmentsDiffer`: no two tracks of a seat have the same segment, so no two tracks
  share a directory, and a write to one leaves the files of all others alone;
* `RowsOfStarted`, `IndicesInRange`: only started tracks have chunks, and none above
  the declared length, so that counting rows decides completeness
  (`CountingIsEnough`);
* `UploadInv`: between its two commits an upload has its file and no row yet, its
  track is open and the index in range, so that an insert cannot disturb a
  complete track, and the removal after a failed insert hits no row's file;
* `AckedRows`: what was acknowledged has its row.

From it follow `AckedChunksDurable`, `RowsHaveFiles`, `CompleteIsGapFree`,
`StoppedIsComplete`, with one more look at each step `SealedIsFinal`, and that each
step is a step of `RecordingRun` or invisible in it (`ImplementsRun`).

`StrandedForGood` is about the finding `store_recheck` and the exception that
`DrainingEnds` makes. A track is `Abandoned` when all its chunks are stored, it is
open, and no handler is left that is about to complete it. No action gives such a
track back: a repeated upload or finish changes nothing, a new index is out of
range, and a restart does not complete tracks. So from then on the session never
stops.

**Manifests** (`RecordingManifests_proofs`). A manifest may lag any number of commits
behind the database, so the invariant cannot compare the two directly. `ManifestInv`
says what stays true while the database moves on:

* `PublishedTracks`: a `track.json` is of the one track of its directory, what it
  lists are rows, and a complete one is what would be written today (`Truthful`);
* `PublishedSession`: the phase of `session.json` is none that the session has yet
  to reach, and one that says stopped is what would be written today;
* `HandlerPublished`, `RebuildPublished`: what the handler or the rebuild has written
  before its next step is of the present database, as nobody else writes it
  meanwhile;
* `OwedPublished`: a manifest that is neither owed nor left to the handler under way
  (`Unwritten`) is of the present database.

`GrowsStep` shows that the database only grows (rows stay, phases move on) and that
what is sealed stays, `WritesStep` that a manifest changes only where it is written
from the database. From the two, `ManifestStep`; from it `ManifestsNeverOverclaim`
(with `RowsHaveFiles`), `AnswersArePublished`, `StoppedManifestIsFinal`,
`PublishedOnlyGrows` and `RestartRepairs`.

**Seat claims** (`SeatClaims_proofs`). `ClaimInv`: each cookie, in a jar, a request
or an answer, proves its seat to the browser the seat was granted to; a row has a
secret and its seat an owner exactly when it is active. A grant needs a seat that
is not active, so no cookie of it exists that the new secret could invalidate.
From it follow `GrantedCookiesProve`, `HostSeatsNeedHostKey` and `ImplementsOwnership`.

**Control API** (`ControlApi_proofs`). `ApiInv` says of each stored session that it
is typed, that its next seat number is above the operator's, that its seats follow
its phase (`FollowsPhase`), that it has its operator (`HasOperator`) and that status
and phase fit (`FitsStatus`). One lemma per outcome (`CreatedSeat`, `DeletedSeat`,
`UpdatedSeat`, `UpdatedSession`) shows that the part a route changes keeps all five,
`NormalizedSession` that the trailing normalization disturbs none and changes
nothing that is normal. `StepOK` says what a step may do to one record (ids stay new,
the roster and the run are final), `RecordsStep` that every step does no more to any
record; `StepKeeps` reads the action properties off it, here and in the console's
composition. The seats of a configuration are counted, hence the assumption that they are finite.

**Session links** (`SessionLinks_proofs`). Every step of API and document is a step
of the API or invisible in it, so `LinkSpec` implements `ApiSpec` and inherits its
theorems (`LinksImplementApi`). `LinksInv` adds of the API that the links of every record
were handed out (`IssuedOK`), and of the document that the URL and the ref have the
same key, that a query asks for the link the page shows and, if it was admitted,
that this link was handed out (`DocumentOK`), and that the link that was let in is
the page's and its key still the record's (`AdmittedOK`), since a record keeps its
keys as long as the process runs (`ApiKeepsKeys`). From it follow `OpenOnlyAsIssued`
and `OpensAgain`, for any number of sessions and any configured keys.

**Session shell** (`SessionShell_proofs`). A reducer action first edits, then
normalizes. `InOrder` is what the edit must leave true (one owned seat, joined
seats active, media only in the room), and normalizing turns it into `Settled`,
where picker states and signals are those of the state; `SessionInv` is that with
the pending takeover, which stays real because no action frees another browser's
seat. `ControlsInv` covers drills and pages. That a roster has a first seat of its
role is proved from its finiteness.

**Control console** (`ControlConsole_proofs`), for any number of clicks, faults and
restarts, from earlier records that are as `ApiInv` leaves them
(`EarlierAreInOrder`). `ConsoleInv` says that every session in the console's hands,
cached, fetched or answered, is in order (`InHand`), and that every mutation that
waits is a request which leaves the operator's role alone (`ConsoleRequests`):
without the latter a guess, which unlike the API does not protect that role, could
take it away. `GuessInHand` is the step, `HandleKeepsOrder` of the API the other half.
`OfferedIsAccepted` goes through what the pages offer by kind; activating a ready
session needs `FitsStatus`. For `CacheIsCurrent`, `CacheInv` adds that the
newest answer, while it is not cached, is the session as last told, and that when it
was cached last, nothing but another edit covers it. `ConsoleRecordsStep` shows that consoles, faults and restarts do to the
API's records only what `StepOK` allows; from it and `ConsoleInv` the properties of the
API hold with consoles at work (`ConsoleKeepsOperator`, `ConsoleKeepsPhaseInStatus`,
`ConsoleKeepsSeatIds`, `ConsoleKeepsRoster`, `ConsoleKeepsRun`).

Only model-checked: what is live under fairness (`DrainingEnds`, `LinkIsDecided`,
`ConsoleSettles`), which is beyond the prover.

## Plan

1. Proofs about the abstract specifications themselves, `RecordingRun` and
   `SeatOwnership`: what their write-once steps add up to over a whole run, and so
   hold of the detailed ones by refinement.
2. When the session app calls the claim routes: `SessionShell` composed with
   `SeatClaims`.

## Not modelled

* `controlAppReducer` (`control-state.ts`): no page imports it.
* Clock sync: arithmetic on two clocks that nothing else in the server reads.
* `ensureBootstrapMatchesConfig`, migrations, pragmas: they decide whether the
  process serves a database at all, not what its handlers do with it.
* `missingChunkRangesFor` as ranges: the model has the set they denote.
* Parsing of configuration and requests, CORS, tokens, health routes, URL building,
  wording and layout of the pages (but for the words the properties are about).
* End-to-end harness, scripts, deployment and releases: they drive the system and
  keep none of its state.
