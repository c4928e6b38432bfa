# Verification of stack-connect-core

TLA+ models of the Rust core (`src/crates/stack_core/src/`, written `S/` below), the TLC
configurations that check them on small instances, and TLAPS proofs of their central properties for
every value of the constants.

Contents: [inventory](#1-inventory) · [plan](#2-plan) · [modules](#3-modules) ·
[runs](#4-runs-bounds-and-what-they-show) · [fairness](#5-fairness) · [proofs](#6-proofs) ·
[findings](#7-findings) · [limits](#8-limits-what-is-not-modelled-and-why)

## 1. Inventory

The core is a library without threads of its own. A host (an iOS app through UniFFI, Flutter apps
through flutter_rust_bridge) calls its asynchronous methods, as many at a time as it likes, and may
drop a call at any await. The core keeps almost no state: what is hard is that every operation of
more than one HTTP exchange works on state at App Store Connect which other devices, the App Store
Connect website and Apple's reviewers change meanwhile, and that each exchange may be refused or may
take effect without the core learning of it.

| Component | State | Operations | Interacts with | Hard behaviours | What makes it correct | Here |
|---|---|---|---|---|---|---|
| Review submissions (`S/providers/appstore/client.rs` 2961-3865) | none of its own: the submissions and items at App Store Connect, and the locals of the calls in progress | `submit_for_review`, `cancel_review`, `cancel_submission`, `discard_review_submission`, `submit_review_submission` | token cache and HTTP choke point (every request); other devices through the service | stale probe, shared draft, fallback after a half-done reuse, lost answers, submission limit, deletion while paging, states that move while the loop runs | exactly the wanted version goes to review; Ok and Err mean what they say; no needless submission; verdicts describe what is left; every call returns | `ReviewSubmissions` implements `ReviewPromise` |
| Token cache (`S/auth/es256.rs`) | the cached JWT and its `exp`, behind a tokio mutex | `bearer_token` | every request asks it for a token | the clock is read before the mutex is awaited; refresh margin; clock ahead, behind or set back; key that cannot sign | a live token is sent; refreshes are shared; Apple's cap is respected | `TokenCache` |
| Debug log of the Flutter facade (`S/frb_api.rs` 30-60, 2880-2945) | lines waiting for Dart | `log` (synchronous), `flush` at the end of every call | the HTTP choke point logs into it; Dart's closure | one buffer for all calls of a provider; asynchronous delivery; flush after failures; calls dropped in their flush | nothing repeated, nothing lost but with a cut flush; order | `LogBuffer` |
| HTTP choke point (`send_and_read`, `get_page`, `post_json_2xx`, `patch_no_content` in `client.rs`) and `S/error.rs` | none | one request; status to `StackError` | token cache, logger, all resources | 403 pending agreements, 404 and 409 with a meaning, lost and undecodable answers | an error tells the host whether it may repeat the request | `Records` (the variants), `ReviewSubmissions` (`Get`, `Send`) |
| Paged readers (29 of them, `client.rs`) | the accumulated pages; a page token at the host | follow `links.next`, hand it out, or ignore it | the choke point | a collection that changes between pages | entries that stay are returned; the loop ends | `PagedReading` |
| Users (`client.rs` 6548-6655) | members and invitations at the service | `fetch_users`, `invite_user`, `delete_user` | paged readers; other hosts; the invited | two listings read in turn; a stale `is_pending` | everybody is listed; who is removed stays out | `Team` |
| Single-request resources, version release, phased release (`client.rs`) | the record at the service, the host's copy | one GET, POST, PATCH or DELETE | choke point; other hosts; the website | edits from a stale copy; lost answers, a 5xx after the effect, and retries; 404 as absence | no edit puts another back; no second copy | `Records` |
| Screenshot upload (`client.rs` 5721-5925) | reservation at the service | reserve, transfer of byte ranges, commit; delete | pre-signed URLs, without token | failure between the steps; deletion meanwhile | committed only when complete | `ScreenshotUpload` |
| Analytics download (`client.rs` 7663-7739) | the bytes read so far | stream, gunzip, parse | pre-signed URL | announced or unannounced lengths, any chunks, bodies of errors | no more than `max_bytes` is held; the error tells why; the whole is parsed | `SegmentDownload` |
| `SyncService` (`S/service/sync.rs`) and `BufferingBlobStore` (`S/frb_api.rs`) | the host's `BlobStore`; on Flutter a buffer in between | `sync_apps` | paged reader, host store | two syncs at once, a sync dropped between two saves | blobs are revisions the app had, and do not go back | `AppSync` implements `AppCache` |
| Credential export (`S/crypto.rs`, `S/frb_api.rs` 190-347) | the files | seal, open, legacy versions, key renaming | the iOS app, that reads and writes the same files | three versions, an iteration count in the file, keys renamed both ways, optional fields that one side does not know | what was entered arrives; the right password opens, others do not | `AccountExport` |
| Registry and `connect` (`S/service/registry.rs`) | none | construct a provider | credential schema | early returns in order | complete credentials connect, the first missing one is named | `AccountExport.connect` |
| Value types (`S/domain.rs`), delegation layers (`S/providers/appstore/provider.rs`, `S/service/capabilities/`, most of `S/frb_api.rs`) | data | forward to the client | - | - | - | not modelled, see [limits](#8-limits-what-is-not-modelled-and-why) |
| Generated bridge, bindings, build scripts | - | - | - | generated | - | not modelled |

`PROJECT.json` lists the hazards of this code one by one, each at its line.

## 2. Plan

In order of importance; done items have a check mark.

1. ✓ `ReviewSubmissions`: the only workflow whose failure ships the wrong thing to Apple's review.
2. ✓ `TokenCache`: every request depends on it. ✓ `LogBuffer`: the one piece of state shared by concurrent calls on Flutter.
3. ✓ `ReviewSubmissionsProofs`, `TokenCacheProofs`.
4. ✓ `PagedReading`, and on top of it ✓ `AppSync` with its abstract specification ✓ `AppCache`, and ✓ `Team`.
5. ✓ `Records`: every single-request operation, with the error variants; ✓ `ScreenshotUpload`; ✓ `SegmentDownload`; ✓ `AccountExport` with `connect`.
6. ✓ Proofs: `PagedReadingProofs`, `AppSyncProofs` (with the refinement), `LogBufferProofs`, `TransferProofs` (upload and download),
   `AccountExportProofs`, `ProviderCallsProofs` (users, single-request resources, and the composition).
7. ✓ `ReviewPromise`, the abstract specification of the review workflow, and the proof that the workflow implements it with one
   submitter; ✓ `OkMeansInReview`, `CreatesOnlyWithoutSpare` and `VerdictIsHonest` under the conditions they hold under.
8. Left: a promise for several submitters, weaker than `ReviewPromise`; the listing on several pages, for which `OnOnePage` is assumed.

Which module builds on which:

```
PagedReading --+-- AppSync (implements AppCache)
               +-- Team --+
Records ------------------+
ScreenshotUpload ---------+-- MCProviderCalls
SegmentDownload ----------+
AccountExport ------------+
ReviewSubmissions (implements ReviewPromise), TokenCache, LogBuffer: on their own

ReviewSubmissionsProofs, TokenCacheProofs, LogBufferProofs, AppSyncProofs: over the module of that name
PagedReadingProofs, TransferProofs, AccountExportProofs -- ProviderCallsProofs (over MCProviderCalls)
```

## 3. Modules

A definition named `D_Mistake`, placed before `D`, is `D` with a plausible mistake. It is used by no
other definition; substituting it for `D` must violate the property it is paired with, so that no
property holds for reasons that have nothing to do with the code.

### ReviewSubmissions and ReviewPromise

State: `state[s]` and `items[s]` are the submissions at App Store Connect (external, with the rules
that the comments and tests of client.rs state, listed in the module's header); `call[p]` holds where a
caller is in its call and the locals the code keeps across awaits. One HTTP exchange is one step. In a
step the service's rule decides whether the request can be accepted; `Send` then has the three
outcomes the code can see or not see: accepted and answered, accepted with the answer lost, refused.

| Action | Code (client.rs) |
|---|---|
| `ListDrafts`, `Probing` | the listing of READY_FOR_REVIEW submissions and the loop of `find_reusable_empty_draft` |
| `ProbeDraft` | `submission_is_empty` |
| `CreateSubmission` | `create_review_submission` of the create-new flow |
| `AttachVersion`, `MarkSubmitted`, `GiveUp` | the two requests of `attach_and_submit`; what a failure of either means in the reuse and in the create-new flow; `MarkSubmitted` is also `submit_review_submission` |
| `ListToCancelFirst`, `CancelInFlight` | `cancel_review`; `CancelInFlight` is also the in-flight branch of the other two |
| `ListToCancel`, `Dispatch`, `Proceed` | the loop of `cancel_submission` |
| `ReadSubmission` | the GET of `discard_review_submission` |
| `FetchItems`, `DeleteItem` | `delete_submission_items`, page by page, item by item |
| `VerifyDiscarded` | the re-read that tells an emptied draft from a removed one |
| `Start`, `Drop` | the host begins a call, or drops it (cancellation, crash of the app) |
| `Review`, `RemoveOnWebsite` | Apple and the website (external) |

The order in which the loops visit submissions is the service's, so it is arbitrary here.

`ReviewPromise` is what a host with a single submitter may rely on. Its state is what each caller asks for, what it was told, and which submissions
were sent to review with which versions. A submission is sent once, in one step (`Submit`), with the version that is being asked for and
nothing else; Ok is told in that step only; an error may come with or without the sending (the answer can be lost); after an answer nothing is sent any more.
The mapping reads `asked` and `told` off the locals of the calls, and takes a submission for sent from the moment it is no draft any
more and has items, so it is also part of the promise that a sent submission never becomes a draft again and never changes what it holds.

### TokenCache

`ReadClock` is `let now = unix_now()`, before `cache.lock().await`; `TakeCached`, `Mint` and
`FailToSign` are what happens under the lock, where nothing is awaited; `SendRequest` is the request
leaving with the token. A token is its `exp`. `ahead` is the device's clock minus Apple's, and
`SetBack` moves both.

### LogBuffer

`Log` appends to `LogBuffer.pending` (`logged[c]` numbers the lines of a call); `TakePending` is
`std::mem::take` at the start of `flush`; `Deliver` is one turn of the loop, that awaits Dart's closure;
`Return` ends the call. `Drop` ends it at an await without a result: the host drops it, or the Dart closure throws, on which
the generated bridge panics. Before its flush (`dropped`) a call leaves its lines in the buffer, for the next flush; in its
flush (`cut`) the lines it had taken are gone. `emitted`, `delivered` and `lost` are history: what was logged, what Dart has, and what
went with a cut flush; `overlapped` says whether two calls were ever under way at a time.

### PagedReading

A reader is a record: the listings it reads (`fetch_users` reads two), what becomes of `links.next`
(followed, handed to the host as a page token, or ignored by `fetch_versions`), and whether entries of an
unknown type are skipped (`fetch_bundle_id_capabilities`). `NextPage` is one turn of the loop: a page comes, is decoded and
appended; `FailPage` is `?`, that drops the pages read so far, while a host that
collects by token keeps its token; `LoadMore` is the host's next call with the token; `DropRead` is a dropped future. The service
(`Enter`, `Leave`, `Edit`, `Accept`) acts between any two requests. `stayed` and `around` are history: what
was in the listing from the first request on.

`links.next` is opaque to the code; the model assumes that it is a cursor, that is, the next page starts behind the
entries shown so far and an entry that stays keeps its place. With an offset instead of a cursor,
no client could promise `CompleteListing`.

### AppSync and AppCache

`AppCache` is the promise to a host that reads the blobs: each blob is a revision the app has had, and
no write is older than the last moment at which nobody was synchronising. `AppSync` is the code:
`BeginSync`, `Fetch` (the steps of `fetch_apps`, from `PagedReading`), `BeginSaving` (all apps are
serialised), `Save` (one `save` of the UniFFI store, or one turn of Flutter's loop over
`BufferingBlobStore::take`), `ReturnSync`, `DropSync`. `Interruptible` tells the two apart: only on
Flutter is a save an await at which a sync can be dropped. A blob is the revision it was
written with.

### Team

`Team` adds `invite_user` and `delete_user` to the readers. A host may pass any `is_pending` that a
listing once showed, however old. `removed` is history: whom a `delete_user` returned Ok for.

### Records

The operations are rows of a table, in the module's first half: for a GET whether an absent record is
`Ok(None)` or an error (`fetch_versions` reads one page, so that what is not on it is not absent), for a POST whether the answer has to
decode and whether it replaces what is there (`reply_to_review`), for a PATCH which attributes are always in the body and which only when given. Which
operations belong to one resource is read off the handles in `service/capabilities/`, and those lines are what `map` names for a resource. A behaviour is about one resource, of which
two attributes are watched, one pair for each way two attributes can differ (`Watched`). `Read`,
`Create`, `Update`, `Delete` are one request each. Its answer may be a 2xx, unreadable, a 4xx, a pending-agreements 403, a 5xx, or lost; the
request certainly took effect with the first two, certainly did not with the next two, and may or may not have with a 5xx or a lost answer. `Verdict` is the
`StackError` this becomes, Http with its status. `Concludes` is the host's part: it repeats what was refused, and
reads again after any other error. `meant` is history: the value that somebody last meant to give each attribute.

### ScreenshotUpload

`Reserve`, one `SendUpload` per operation of the reservation, `UploadsDone`, `Commit`, with refusals
and lost answers in every place; the host repeats a call that failed; anybody deletes reservations at any time. The
operations of a reservation are any of `Plans`: ranges one after the other that make up the file. A byte is its position, so a range that is sent to the wrong place, or not at all, shows.

### SegmentDownload

`CheckAnnounced` (before the status, as in the code), `Chunk` of any size, `EndOfBody`, `Gunzip`, and `Broken` at each await. `ErrorChunk` and
`ReadErrorBody` are `response.text()` of an error response, that keeps all it reads (`text`). `UnsupportedMeansTooLarge` is about the announced and the streamed path together.

### AccountExport

`encrypt_scexport` and `decrypt_scexport` are whole functions of the facade, `connect` is `registry::build`. A file opens
with the key it was sealed with, and a key is what it is derived from: derivation, password, iterations. iOS is external: it
writes the versions it ever wrote, and reads all; `oldIos` says whether its build knows the scope (`appsBundles`). `extras` are role, rules and expiration
date, which iOS and its files have and the struct that Dart sees has not (`NoExtras`).

### MC modules

`MCReviewSubmissions`, `MCTokenCache`, `MCLogBuffer`, `MCAppSync`, `MCTeam` give the constants that a
cfg cannot write, and the symmetries. Callers are not symmetric, as `OpsOf` tells them apart; submissions and versions
are, calls and tasks are. No run that checks a liveness property uses symmetry.

`MCProviderCalls` puts five components that share nothing but the HTTP client side by side. A behaviour is
one of one component (`part`), the others stay as they start: as they have no variable in
common, exploring their product would show nothing more.

## 4. Runs, bounds and what they show

| Run | Properties | What it shows |
|---|---|---|
| `ReviewRace` | `TypeOK`, `ReusedDraftIsOurs`, `SubmitSendsExactlyItsVersion`, `KeepsPromise` | one caller submits while another empties, discards, cancels and resubmits, with refusals, lost answers and dropped calls: what is sent is exactly the version, and the workflow implements `ReviewPromise` |
| `ReviewTwoSubmitters` | `OkMeansInReview`, `CallReturns` | two devices may share a reused draft; an Ok still means that the version is in review; the loops over listings end although others change what they walk through (the loop over item pages occurs in `ReviewAlone` only) |
| `ReviewAlone` | `CreatesOnlyWithoutSpare`, `VerdictIsHonest`, `CallReturns` | every sequence of calls of one caller on what any earlier calls left |
| `TokenLife` | `TypeOK`, `HeldTokenIsLive`, `RefreshesAreSpaced` | three tasks with stale readings of a clock that may be set back never send a token Apple has seen expire, and share their refreshes |
| `LogConcurrent` | `TypeOK`, `NothingLostNorRepeated`, `OrderedUntilOverlap`, `ReturnsDrained`, `EveryLineArrives` | three calls log, flush and are dropped in every interleaving: no line is repeated, and lines are lost only with a cut flush; the others reach Dart with some call's flush; until two calls overlap the order holds |
| `AppSync` | `TypeOK`, `IsAppCache`, `OkMeansStored`, `StoreNeverGoesBack`, `SyncReturns` | two syncs, interleaved or dropped half-way, while apps come, go and change |
| `ProviderCalls` | `CompleteListing`, `ReadReturns` (readers), `RemovedStaysOut` (users), `NeverTwice`, `EditsHold` (records), `CommittedIsComplete`, `OkMeansUploaded` (upload), `HeldIsBounded`, `UnsupportedMeansTooLarge`, `OkMeansWhole` (download), `ArrivesAsEntered`, `RightPasswordOpens`, `ConnectsIfComplete` (export), `TypeOK` | each component against a service and other hosts that act between any two requests |
| `ReviewFallback`, `ReviewDoubling`, `TokenCap`, `LogOrder`, `TeamList` | one each | violations, see [findings](#7-findings) |

Bounds, and why the interesting cases fit:

- `Subs` (2 or 3) and `Versions` (1 or 2): two versions make a foreign version distinguishable from
  the caller's; three submissions make a draft to reuse, one to pass over and one to create. When
  `Unborn` is empty a creation is refused, as it is at the limit.
- `SlotLimit` equals the number of submissions, or less by the in-flight ones of Init, so that both a
  free slot and a full house occur. `PageSize` of the submissions covers all of them: the service's pages are longer
  than its limit. `ItemPageSize = 1` makes two items two pages.
- `MaxCalls` (1 to 3) bounds the calls started, not their interleaving: with two callers a call can run
  against one or two others, and with one caller a call can follow what an earlier one left.
  The initial states are all combinations of drafts, in-flight and unborn submissions with any
  items, so whatever still earlier calls left is there as well.
- `Faults`: the findings' runs take only the outcome they are about; the others take all.
- `TokenCache`: times are scaled down (`TTL` 6, margin 4, delay 2, lag 2) and keep the relations that
  matter: margin < `TTL`, delay plus lag no more than the margin and reaching it; `MaxTime` leaves room
  for several refreshes, `MaxStepBack` for a step that makes the cached token look fresh again.
  `TokenCap` uses the code's own constants.
- `LogBuffer`: three calls of one line: a flush holds several lines when it takes along those of other calls, under way or dropped; two calls
  are enough for an overtaking, the third makes a line that is logged by one call and taken by another while the first is still flushing. `LogOrder`
  has two calls of up to two lines.
- `PagedReading`: pages of one entry, so that every entry is a request; three entries are a first, a last and
  one in between; two changes are enough for an entry to leave a page read and another to enter one unread. The
  listings only change while a read is in progress, since all initial contents are tried.
- `AppSync`: two apps, two syncs, three revisions and three changes: the older sync can hold a revision that is two behind.
- `Records`: two hosts and the website; a boolean value per attribute is enough, as properties only compare
  for equality; `MaxCopies = 2` bounds the copies each of them makes, so that a second one, which `NeverTwice` rules out, would be seen.
- `ScreenshotUpload`: three bytes in up to three ranges, three reservations, so two retries.
- `SegmentDownload`: limit 3 and bodies up to 5: under, at and over the limit, in one chunk or many.
- `AccountExport`: two passwords, two iteration counts of which one is the code's own, two files, so that an account can go to
  the other device and back; one app, so that a scope is absent, empty or of one app.

`CHECK_DEADLOCK FALSE` everywhere: the host may stop calling, and the bounded counters end. That a
call in progress never blocks is what `CallReturns`, `EveryLineArrives`, `ReadReturns` and `SyncReturns` say.

## 5. Fairness

- `WF(Respond(p))`: the request a call waits for is answered or fails, and the runtime polls
  the call afterwards. The HTTP client sets no timeout, so that is an assumption on the network stack:
  a connection that stays silent for ever stalls the call. Nothing is assumed about starting or
  dropping calls, about the reviewers or about the website.
- `WF(NextPage(t))`: the same for the request of a reader. The service changes no more than `MaxChanges` times, so
  a listing that grows for ever is not among the behaviours; that each page is behind the earlier ones is what makes the loop end.
- `WF(Storing(t))` in `AppSync`: the store's `save` returns, or the future of the Dart closure completes.
- `WF(Finishing(c))` in the log: a call gets its result (same assumption as the first), and the future that the
  Dart closure returns completes. A call is not required to log.
- The other modules state no liveness.

## 6. Proofs

All proofs are checked by TLAPS for arbitrary values of the constants, under the named assumptions of the modules, which say no
more than the types of the constants, that a null is none of the values and, for `Team` and `AppSync`, which readers are there. The bounds
(`MaxChanges`, `MaxLines`, ...) are arbitrary numbers there. Every safety property that a passing run checks is stated by a theorem; a
hypothesis beyond the modules' assumptions stands in the theorem and is explained here. Each inductive invariant was model-checked before it was proved.

### ReviewSubmissionsProofs

- `TypeCorrect`: `Spec => []TypeOK`. A lemma per group of helpers (`Listing`, `Probing`, `Proceed`,
  `Dispatch`, `GiveUp`, `Get`, `Send`) states what locals it can produce; one step per action cites them.
- `DraftStaysOurs`: `SingleSubmitter => (Spec => []ReusedDraftIsOurs)`, for any number of other callers,
  submissions and versions, and any faults. `ReusedDraftIsOurs` speaks of the probed or created draft
  only; it is not inductive, because a creation must find its new submission without items. The
  inductive invariant is `IInv == Typed /\ UnbornEmpty /\ ReusedDraftIsOurs`, where `UnbornEmpty`
  says that an identifier not handed out yet has no items. The actions that matter are
  `AttachVersion` of the single submitter, which adds its own version, and those of others, which
  only ever remove items (`SingleSubmitter` is what excludes other attachers).
- `SubmitIsExact`: `SingleSubmitter => (Spec => SubmitSendsExactlyItsVersion)`: from `IInv`, the guard of
  the mark request and the fact that `MarkSubmitted` is the only action by which a submission call
  returns Ok (`SubmittedByMark`).
- `SubmissionsKeepPromise`: `SingleSubmitter => (Spec => KeepsPromise)`, the refinement of `ReviewPromise`. Three lemmas carry it: `RespondGoesOn` (an
  exchange continues the same call, for the same version, or returns), `OnlyMarkSends` (no exchange but a mark request sends anything
  to review, and it sends one draft as it is) and `CallShows` (what the new locals of a call show of it). `RespondPromised`
  puts them together: an exchange of a submitter is `Submit`, `Fail` or nothing, one of another caller is `Resubmit`, `Otherwise` or nothing; `IInv` gives
  the versions sent. The reviewers and the website send nothing and answer nobody, so their steps show nothing.
- `OkIsInReview`: `NobodyClears \/ SingleSubmitter => (Spec => OkMeansInReview)`. With several submitters it is needed that no caller
  uses `cancel_submission` or `discard_review_submission` (`NobodyClears`): a version that another caller takes out of a shared draft between
  attach and mark is not in what is sent. The invariant `AttachedInv` says that the draft a call has attached to, as long as it is one, holds
  its version. With one submitter it follows from `SubmitIsExact`.
- `FitsInvariant`, a lemma for the next two: which requests a call can be at, given what it was asked. From it follows what a caller that only may use
  certain operations can do to the service (`OthersSpare`, `OthersSubside`).
- `ReuseComesFirst`: `OthersMakeNoSpare /\ OnOnePage => (Spec => CreatesOnlyWithoutSpare)`. The invariant `SpareInv` says that every empty draft
  is the one being probed or still to be probed, and that none is left when the call goes on to create without having tried to reuse. The others may cancel
  reviews and resubmit, but neither submit nor clear (`OthersMakeNoSpare`), since they could create an empty draft, or empty one that was probed; `OnOnePage` (all submissions fit one page
  of a listing) is there because the code reads one page only.
- `VerdictIsTrue`: `OthersSendNothing /\ OnOnePage => (Spec => VerdictIsHonest)`, for any number of callers that clear at the same time. The invariant
  `ClearingInv` says of a clearing call which submissions are
  dealt with by now: inactive, or drafts found empty if the call remembers one (`ClearedBut`); and of the draft at hand which items are still
  to be seen or deleted (`Emptying`). What the reviewers, the website and other clearing calls do only makes less of it active (`Subsides`, `WaitingClears`); a submission
  or resubmission by another caller does not, and is what `OthersSendNothing` excludes.

### TokenCacheProofs

`TypeCorrect`; `Spaced` (`RefreshesAreSpaced`, under no further assumption); `TokenIsLive`:
`HeldTokenIsLive`, when the delay from the reading to the request plus the device's greatest lag behind
Apple fits into the margin (`MaxDelay + MaxBehind <= REFRESH_MARGIN`), even if the clock is set back.
The property is not inductive: the invariant adds that a task's reading is not older than `MaxDelay`
and that the held token outlived that reading by more than the margin.

### LogBufferProofs

`TypeCorrect`; `LinesAreKept` (`NothingLostNorRepeated`): that a line taken is in no other place after a
`Log` needs that a line not logged yet is nowhere, so the invariant adds that the lines of a call are
numbered and only those up to `logged[c]` were emitted. `OrderHoldsUntilOverlap` is from the invariant that, until two calls
overlap, each two lines of what Dart has, what the one flush still holds and what is pending, one after the other, were emitted in that
order; as lines may be lost in between, these need not be all the lines emitted, or the first of them. `CallsReturnDrained` follows from `LinesAreKept` and from where
lines can be when a single call returns.

### PagedReadingProofs

`TypeCorrect`, and `ListingsAreComplete`: the invariant says of every read in progress that an entry that stayed
is in what was read, or still ahead: in a listing to do, or in the current one and not behind the cursor (`NothingMissed`).

### AppSyncProofs

`SyncTypeCorrect`; `SyncsImplementCache`: `Spec => IsAppCache`, the refinement, every step of `AppSync` being a step of `AppCache` or none
under the mapping
`current <- rev, cached <- store, oldest <- oldest`. The invariant `SyncInv` says that what a sync has read or buffers
is a revision between `oldest` and the current one, for syncs under way only: what a dropped sync left in its buffer may be older. For `OkIsStored` it adds that
each app that stayed is in the buffer or stored recently enough (`Delivers`); for `BlobsGoForward` that a sync that is alone finds each blob it has yet to save no newer than `oldest` (`Alone`).

### TransferProofs

- Download: `SegmentTypeCorrect`, `TransferIsBounded` (`HeldIsBounded`), `UnsupportedIsExact`, `OkIsWhole`, from the invariant that while streaming what is kept
  is all that has arrived.
- Upload: `UploadTypeCorrect`, `CommittedScreenshotsAreComplete`, `OkIsUploaded`, for files of any size and any plan of operations. The invariant `UploadInv` says of the
  call's reservation, unless somebody deleted it, that each byte has arrived in its place or lies in the range of an operation still to do (`BytesUnderWay`), and that the call works on a reservation it
  asked for (`CallOfReservation`). That the ranges of a plan make up the file is proved from the definition of `Plans`: the first operation that ends at or after a byte starts before it (`PlanCovers`).

### AccountExportProofs

`ExportTypeCorrect`, `AccountsArriveAsEntered`, `OnlyTheRightPasswordOpens`, `CompleteAccountsConnect`. The invariant `ExportInv` has three parts: what a device has
is nothing or a copy of what was entered, on Flutter under the renamed keys and without extras (`DevicesAgree`); each file holds a copy, under the key that its version, its password and its header imply (`FilesSealed`); the last outcome
is the one the property asks for (`OutcomeExplained`). A copy (`CopyOf`) has the name, the provider and the credentials that were entered; its scope may be gone if the iOS build knows none, its
extras may be gone if Flutter has an account, which it never loses again. The step that needs work is that renaming the keys to the schema's and back gives what was there (`RenamedThereAndBack`); and
`RequiredAreThere` tells, secret by secret, that `connect` finds what was entered, from which the first missing one follows.

### ProviderCallsProofs

- `TeamTypeCorrect`, `TeamListingsAreComplete`, and `RemovalsHold` from the invariant that nobody is a member and invited at once.
- `RecordsTypeCorrect`; `CreatesOnce` (`NeverTwice`), from the invariant that a host that knows of no record has no copy of its own;
  `EditsAreKept` (`EditsHold`), from a lemma about the table, `EditsSend`: what an operation always sends it is about, and either it is about nothing else or `Restated` names it.
- The composition: each part of a behaviour of `MCProviderCalls` is a behaviour of that part (`PartsAreThemselves`), since a step of one leaves the variables of the
  others alone; so `ProviderTypeCorrect` and `PartsStaySafe`, which states all the invariants of the `ProviderCalls` run of the specification
  that this run checks.

### Only model-checked

The liveness properties `CallReturns`, `EveryLineArrives`, `ReadReturns` and `SyncReturns`, that need fairness; and the five violations of [findings](#7-findings), where the trace
is the result. `OkMeansInReview`, `CreatesOnlyWithoutSpare` and `VerdictIsHonest` are checked on instances that meet the hypotheses of their theorems.

## 7. Findings

Five statements of the code's own comments that its behaviour does not meet:

1. client.rs 3015, "any failure here falls back to the create-new flow": the listing and the probe of
   a candidate are called with `?`, so a draft that disappears between listing and probe makes
   `submit_for_review` return an error without trying to create (`ReviewFallback`).
2. client.rs 2996, "never worse than the plain create-new flow": if the answer to submitting the reused
   draft is lost, the fallback creates a second submission for a version that is in review already, and occupies a slot
   (`ReviewDoubling`).
3. es256.rs 11, "safely under the cap": the lifetime is the cap itself, 20 minutes, so a device whose
   clock is one second ahead sends tokens beyond it (`TokenCap`).
4. frb_api.rs 31, "order across calls is preserved": two calls under way flush concurrently, and a
   later line can be delivered between two earlier ones (`LogOrder`). With one call at a time
   the order holds (`OrderedUntilOverlap`).
5. client.rs 6534, "Lists every user of the connected account": `fetch_users` reads the members and then the
   invitations; who accepts in between is in neither, and Ok is returned (`TeamList`).

Not tied to a run, as nothing states the contrary: a call whose mark request is refused leaves a draft
holding the version; `find_reusable_empty_draft` passes over it because it is not empty, so every retry
leaves one more until the concurrent-submission limit is reached. And app_store_versions.rs 270-272 still describes submission as three sequential requests;
the code lists, probes and possibly reuses first.

Met while modelling, and described by the models though no run is about them:

- frb_api.rs 2928, "Hands every buffered line to the Dart sink in order, then clears the buffer": `flush` clears the buffer first and
  then hands the lines over; if the call is dropped or the closure throws in between, the rest is lost. `NothingLostNorRepeated` confines the loss to such flushes.
- client.rs 7650, "`max_bytes` bounds the transfer": an error response of unannounced length is read as a whole. `HeldIsBounded` says that for
  all other responses the limit holds.
- frb_api.rs 241, "`rules` and `role` are omitted": so is the expiration date, also one that the imported file had. `ArrivesAsEntered` says when the
  extras may be gone.

Also not tied to a run: the announced length of a segment is checked before the status, so a large error page is reported as Unsupported;
the inflated text is not bounded; and edits that send the whole record (`update_age_rating`, `update_user`, `update_accessibility_declaration`)
put back what others changed meanwhile, which `EditsHold` excepts by name (`Restated`).

## 8. Limits: what is not modelled and why

- An item is identified by its version. Removing an item and attaching the same version again to the
  same submission cannot be told apart from nothing having happened.
- The service refuses to submit an empty draft and to submit or cancel in the wrong state; nothing in
  the sources says that a version belongs to one submission only, so the model does not enforce it.
  Resubmission of UNRESOLVED_ISSUES is refused in the model.
- The items a draft gets on the website, or through another app's means, are not modelled: only
  `submit_for_review` attaches. One app and one platform.
- Only the first page of a submissions listing is read, by the code and by the model.
- Item pages follow a cursor by position among the remaining keys; the service's cursor is not
  documented in the sources.
- A request takes effect before its call goes on, or not at all: one that is still on its way when its call is dropped, and takes effect
  later, is not modelled. Nor is a save that is still running in Dart when its sync is dropped.
- A 4xx, a pending-agreements 403 included, is assumed to have had no effect; a 5xx may have had one.
- Of a token only `exp` is kept: what Apple makes of an `iat` in the future is not modelled.
- Error variants: in `ReviewSubmissions` `Err` stands for every `StackError` except SubmissionNotRemovable.
- `links.next` is assumed to be a cursor (see `PagedReading`), and its loops are modelled once, as a table of readers; what an entry
  becomes (`into_app_info` and the like) is data.
- Uploads assume that the operations of a reservation cover the file. The code does not check it: with ranges outside the file `data[start..end]` panics, with ranges that leave out a part the commit's checksum is refused.
- `validate`, `fetch_tester_count` and `fetch_icon_url` are one GET of which nothing is kept.
- `reject_version` is two requests, of which the GET is a `Read` and the DELETE a `Delete` of the submission.
- `AccountExport` abstracts from the layout of the file and its truncation checks, and from AES-GCM, PBKDF2 and HKDF. A decrypted
  payload is well-formed JSON. `id` and `createdAt`, that each export makes anew, are left out; the extras are kept or dropped together; and
  all of iOS is one build in a behaviour, an old one or a new one.
- The delegation layers (but for the grouping of operations into resources, see `Records`): every method of `provider.rs` and of the handles in `service/capabilities/` forwards its arguments to one method of the client,
  and every asynchronous method of the Flutter facade does so and then flushes the log, which is `LogBuffer`'s call. They hold no state and take no decision, so a model of
  them would repeat the client's.
- JWT and PEM encoding, JSON, cURL rendering of the log, value types: data.
- How much of the sources the models stand for: of 39945 lines, 13355 are the generated bridge and about 10000 are unit tests, half of client.rs among
  them; of the remaining lines most are documentation, value types with their JSON attributes, and delegation. The functions of client.rs that talk to
  the service are mapped, with the three exceptions above.
