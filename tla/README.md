# Entter: TLA+ models

TLA+ models of Entter's backend (`src/backend`, NestJS over Postgres, Redis and
BullMQ) and of its dashboard (`src/frontend`, Next.js), checked with TLC on small
instances and proved with TLAPS where a statement should hold for every size.

## The system

| Component | State it keeps | Operations | Talks to |
|---|---|---|---|
| Attendance service (`attendance.service.ts`) | attendance rows (Postgres); scan locks and two cached counters per day (Redis) | `checkIn`, `batchSync`, `getSummary`, `search`, `setWillNotAttend` | gateway, Redis, Postgres |
| Offline scan queue (`use-offline-checkin.ts`, `offline-queue.ts`) | one IndexedDB store per browser, a `syncing` flag per tab | `submitScan`, `flush` | `batchSync` over HTTP |
| Checkout (`checkout.service.ts`, `asaas.service.ts`) | orders, participants, stock | `createOrder`, `handleWebhook` | Asaas, both ways |
| Certificates (`certificates.service.ts`, `certificates.worker.ts`) | `certificateSentAt`, `certificatesDispatchedAt`, BullMQ jobs | `send`, `sendOne`, `sendAll`, `runAutoDispatchSweep` | BullMQ, mail server |
| Events (`events.service.ts`, `events/new`, `events/[id]`) | events, days, ticket types, editor settings; the wizard's and the event page's forms | `create`, `update`, `findOne`, `listParticipants` | read by checkout and certificates |
| Live counters (`attendance.gateway.ts`, `socket.ts`, `attendance-summary.tsx`) | rooms, the numbers a card shows | `join`, `broadcastSummary` | attendance service |
| Check-in page (`check-in/page.tsx`, `qr-scanner.tsx`) | day, mode, search, camera stream, frames | picking, searching, scanning, marking | attendance service, offline queue |
| Accounts and sessions (`auth/`, `auth-context.tsx`) | users, JWT cookies, what each tab believes | `register`, `login`, `logout`, `me`, the two guards | every controller |
| Team, tenants (`team/`, `tenants/`, `settings/page.tsx`) | staff and their permissions; subdomain, logo, Asaas key | `invite`, `remove`, `updatePermissions`, `update`, `connectAsaas` | accounts, uploads |
| Editors (`credential-editor.tsx`, `certificate/page.tsx`, `uploads/`) | a draft, an artwork and its image, the list of certificates | `updateCredential`, `updateCertificate`, uploads, `sendOne`, `sendAll` | events, certificates |

What makes it hard: every handler is a chain of awaits, so between two of its
round trips anything else may run; several backend processes share Postgres and
Redis; the lock is given up by time, never by its holder; the counters are a
cache with two keys; webhooks repeat, overlap and overtake; jobs stall; the
client replays whatever it was not answered for; and a page takes answers in the
order they come, into closures over what was on screen when it asked.

What correctness means, component by component:

- **Attendance**: one row is confirmed once however locks and replays fall; a
  success is told only about a row that is, or is about to be, PRESENT, unless a
  request died holding that row's lock; cached counts that are exact stay exact.
- **Offline queue**: a scan leaves the store only once its row is recorded, with
  the same exception, and does leave it in the end, whatever refused scans sit
  beside it and whatever fails.
- **Checkout**: a settled order is admitted exactly once and takes exactly one
  ticket; a settlement that was acknowledged has its attendee.
- **Certificates**: an event is stamped as dispatched only when each attendee it
  had is provided for; nobody is marked as sent without an email; no certificate
  is sent twice without a process, a death, an edit or a click to answer for it.
- **Live counters**: a card is of the day on screen, shows the last update it was
  sent, and asks for its room again whenever it may have left it.
- **Accounts**: each organization keeps exactly one owner; a token never says
  more than its row; nobody is let through without the permission of the moment;
  a tab shows the account its calls are made as.
- **Pages**: what is shown, said to be saved or said to be sent is what is
  stored, once the answers are in; what is sent passed every check of its form;
  the camera is released and scans count for the day on screen.

## Modules

`CheckIn`, `OfflineQueue`, `Checkout`, `Certificates` and `LiveSummary` model a
component each; `Accounts` is the users and tenants tables with their guards,
before which `Sessions` puts browsers and `TeamPage` the team's page;
`DashboardPages` puts together the pages `GatePage`, `TeamPage`, `TenantPage`,
`EventWizard`, `EventPage`, `CredentialPage` and `CertificatePage`, each with the
services it calls; `Presence` and `Admissions` are abstract specifications;
`Values` declares the one constant the pages share; `MC*` give TLC small
instances; `*Proofs` hold the theorems, those of the pages in `EventPagesProofs`
(the four pages of an event) and `DashboardProofs` (the others and the tab).

In all of them an action is one round trip (the code between two awaits is
atomic, as Node runs it), `pc`-like functions say at which await a handler is,
and the rows, keys and jobs of the stores are sets and functions. The operators
under "Plausible slips" in each module are no part of any specification: each is
the action it is named after with one mistake, kept to see that the properties
notice it.

### CheckIn, Presence

One request of `Requests` is one call of `checkIn` or of `getDaySummary`.
`rows` is Postgres, `lock`, `total` and `present` are the Redis keys. `checkIn`
is `StartCheckIn` or `RejectCheckIn`, then `TakeLock` or `LockBusy`, the fill of
the cache (`WarmHit`, or `WarmMiss`, `CountTotal`, `CountPresent`, `FillTotal`,
`FillPresent`), `UpdateRow` or `UpdateMiss`, the fill again, `IncrementPresent`,
`Broadcast`, `Confirm`; `LockBusy` and `UpdateMiss` end in `CurrentStatus`.
`warmSummaryCache` is one set of actions and `back` its return address, because
it has three callers. `LockExpires` may happen at any time a lock exists:
five seconds are nothing to a stalled process. `Fail`, `Crash` and
`RestartRedis` are the faults. `Provision` is checkout's transaction as these
rows see it. `orphaned` is a history: the keys of the requests that died between
taking their lock and their UPDATE.

`Presence` is what check-in promises without cache, locks or requests. A key is
`promised` while a live request is about to confirm it, `told` once somebody was
answered about it; a request that dies before its UPDATE breaks its promise
(`Break`), and the key stays in `broken`. `PromiseKept` says CheckIn implements
it, `orphaned` standing for `broken`: faults are part of the refinement, and a
success without a row has that one way to come about.

### OfflineQueue

One browser: a store shared by its tabs, a flush per tab (`StartFlush`, `Post`,
`ApplyResult`, `EndFlush`), and the server going through each batch item by item
(`RefuseItem`, `BusyItem`, or `LockItem`, `RecordItem`, `AnswerItem`). `checkIn`
is reduced to the steps that matter to the queue; its counters are left to
CheckIn. A forged scan or one of another event is refused before anything is
written; a scan of a pair that has no row (`Rows`) takes the lock, or finds it
taken, and throws then (`MissItem`). A dropped connection leaves the request
running at the server, so a replay may run beside the batch it replays. A
check-in that throws, or a server that crashes, between a lock and its UPDATE
leaves the row in `orphaned`, as in CheckIn; `PromiseReachesTheGate` says that
the browser, its batches and the locks together implement `Presence` too. Scans
are numbered in the key order of the store; as `clientId` is a random UUID,
`SubmitScan` may take any of them at any time. An empty store makes `flush`
return without effect, which is no step of the model.

### Checkout, Admissions

`Buy(o)` is one `createOrder` (`Quote`, `CreateOrder`, `OpenCharge`,
`LinkPayment`); a worker is one webhook post being handled (`Receive`,
`FindUnknown`, `FindPaid` or `FindDue`, `BeginTx`, `CommitTx` or `ConflictTx`,
`Answer`: the commit and the 200 are two steps, and the process may die between
them). Asaas is external: it keeps posting an event until it has had a 200 for
it, and takes a payment as soon as the charge is open, before the code has stored
the charge's id or when it never will. `early` and `unknown` are histories of
that: the orders paid ahead of their id, and the settlements answered as of an
unknown payment. The unique
`participants.order_id` is what makes `ConflictTx` roll a second transaction
back. `Admissions` is the promise: each settled order is admitted once and takes
one ticket; `ExactlyOnce` says Checkout implements it.

### Certificates

Workers take send jobs and the repeatable sweep; clerks are the HTTP requests
that only enqueue. BullMQ is external: a job that throws is failed (the code
sets no `attempts`), one whose worker dies stalls and is put back or failed.
`dispatched` holds not only that the event is stamped but the settings the sweep
had read, which is what `EditReopens` compares. Both editors may set, replace or
clear the template; a job that finds none ends without an email, which `skipped`
(the log) remembers. A clerk is one request, whether or not it died after
enqueuing.

### LiveSummary

One card. `RunEffect` is its effect: a summary request and a socket, closed over
a day; a run of the effect that is no longer the last one has its answer ignored
(`active`). A check-in is `CountCheckIn` (INCR) and later `Broadcast`, so two may
cross. `signedIn` is the cookie that `handleConnection` verifies. A `join` whose read
throws, or finds no such event, leaves the socket "outside": connected, in no
room, and the page none the wiser (`FailJoin`). `heard` is a history: the days
whose last broadcast went to this socket.

### Accounts, Sessions

`users` never reuses an id and `removed` marks the deleted rows, so a token can
be compared with the row it was signed for. `Sessions` has tabs placed in
browsers in every way: one cookie per browser, one `AuthProvider` per tab, calls
that carry the cookie of their sending and are served and heard in any order.
`TakeMe`, `TakeEntry`, `TakeLogout` are what the
provider does with an answer. `muddled` collects the tabs about which
`ShownIsHeld` says nothing, each for a reason the code has: another tab of the
browser signed in or out, the cookie ran out, or `/auth/me` was answered after
the tab had a user (or failed though there is a cookie).

### The pages

Each page module is one visit: its `useState` variables, one action per click or
effect, `Serve*` for the service behind it (its own rows, its own refusals) and
`*Arrives` for what the page makes of the answer. A call is a record in a set
(`teamCalls`, `orgCalls`, `evCalls`, ...), so calls overlap, are served in any
order and answered in any order; `Lose*` loses one before or after it was served.

- `GatePage`: `StartScanner` and `CleanedUp` are the scanner's effect and its
  cleanup; a run of it goes on after its cleanup wherever the code awaits
  (`getUserMedia`, `video.play`, `detect`), with the day it closed over.
- `TeamPage`: over `Accounts`; `ServeSwitch` and `ReadBack` are the two
  statements of `updatePermissions`. `RemoveArrives` has one outcome only: the
  200 of `DELETE /team/:id` has an empty body, which `api.ts:152-156` parses.
- `TenantPage`: two sections over one profile; `Show` is `setTenant` with the
  effect of `BrandSection` it triggers. `SaveElsewhere` is another tab.
- `EventWizard`: an entry is `bad`, `gap` or `good` by the checks it passes.
- `EventPage`: form, status buttons and guest list, whose calls overlap.
- `CredentialPage`: the drop zone, the image of the artwork and the draft.
- `CertificatePage`: the form and the list of attendees; the worker and the sweep
  of `Certificates` are one step each here.

`DashboardPages` says which page is open. Pages share no state in the browser,
so `tab` is chosen once: its states are the union of the pages' and not their
product.

## Runs

Deadlock is checked where nothing ends for good; bounded visits, sessions and
check-ins do end.

| Run | Question | Instance | Result |
|---|---|---|---|
| `checkin` | Does check-in keep its promise, whatever dies? `AckIsCovered`, `PromiseKept`, `AckedIsRecorded` | 3 requests, 2 attendees of whom one may be provisioned meanwhile, warm counters, one failure | holds |
| `checkin_faults` | What survives faults? `TypeOK`, `ConfirmedOnce`, `ExactStaysExact`, `CountedAtMostTwice` | 3 requests, cold cache, one failure, one Redis restart | holds |
| `offline_queue` | Is a scan kept until recorded, and does it leave in the end? `TypeOK`, `PromiseReachesTheGate`, `QueueSettles` | 2 tabs on 2 events, a forged scan, one whose row is gone and a good one, batches of 2, 1 lost call, 1 failure | holds |
| `checkout` | Is a settled order admitted once, and in the end? `TypeOK`, `AckedIsProvisioned`, `BooksBalance`, `ExactlyOnce`, `SettledIsProvisioned` | 1 buyer who may pay early, 3 posts at once, 2 failures | holds |
| `checkout_oversold` | Is a sold out ticket type refused? `NeverOversold` | 2 buyers, 1 ticket, 2 posts at once, 1 failure | violated |
| `checkout_unknown_payment` | Does an acknowledged settlement provision its attendee, whenever it was paid? `SettlementProvisions` | the same | violated |
| `certificates` | Does the stamp cover every attendee? `TypeOK`, `DispatchCovers`, `SentWasEmailed` | 2 workers, 2 attendees, 1 edit, 1 fault | holds |
| `certificates_live` | Is a due event dispatched, and how often may one attendee be sent a certificate? `DueIsDispatched`, `EmailsHaveACause` | 2 workers, 1 request by hand, 1 attendee, 1 edit, 1 fault | holds |
| `certificates_lost_edit` | Does an edit reopen the dispatch, as the README says? `EditReopens` | 1 worker, 1 edit, no fault | violated |
| `live_summary` | Is the card of the day shown, and up to date with its room? `TypeOK`, `CardOfDayShown`, `CardShowsLastCast`, `KeepsListening` | 2 days, 2 check-ins a day, 2 picks, 1 loss or failed join | holds |
| `sessions` | Who is shown, who is let in, who owns? `TypeOK`, `TokensAreTrue`, `EveryTenantHasOneOwner`, `ShownIsHeld`, `AdmittedIsEntitled` | 2 tabs in 1 or 2 browsers, 2 e-mails, 3 accounts, 2 loads, 3 calls, 2 edits, 1 loss | holds |
| `dashboard_pages` | Is what the pages show, send and say true? the 11 properties below | one visit to each page, up to 5 clicks, 1 loss | holds |

`dashboard_pages` checks, of the pages named in brackets: `TypeOK` (all),
`SearchCatchesUp`, `CameraReleased`, `ScannedForDayShown` (gate),
`SettingsShowWhatIsStored` (team, tenant), `OnlyTypedIsSent` (tenant),
`SentIsReviewed`, `OneEventEach` (wizard), `EventShownIsTrue` (event, credential),
`ShownSentIsOnItsWay` (certificate), `SavedIsStored` (event, credential,
certificate). Several of them except what the code does not promise; each
exception is in the definition or in a history variable, and its comment says
which line causes it.

The three violated ones are findings: each contradicts a comment or a document
quoted in `PROJECT.json`, by a behaviour a reader can replay with TLC.

- *Oversold*: the last ticket is quoted to two buyers before either pays.
- *Unknown payment*: a charge paid before its id is stored is acknowledged as
  unknown, and never posted again; its order stays PENDING.
- *Lost edit*: settings saved while the sweep is under way are stamped over.

### What the models show of known weaknesses

These hold as modelled and are bounded by a property or its exception, not
claimed to be right:

- The total key alone marks the counters warm, and one fill sets it before
  `present` (`attendance.service.ts:218-227`). A check-in that trusts it updates
  its row, a second fill counts that row, and the INCR counts it again: two
  present, one attendee, for good. `CountedAtMostTwice` bounds how far the
  counters may be off after that, a crash or a Redis restart; nothing in the code
  corrects them.
- A check-in dies holding its lock; a replay within five seconds is answered
  `checked_in` from the lock (`attendance.service.ts:55-67`), and the browser
  drops the scan (`use-offline-checkin.ts:39-41`). `AckIsCovered`,
  `AckedIsRecorded`, `PromiseKept` and `PromiseReachesTheGate` except just the
  rows in `orphaned`, and nothing else.
- `DELETE /team/:id` answers 200 with an empty body; `request()` skips parsing
  for 204 only, so the page reports an error for a removal that happened
  (`RemoveArrives`), and lists the member until it is loaded again.
- `flush` posts the whole store and a batch has a limit of 500: one scan above
  it, and every flush is answered 400. `QueueSettles` excepts it.
- `AckedIsProvisioned` and `SettledIsProvisioned` except a settlement logged as
  of an unknown payment, and only for a charge paid ahead of its id.
- A certificate may be sent once by each process whose sweep found the event
  unstamped, again for each edit of the settings, and once more for each death
  and each request by hand: `EmailsHaveACause` says by no more than that.
  The stamp is not a lock.
- An event whose template is cleared after its jobs were queued is stamped, and
  its attendees are skipped (`DispatchCovers`).
- A `join` the server fails leaves the page without updates until a day is
  picked or the connection is lost (`KeepsListening`).
- Two check-ins broadcast in the other order, and a summary answered late, leave
  the card behind until the next check-in (`CardShowsLastCast`).
- What a page shows after answers that overtook one another, were lost or were
  of a call the user had left behind is excepted where the code keeps no order:
  a failed summary (`CardOfDayShown`), a tab whose cookie changed behind it
  (`ShownIsHeld`), settings, search results and events read out of order
  (`SettingsShowWhatIsStored`, `SearchCatchesUp`, `EventShownIsTrue`), a create
  whose answer was lost (`OneEventEach`), a field typed in during its save
  (`SavedIsStored`), a certificate whose job failed (`ShownSentIsOnItsWay`). The
  properties say that these are the only exceptions.
- A camera permission given after its run was cancelled opens a stream nobody
  stops, and a run cancelled while its video starts keeps its interval
  (`CameraReleased`, `ScannedForDayShown`).
- Without `BarcodeDetector` an event of several days opens on an empty camera
  view without the toggle to leave it (`page.tsx:77`, `:214`, `:225`), where
  `qr-scanner.tsx:17-18` promises a fallback.
- `missing` counts attendees marked as not coming (`attendance.service.ts:241`);
  refund events are ignored (`checkout.service.ts:102`); attendees provisioned
  after the dispatch get no certificate by themselves
  (`certificates.service.ts:127`).
- A removed logo and a cleared description are `undefined` when sent, so they
  come back (`settings/page.tsx:433`, `events/[id]/page.tsx:98`).

### Bounds

- Two requests are enough for a duplicate and its original; the third is a
  bystander that fills the cache, takes the lock again, or asks for the summary.
- Two attendees, so that a count differs from a Boolean and a total can change;
  one day, since days share nothing (`MaxRestarts`, `MaxFails` 1: a second fault
  only repeats the first from another state).
- One ticket and two orders are the last ticket and the race for it (the violated
  runs); two failures let a retry fail too.
- One order is enough for `checkout`: orders share the stock only, whose decrement
  has no condition, and every safety property of the run is a theorem for any
  number of them. Three workers are a repeated post beside two that overlap.
- `EmailsHaveACause` counts per attendee, so one attendee is enough; two workers
  are two processes, and one edit, one fault and one request by hand are one of
  each cause.
- Two tabs and two slots at the server, so that a replay runs beside an orphaned
  batch; batches of two, so that three queued scans are one too many. The good
  scan is accepted for both events, so either tab may send it.
- Two days and two picks: away from a day and back, with an answer of the first
  visit still out; two check-ins a day may cross.
- Two tabs share a browser or do not; three accounts are an owner, a member and
  a second owner; three calls are two that race and one that follows.
- Three clicks on a page are two calls that overlap and an edit between them;
  the credential's fourth replaces an artwork that is being replaced; a loss is
  enough to make one answer missing, and the same call may then be repeated.
- Bounds on provisioning, edits and flags (`Flaggable`, `MaxEdits`, `Max*Clicks`)
  count what an organizer does, not what the code decides.

### Fairness

`FairSpec` assumes that a handler which has started goes on (its stores answer),
that Asaas keeps posting what was not acknowledged, that the sweep is repeated
(BullMQ's repeatable job) and a free worker eventually takes it, that each open
tab's interval keeps flushing and that the network comes back. The worker that
takes a sweep needs strong fairness: send jobs may be taken between two sweeps.
For the live card it is that socket.io keeps reconnecting (its default) and that
the server gets round to a `join` it has received: weak fairness of `Connect` and
`Join`. It is not that the join succeeds: it may be lost with its connection or
fail, as often as `MaxDrops` says, and `KeepsListening` ends "outside" then.
No fairness is assumed of buyers, of organizers, of the lock's expiry, of
submissions or of faults; faults are bounded, so they stop. The sessions and the
pages state safety only, and no fairness.

## Proofs

All theorems hold for any constants that satisfy the named ASSUMEs; TLC
evaluates those on every run. Each module's first theorem is its type
correctness, and the others build on it.

- **CheckIn** (`CheckInProofs`).
  `ConfirmedAtMostOnce`: a request that is past its UPDATE has its row PRESENT,
  and a PRESENT row is never confirmed again.
  `AnswersAreCovered`: each lock stands for a row that is PRESENT, has a live
  request before its UPDATE, or is `orphaned`; without that strengthening the
  busy answer has nothing to stand on.
  `CheckInKeepsPromise`: the refinement into `Presence`, one step per action; a
  request that fails, and a crash, map to `Break`.
  `ExactCountStaysExact`: an INCR takes one request out of `Pending` and adds
  one; a confirmation adds a row and a pending request; a fill never overwrites.
  `EachCountedAtMostTwice`: the invariant bounds both the key and the number a
  fill is about to write, by the PRESENT rows plus the participants whose INCR
  has been made.
- **OfflineQueue** (`OfflineQueueProofs`). `ScansAreKept`: along the chain by
  which a scan leaves the store. A lock, an accepted item, an item to be removed
  and a removed scan each stand for a row that is recorded, promised (a batch
  holds the lock and is about to update, which only updating or dying ends,
  `TurnStays`) or orphaned.
  `GateKeepsPromise`: the refinement into `Presence`, from the same invariant. A
  promise begins with a lock (`LockOrigin`), ends with the record alone, and a
  scan taken out of the store has its row recorded by then. The run checks this
  property alone, as `KeptUntilRecorded` says less: a step of `Presence` tells
  only what is PRESENT, promised or broken. A step that fails is one of `Break`.
- **Checkout** (`CheckoutProofs`). `CheckoutAdmitsOnce`, `BooksAlwaysBalance`:
  PAID, having an attendee and having taken a ticket are one fact, because one
  transaction writes them and the unique order id rejects a second one.
  `AckedSettlementIsProvisioned` holds for buyers who pay at any time: a charge
  paid in time is linked for good (`InTimeIsLinked`), so a post that finds no
  order is of one that was not (`UnknownIsEarly`), and a worker about to answer
  has its order PAID, by its own transaction or by the one that beat it
  (`DoneIsPaid`).
- **Certificates** (`CertificatesProofs`). `DispatchedIsCovered`: a sweep past
  its list has each attendee either still in its batch or covered, for every
  sweep under way at once. `MarkedWasEmailed`: a worker about to mark has sent.
  `EveryEmailHasACause`, for any number of processes, edits, deaths and requests:
  `CauseInv` counts for each attendee what is spent (e-mails, jobs waiting or at
  work, places in a sweep's or a request's list) against the causes so far. Of
  the causes by sweep only those are counted that found the event since it was
  last unstamped, until it is stamped and no more can; an edit, which unstamps
  it, pays for a new round of all of them.
- **LiveSummary** (`LiveSummaryProofs`). Runs of the effect are bounded because
  each one is a pick of a day (`TypeInv`). `CardIsOfDay`: the request of the
  active run is for the selected day. `CardIsLastCast`: its premise, an empty
  wire, is not kept by taking updates one at a time, so the invariant speaks of
  the updates of each day that are still under way: the last of them is the
  day's last broadcast, and when none is left the card shows it.
- **Sessions** (`SessionsProofs`). An account's row keeps its role and tenant for
  life, so every token ever signed agrees with it (`TokensStayTrue`), and the
  owner is the one account registration made (`OneOwnerEach`). `ShownUserIsHeld`
  needs what is under way: an answer of `/auth/me` or of a login stands for the
  cookie of the browser as it will be heard, unless the tab is muddled.
  `AdmissionIsEntitled` is an action property from the same invariant.
- **Check-in page** (`EventPagesProofs`, `GateInv`). Requests and runs are
  numbered: the last search asked, once the timer has run out, is for what is on
  screen; a run that is not the current one is cancelled, and what a cancelled run
  may still hold depends on the await it was cancelled at (`ScannerInv`).
- **Event's page** (`EvInv`). The event with its form and the list of guests
  share nothing, so each half is an invariant of its own: every read is a row as
  of its time, and unless something was lost or overtaken the newest read is on
  screen or on its way; a flag under way carries the list that is on screen.
- **Credential's page** (`CrInv`). Only the download of the artwork shown is live;
  with none live the image is that artwork's or none. A save carries the draft as
  it stands.
- **Certificates' page** (`CeInv`). A row shown as sent, in the list or in the
  answer on its way, has its certificate, a job or a dropped job, and these never
  go back (`OnItsWay` only grows).
- **Wizard** (`WizInv`). Every step behind the one on screen still passes its
  check (`Reviewed`): going back is allowed, editing concerns the step on screen
  alone. Events made are counted against answers lost, with one more while an
  answer is awaited.
- **Organization** (`OrgInv`). A field of the form that was not typed in equals
  the shown profile's, so a difference is something typed; the newest profile is
  shown or on its way.
- **Team** (`TeamInv`). Among all rows shown or carried by an answer, two of one
  account and one time agree, and the newest of an account is its row, unless a
  write is about to be read back (`InOrder`): the invariant speaks of the rows
  under way because answers are taken in any order.
- **Dashboard** (`DashboardProofs`). A step of the tab is a step of one page and
  a stutter of the six others (`OnePageMoves`), so `DashInv` is the conjunction of
  the pages' invariants and the run's eleven properties follow, as theorems of
  the same `Spec` that the run `dashboard_pages` checks.

The assumptions are on bounds (naturals), on finiteness where a count or a maximum
is taken (`ActorsAreFinite`, `OrdersFinite`, ...), and on `Nil`: the absent value
is none of the values it is compared with (`NilIsNoAnswer`, `NilIsNoProfile`,
`NilIsNoEvAnswer`, `NilIsNoArtwork`, `NilIsNoRow`), as `null` and `undefined` are
none of the objects the code compares them with.

Only model-checked: the liveness properties `AckedIsRecorded`, `QueueSettles`,
`SettledIsProvisioned`, `DueIsDispatched` and `KeepsListening`, since fairness and
ENABLED are out of the prover's reach, and the three violations, which are single
behaviours. Every other property of the runs is a theorem.

## Not modelled

- The HMAC of a QR token, the hash of a password, the signature of a JWT: taken
  as correct, valid or not as a free choice.
- Prices, dates, fonts, pixels and layout; the rendering of certificates.
- The feed of the last scans on the check-in page, whose pending entries are
  keyed by another id than their results (`check-in/page.tsx:132`).
- `search`, `findAll`, the public pages, the overview and the reports: they read
  rows the models have, and keep nothing. The public checkout form sends one
  order and leaves the page.
- A webhook post with a wrong token: 401 before anything is read
  (`checkout.service.ts:99-101`).
- Wiring of modules; the size limit of a request body, which refuses a long
  batch like `MaxBatch`.

## Plan

The feed of the check-in page over `OfflineQueue`'s results.

The number of runs is kept to one per question; new components replace runs
whose question a later one answers as well.
