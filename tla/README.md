# masternova: TLA+ models, checks and proofs

This directory specifies the parts of masternova whose correctness depends on the order in which
requests, webhooks, relays and crashes interleave. It holds the modules (`*.tla`), the TLC
configurations (`*.cfg`), the proofs checked by TLAPS and a manifest (`PROJECT.json`) that ties every
definition to source lines, every property to the runs that check it and to a mutant of the code that
breaks it, and every hazard of the code to the properties that watch it.

Paths below are relative to the repository root.

## 1. The system

masternova is a learning platform in one monorepo. `apps/api` is a NestJS modular monolith, run in
several replicas; `apps/worker` is the background process, also replicated; `apps/web` is the browser
client; `packages/{contracts,db,shared,storage}` are shared code. All durable state is in PostgreSQL,
used through Prisma at the default isolation level READ COMMITTED. Redis holds a cache and the BullMQ
queues, S3 holds media, and Razorpay is the payment provider.

No component locks across a network call. Concurrency is controlled by unique constraints, by
conditional updates (`UPDATE ... WHERE id AND status = from`) and by `FOR UPDATE SKIP LOCKED`, so nearly
every decision is made on a row read earlier and has to survive the row having moved. That is where the
models look.

### Inventory

**Commerce** (`apps/api/src/modules/commerce`)
- State: `CartItem`, `Order` and `OrderItem` (a frozen snapshot), `Coupon`, `CouponRedemption`,
  `Payment`, `Refund`, `ProviderWebhookEvent`.
- Operations: edit the cart, check out (read, refuse owned courses, quote, place, create the provider
  order, store its id, submit), cancel, expire (a sweep in every replica), refund, receive a webhook.
- Interactions: writes `Entitlement` rows and outbox rows inside its own transactions; calls the
  provider; is called back by it, at least once and in any order.
- Hard: a webhook races a cancel, a sweep and a second webhook; two orders for one course share one
  entitlement row; counts under READ COMMITTED; a process dies between claim and outcome.
- Correct when: orders move only forward; money, status and access agree; a coupon is held exactly by
  the orders that use it; each event is raised once; a captured payment settles.

**Outbox relay, dispatcher, unit of work** (`apps/worker/src/modules/outbox-relay`,
`packages/db/src/unit-of-work.ts`)
- State: `OutboxMessage`, `ProcessedEvent`.
- Operations: publish with the state change, claim a batch, run every handler once, record the outcome,
  retry with backoff, park as DEAD.
- Hard: several relays, a relay that outlives the visibility deadline of its claim, a relay that dies, a
  handler that fails after another succeeded.
- Correct when: no message is published before all handlers ran; claims are exclusive; retries are
  bounded; every message settles.

**Notification** (`apps/worker/src/modules/notification`, `apps/api/src/modules/notification`)
- State: `EmailDelivery`, `EmailSuppression`, `NotificationPreference`.
- Operations: consent check, claim of a delivery row by insert, takeover of a failed or abandoned one,
  send, record; bounce and complaint webhooks; preferences.
- Hard: the loser of the insert reads and then updates by id; the provider accepts and the answer is
  lost; a bounce arrives before the row knows the provider's id.
- Correct when: every accepted e-mail was counted, a final row is not sent again.

**Identity** (`apps/api/src/modules/identity`)
- State: `User`, `Session`, `RefreshToken`, `VerificationToken`.
- Operations: register, log in, refresh (rotation with reuse detection), sign out of one or all
  sessions, issue and redeem verification and reset links, reset the password.
- Hard: `rotate` decides outside its transaction; two requests present one token; two requests issue a
  link; a reset revokes in a second transaction.
- Correct when: tokens and links are spent once, revocation is final, reuse is reported once, no device
  is stranded, a reset signs everybody out.

**Entitlement** (`apps/api/src/modules/entitlement`)
- State: `Entitlement` rows, a Redis cache of them (300 s), playback tokens, presigned URLs.
- Operations: the policy chain, cached `find`, `grant`, `revokeByOrder`, `forget` after the commit, the
  manifest.
- Hard: a read in flight while a refund commits may refill the cache with the old row; the DEL may fail or
  die with its process; the course is cached nowhere, the row is.
- Correct when: a refund or a takedown stops the learner within a bound that can be written down.

**Media upload** (`apps/api/src/modules/media`, `apps/web/lib/multipart-upload.ts`, `packages/storage`)
- State: `UploadSession`, `Asset`; at the provider, the parts and the assembled object; in the browser, a
  pool of PUTs and the parts it holds ETags for.
- Operations: plan the parts, hand out windows of part URLs, PUT, begin, observe, complete, recover, abort,
  expire (a reaper in every replica).
- Hard: complete, abort, recover and the reaper race for one row; the assemble may succeed without an
  answer; a slow assemble outlives its grace period; a PUT may arrive and its answer not, or arrive late.
- Correct when: an asset is READY only if its object exists; `asset.ready` or `asset.failed` is raised
  once; an ended upload stays ended and leaves no object; every upload ends; what is assembled is the file.

**Video pipeline** (`apps/worker/src/modules/pipeline`)
- State: `Asset.pipeline` and its bar, `MediaRendition` rows, objects in the bucket, the BullMQ flow (probe,
  then rungs, poster and sprite, then package), a reconciliation cursor.
- Operations: probe and fan out, encode or extract, upload, record, package, fail, replay a dead letter,
  sweep strays.
- Hard: at-least-once jobs run beside their own redelivery; failure is recorded next to late successes;
  a progress write is not awaited; the sweep deletes on an inventory that ages.
- Correct when: a row stands for uploaded objects, a READY asset is complete, the sweep takes nothing that
  is needed, nothing stops without a trace; and the rungs, the poster and the filmstrip fit the source.

**Idempotency interceptor** (`apps/api/src/common/interceptors/idempotency.interceptor.ts`)
- State: `IdempotencyRecord`. Claim by insert, replay, release on error, store after the answer.
- Hard: a crash between the claim and the update nobody waits for; updates that land late, by key.
- Correct when: requests with one key run once, and a replay gives the answer to the same request.

**Catalog** (`apps/api/src/modules/catalog`)
- State: `Course`, `Section`, `Lecture`, the edit log, optimistic versions (ADR-0016).
- Operations: curriculum commands and their inverses, undo, details and prices, the lifecycle with its
  publish gate, duplication; lists with filters and a keyset cursor.
- Hard: the course is judged on a read that precedes the transaction; an inverse must still apply after
  other edits and undos; a list moves while it is walked.
- Correct when: undo never jams, positions never clash, counts do not drift, an archived course stays as it
  was, a walk shows every course that keeps its place exactly once, a quote adds up.

**API contracts and schemas** (`packages/contracts`, `packages/shared`): event and input types, no state.
**Health, configuration, filters, guards**, **web pages**, **seed**: no state of their own.

## 2. The modules

| Module | What it is |
| --- | --- |
| `OrderMachine` | the edge list of `order-state-machine.ts` and its lookups |
| `Commerce` | carts, checkout, orders, coupons, refunds, payment webhooks, the provider |
| `PurchaseLedger` | abstract: what a learner may rely on, in single steps |
| `CommerceProperties` | properties of `Commerce`, and the refinement mapping to `PurchaseLedger` |
| `CommerceProofs` | theorems about `Commerce` |
| `Outbox` | relay, dispatcher, delivery log, consent, bounces |
| `OutboxProperties`, `OutboxProofs` | its properties and theorems |
| `Identity` | accounts, sessions, refresh tokens, links |
| `IdentityProperties`, `IdentityProofs` | its properties and theorems |
| `Upload` | one multipart upload: session, asset, the provider's parts and object, the reaper |
| `UploadProperties`, `UploadProofs` | its properties and theorems |
| `Letters`, `LettersProperties` | handlers, templates, whom a letter goes to, the signed unsubscribe link; proved with `Outbox` |
| `Access` | entitlement row, cache, policy chain, playback token, presigned URL |
| `AccessProperties`, `AccessProofs` | its properties and theorems |
| `Pipeline` | the jobs of one asset, their queue, bucket and rows, and the sweep |
| `PipelineProperties`, `PipelineProofs` | its properties and theorems |
| `Renditions`, `RenditionsProperties` | the pipeline's arithmetic: ladder, encoder settings, stills, bar; proved with `Pipeline` |
| `Multipart` | the part plan, the windows of URLs, the browser's pool |
| `Idempotency` | the record of a key and the requests that race for it |
| `Uploading` | both composed with the completion of an upload |
| `UploadingProperties`, `UploadingProofs` | its properties and theorems |
| `Catalog` | authoring one course: commands, undo, lifecycle, duplication |
| `CatalogProperties`, `CatalogProofs` | its properties and theorems |
| `Pricing` | quotes, coupon rules, allocation of a discount; pure |
| `Storefront`, `StorefrontProperties` | lists, filters and cursor over courses that change; extends `Pricing`; proved with `Catalog` |
| `MC*` | model values and symmetry sets for TLC |

A definition named `Bug...` is a plausible programming mistake in the definition just below it. Nothing
in the models uses one. `PROJECT.json` lists, for each property of each passing run, a mutant that puts
one of them in place and makes TLC find the property violated.

### How state and steps correspond to the code

Variables are tables, with the columns the decisions depend on. In-flight work is a function from
processes to records (`job`, `relay`, `request`): the record's fields are the local variables that
survive an `await`, and `pc` names the await. One action is one statement, or one transaction whose
statements are all conditional on its first. Reads that precede a transaction are steps of their own, so
any other process may act between a read and the write based on it.

| `Commerce` | code |
| --- | --- |
| `BeginCheckout`, `RefuseOwned`, `Quote`, `Place`, `CreateProviderOrder`, `SetProviderOrderId` | `CheckoutService.checkout` from top to bottom |
| `ReadOrder` | `require` and `transitionFor`, before the transaction |
| `Commit` with `Settle`, `Refund`, `Apply` | the transactions of `OrderService` behind `OrderRepository.transition` |
| `Granted`, `Revoked` | `grant` for each item, `revokeByOrder` |
| `BeginCancel`, `BeginExpire`, `BeginRefund`, `Repay` | cancel, `OrderExpiryService.sweep`, `RefundService.refund` |
| `ClaimEvent`, `Reclaim`, `AnswerDuplicate`, `Dispatch`, `MarkProcessed`, `RecordError` | `PaymentWebhookService.receive` and `dispatch` |
| `Attempt`, `DashboardRefund`, `Emitted`, `Due` | external: the provider |

| `Outbox` | code |
| --- | --- |
| `Publish` | `UnitOfWork.execute` |
| `Poll`, `Take`, `Finish` | `OutboxRelayService` claim, `deliver`, `recordFailure` |
| `CheckProcessed`, `Record`, `GiveUp` | `DomainEventDispatcher.dispatch`, `runOnce` |
| `Consent`, `ClaimDelivery`, `Reread`, `Retake`, `Send`, `MarkSent`, `MarkFailed` | `NotificationService.send`, `email-delivery.repository.ts` |
| `Bounce`, `ChangePreference` | the mail webhook, the preference centre |
| `TimePasses`, `RowGoesStale` | `availableAt` and the five-minute staleness of a SENDING row |

| `Identity` | code |
| --- | --- |
| `Register`/`CreateUser`, `Login`/`OpenSession`, `ForgotPassword`/`IssueLink`, `ResetPassword`/`RevokeAfterReset` | `AuthService`; a pair is a read and the transaction that relies on it |
| `Refresh`, `Rotate`, `RevokeOnReuse` | `SessionService.rotate`, `revokeOnReuse` |
| `SignOut`, `Revoke` | the three sign-outs, and every revoking UPDATE |
| `Issued`, `Redeem` | `VerificationService.issue`, `redeem` |

| `Upload` | code |
| --- | --- |
| `Create`, `InsertRows`, `Observe` | `UploadSessionService.create` and `resume` |
| `BeginComplete`, `ListParts`, `Claim`, `Assemble` | `UploadCompletionService.complete` from top to bottom |
| `BeginRecover`, `Check`, `Release` | the COMPLETING branch of `complete`, `recover`, and the `catch` of the assemble |
| `ReadForFinish`, `Finish` | `finish`: its read, and its writes with the event |
| `BeginEnd`, `End`, `AbortParts` | `abort` (requests) and `findExpired` (reapers), `end` |
| `Sweep` | `UploadReaperService.sweep`, session by session |
| `PutPart`, `OrphanLands` | external: the browser's PUTs, an assemble that commits after its caller has gone |

| `Access` | code |
| --- | --- |
| `Pay`, `Refund`, `Committed` | `grant` and `revokeByOrder` in the order's transaction |
| `Forget`, `ForgetFails`, `Crash` | `forget` after the commit, its swallowed error, a process that dies before it |
| `Transition`, `Revise` | the lifecycle's status, prices and previews |
| `Open`, `CacheGet`, `CacheDown`, `RowFind`, `CacheSet`, `Decide` | `EntitlementService` with the cached repository's `find`, then the chain and the token |
| `lectureWithCourse`, `AdminOverride` ... `RevokedEntitlement` | what the policies are shown, and each policy of the chain |
| `Policies`, `Allowed` | the chain and the engine's deny-first verdict |
| `Manifest`, `UrlLife` | `PlaybackService.manifest`, the lifetime of its presigned URLs |

| `Pipeline` | code |
| --- | --- |
| `AssetReady`, `Added`, `Fanout` | the outbox handler; deterministic job ids; `JobQueueService` |
| `Take`, `Caught`, `Throw`, `MarkFailed` | `PipelineWorker.run`, `PipelineFailureService` |
| `Complete`, `Reject`, `Abandoned`, `Stalled`, `Forget` | external: BullMQ's own moves |
| `Replay` | `PipelineStatusService.replay` |
| `ProbeBegin`, `ProbeRead`, `ProbeFanout`, `ProbeAdvance` | `ProbeProcessor.execute` |
| `TranscodeBegin`, `Encode`, `LateProgress` | `TranscodeProcessor.execute`, its progress write that nobody awaits |
| `StillBegin`, `Put`, `Upload`, `Record` | poster and sprite; every upload; `upsertRendition` |
| `PackageBegin`, `PackageWrite`, `PackageCommit` | `PackagingProcessor.execute` |
| `SweepRead`, `SweepList`, `OrphansIn`, `SweepDelete`, `SweepEnd` | `ReconciliationService`, `orphan-scan.ts` |
| `Trim` | a deploy whose ladder has fewer rungs |

`Renditions` keeps the code's function names (`ladderFor`, `widthFor`, `spriteLayout`, `overallPercent`).

| `Multipart`, `Idempotency`, `Uploading` | code |
| --- | --- |
| `PartSize`, `PartRange`, `Window` | `upload-plan.ts`, `UploadSessionService.view` |
| `Create`, `Resume` | `UploadSessionService.create`, `resume`, with the pool they start |
| `Take`, `Accepted`, `Refused`, `Again`, `Abort` | the workers, retries and signal of `uploadParts` |
| `Whole` | `assertComplete` |
| `Claim`, `Consult`, `Succeed`, `Fail`, `Lands` | `claim`, its read after a violation, `runAndStore`, and the store or release that lands later |
| `Post`, `ListParts`, `ClaimSession`, `Assemble` | the request, and `UploadCompletionService.complete` behind the interceptor |

| `Catalog` | code |
| --- | --- |
| `AddSection` ... `MoveLecture`, `Handled`, `Applies` | `curriculum-commands.ts`: what a command does and its inverse, and when it throws |
| `BeginEdit`/`CommitEdit`, `BeginUndo`/`CommitUndo`, `EditRefused`, `UndoRefused` | `CurriculumService.apply`, `undo` |
| `Claimed`, `Bumped`, `RolledUp` | `claimVersion`, the bump without a claim, the denormalised count |
| `CommitDetails`, `CommitPricing` | `CourseEditingService` |
| `BeginTransition`, `ReadGate`, `CommitTransition`, `TransitionLost` | `CourseLifecycleService`, `publish-gate.ts`, `setStatus` |
| `BeginDuplicate`, `CommitDuplicate` | `CourseDuplicationService`, `cloneCourse` |

`Storefront` keeps the names of `course-specifications.ts`, `cursor.ts` and `course-catalog.service.ts`
(`visibleTo`, `filtersFrom`, `after`, `encodeCursor`): `Ask` and `NextPage` are a list request without and
with a cursor. `Pricing` keeps those of `pricing/` (`quote`, `applyCoupon`, `allocateDiscount`), and
`Letters` those of the notification handlers and of the two halves of the unsubscribe link.

### Abstractions

- In `Commerce` a price is only whether a total is zero, and one coupon exists, which passes every gate but
  its two limits; the other gates and the amounts are in `Pricing`. Names, payload texts and the wording of
  e-mails are left out. A refund the provider answers PENDING counts as returned. `AddToCart` and, in
  `Outbox`, `Consent` each make two reads or a read and a write of the code one step.
- Deadlines are flags that become true at some moment: the payment window may end at any time; an outbox
  claim's deadline passes freely once its holder has let go, and at most `MaxOverruns` times while
  somebody still works under it. A delivery row goes stale only after the claim it was written under,
  because both windows are five minutes and the row is written later. `Access` is the exception: its
  subject is durations, so it has a clock, kept as time left and time gone by.
- A refused request changes nothing and is no action, unless its refusal is part of what is modelled.
- A cache, a lock or a queue that is not mentioned does not take part in the modelled decisions.
- `Commerce` and `Outbox` meet at the outbox table: `Commerce` counts the rows it writes (`published`),
  `Outbox` starts from a row written (`Publish`). They share no other variable, so they are checked
  apart. For the same reason `Letters`, which has no state of its own but preferences, is evaluated beside
  `Outbox`, and `Renditions` beside `Pipeline`: what is delivered, and what is encoded, does not change when.
- `Session.opened` in `Identity` records the password current when the row was inserted. A login that
  had checked an older one and opens its session after a reset counts under the new password; that race
  is listed under section 6.
- An upload's `parts` are, in `Upload`, none, some or all of the file, and its `age` is below the client's
  grace, past it, or past the reaper's. A claim grows old freely once its process is gone, and at most
  `MaxOverruns` times while it is at work, because the code takes two minutes to be more than any assemble
  needs. Uploads share no row, so there is one. Parts, sizes and the interceptor are in `Uploading`, which
  in turn leaves cancel, recovery and the reaper to `Upload`.
- A stretch of bytes is its two ends, and an ETag is the stretch: a digest of the bytes. Two files of
  different sizes are different; two of one size are not told apart (section 6).
- The loop that hands out a discount's remainder is one round over the lines with room, in the order the
  code sorts them; section 5 says why there is never a second.
- `Pipeline` follows one asset, because two share only the queue's order. Its bar has four stages,
  which `overallPercent` keeps in order (`BandsTile`, an assumption TLC evaluates). A ladder only loses
  rungs: the code's comments speak of trimming it, and one that grows re-encodes nothing.
- `Catalog` follows one course and reads its tree in one step; the two queries of a duplication stay apart.
  Positions count in units of `POSITION_GAP`. Renumbering is one write; the code parks the rows on negative
  numbers first, which nobody outside the transaction sees (`curriculum.repository.ts:124-167`). The version
  an edit will claim is chosen when it begins, freely; `ahead` notes, for the properties alone, whether it is
  beyond the row the edit was judged by.

## 3. Model checking

Every constant is given in the `.cfg` of the run; bounds are named constants of the modules. Deadlock
checking is off throughout, because every instance ends: ids, attempts, faults and edits are used up, and
a system that waits for the next request may stop. Liveness is stated as such instead. State counts are
distinct states, after symmetry.

| Run | Instance | Question |
| --- | --- | --- |
| `webhooks` | 1 order, 2 concurrent deliveries, 2 event ids per fact, 1 request, 1 delivery that throws; 1.08 million | Does any interleaving of deliveries with checkout, cancel, refund and sweep pay without money, refund without returning it, work twice on an event or leave its order waiting? |
| `rebuy` | 2 orders of one learner for one course, 1 delivery, 1 request, coupon limit 1; 674 thousand | Do entitlement, orders and coupon agree when two orders share the row; is every behaviour one of `PurchaseLedger`? |
| `coupons` | 2 own orders and a foreign one, 2 requests, free totals, 1 crash; 1.02 million | By how much can the coupon limit be passed? |
| `progress` | 1 order, 2 payment attempts, 1 delivery that throws, `FairSpec`; 47 thousand | Does a captured payment always settle? |
| `outbox` | 1 message with an optional e-mail, 2 relays, 2 attempts, 2 failures, 1 overrun, 1 crash, `FairSpec`; 458 thousand | Are messages handled before they are published, claims exclusive, settled rows settled; does every message settle; does the letter say what it should to whom it should? |
| `identity` | 2 sessions, 3 tokens, 3 links, 2 requests, 1 crash; 1.49 million | Are tokens and links spent once, revocations final, races bounded? |
| `access` | 2 orders, 1 grant request at a time for learner, instructor or administrator, of a course that may be free or preview, TTL 1, token 2, delay 1, 1 loss, 1 edit; 5.9 million | For how long can a refunded learner, or anybody on an unpublished course, still watch? |
| `upload` | 2 requests, 1 reaper, 1 overrun, 1 silent assemble, 1 crash, `FairSpec`; 108 thousand | Do session, asset, outbox and bucket agree whatever complete, retry, cancel and reaper race, and does the upload end? |
| `uploading` | 3 sizes around the plan's thresholds, 3 runs of a pool of 2, 2 faults, 2 completes with one key, 1 crash; 533 thousand | Is what is assembled the declared file, and do two requests with one key run as one? |
| `pipeline` | 2 rungs and a poster, 2 workers, 2 attempts, any 2 untoward events; 12 durations, 8 heights, 4 shapes; 528 thousand | Is a READY asset complete and a row true, does the sweep spare what is needed, does nothing stop without a dead letter; does the arithmetic fit every source? |
| `catalog` | 2 sections and 2 lectures, one more of each, 2 requests, 3 commits, every claim that can be met; 2.92 million | Does undo always work, do positions and counts stay right, does an archived course stay as it was? |
| `storefront` | 3 courses with ties, 2 instructors, pages of one row, every sort, 1 edit and 1 tick during a walk, 7 coupons; 152 thousand | Is a course that keeps its place on exactly one page, and does every quote add up? |

Why the bounds suffice. Each race in the code is between two parties: two deliveries of an event, two
orders for one course, two checkouts on one coupon, two relays on one message, two requests on one token,
key or course, a request and the reaper on one upload, a job and its own redelivery. Each run has two of
the party it is about. One failure of each kind is enough to reach every error path, and a second only
repeats it with fewer attempts left; `outbox` has two because two are needed to reach DEAD, and
`pipeline` any two of eight kinds of event, because its hazards are pairs (a crash, then a sweep; a
replay after a late success). Two event ids stand for any number, since what matters is whether the id
was seen before. In `access` one grant request at a time suffices: an entry filled by one and used by the
next is what doubles `Delay` in `Window`, and the theorem covers requests that overlap. In `catalog` three
commits are an edit, another edit and the undo that must still find its place. In `storefront` pages of
one row make every pair of neighbours a page boundary; in `uploading` the sizes are one below and one
above a doubling of the part size, and one past the cap. The theorems of section 5 remove the bounds for
the components they are about.

### Fairness

`Commerce!FairSpec` assumes that a claimed delivery runs to its end (weak fairness of its steps; Node runs
an accepted request) and that the provider keeps redelivering an event until it is answered 2xx, of which
the server accepts one in the end (strong fairness of `Deliver`, because a delivery process is free
only now and then). Nothing is assumed of learners, checkouts or sweeps. `progress` has no crash:
with one, the claim is lost for good (section 6). It has one delivery at a time, for the
reason given in section 6 under "Overlapping retry"; the property's comment states both conditions.

`Outbox!FairSpec` assumes that deadlines pass, that some relay polls (a timer in the code) and that a
relay's tick runs to its end. Crashes are not excluded, only bounded in number.

`Upload!FairSpec` assumes that time passes, that a request accepted by the server runs to its end unless it
crashes, and that the reaper's timer sweeps again and again. Nothing is assumed of the browser or of
the instructor: an upload they abandon ends as well.

The other specifications state no fairness: their properties are safety, and `NothingStranded` says what a
liveness property of the pipeline would without asking that BullMQ and its operators act in time.

## 4. Properties

Each module's type invariant is named `...TypeOK`. The type invariants of all modules that
have a proof module are theorems and need no run. Each other property is stated with the code
it is about in the `...Properties` modules; the hazards each one watches are in `PROJECT.json`. The ones to
read first:

- `ImplementsLedger`: under the mapping `phase`, `offer`, `holder`, every step of checkout, webhooks,
  retries, sweeps and refunds is a step of the ledger or leaves it unchanged. In particular a refund frees
  exactly the seats its order still holds.
- `AccessIsPaidFor` and `PaidIsServed`: the two directions of "access if and only if paid", the second
  with the one exception the shared row forces.
- `CouponHeldByLiveOrders`: a redemption lives as long as its order; `OverRedemptionBounded`: how far the
  race on the count can go.
- `EventsOnce`: receipts are exactly once under any number of deliveries and event ids.
- `PublishedMeansHandled` holds through overruns, failures and crashes. `NoOverlap` and `SettledStays` hold
  while no relay overruns its claim, and their statements say so; section 6 says what an overrun does.
- `MailKeepsItsWord`: an unsubscribe link minted in the worker is honoured by the API and stops that kind of
  letter and no other, and no letter that carries a credential can be refused; the owner of an event, and
  nobody else, is told.
- `RevocationCutsChain`: what concurrent requests can leave behind a revocation, as a tight bound.
- `RevocationWindow` and `UnpublishedStops`: the two bounds on stale access, and why they differ: the row is
  cached, the course is not. `StaleOnlyWhenOvertaken` says what an entry that is stale must have suffered.
- `OutcomeToldOnce`: one story in session, asset and outbox, through recoveries of live claims and crashes.
  `NoObjectLost`: what `objectExists` before a release achieves, and under which conditions; section 6
  says what happens outside them.

- `AssembledIsWhole`: the sizes that `assertComplete` compares are enough, although the server sees no byte:
  after late PUTs, a rejected pool that goes on, and a page reopened with another file.
- `OneRunUntilAFailure`: what the interceptor guarantees, and exactly until when.
- `ReadyIsComplete`, `RowMeansUploaded`: a READY asset has everything its players ask for, through
  redeliveries beside a live run, replays, trimmed ladders and sweeps. `NothingStranded`: an asset still
  RUNNING with nothing left to run has a dead letter. `ReadyIsWatchable`: keyframes, widths, poster and
  filmstrip fit sources on both sides of every threshold.
- `StackUnwinds`: the newest inverse always applies, whatever was edited and undone since.
- `WalkIsExact`: the keyset of `after` and the order of `orderByFor` are two definitions of one order; ties
  and undated rows are where they could differ. `QuotesAddUp`: against an independent statement of what a
  coupon promises.

## 5. Proofs

`tlapm` checks every theorem from nothing: 13396 obligations. The assumptions are
`CommerceAssumption`, `OutboxAssumption`, `LettersAssumption`, `IdentityAssumption`, `UploadAssumption`,
`MultipartAssumption`, `UploadingAssumption`, `AccessAssumption`, `PipelineAssumption`,
`RenditionsAssumption`, `CatalogAssumption`, `StorefrontAssumption` and `CouponsAssumption`, next to the
constants: index sets that must be counted are finite, bounds and durations are natural numbers, a learner
is no staff, there is a rung, job names differ from one another, `None` and `Nobody` are none of the values
they stand beside, hooks and requests are different processes; a source has a positive height, shape and
duration, which the probe rejects otherwise; courses are numbered and their rows and coupons have the
columns of their tables; no kind of file may be larger than a plan of the largest parts can carry, which the
process asserts of its tables when it starts. TLC evaluates them in every run.

**Commerce.** The invariant is layered, each layer using the ones below it.
1. `TypeInv` and `JobsOK`: a job's fields fit its `pc` (a job that commits names an order and an edge that
   existed). Without it the shape of `Commit` is unconstrained.
2. Every change of a status is one of a few *moves* (`SalesStep`): create, settle, refund, or end unpaid.
   Status, entitlement, coupon and event counts are only changed by moves, so `CouponHeldByLiveOrders`,
   `EventsOnce`, `AccessIsPaidFor` and `PaidIsServed` are preserved move by move, whatever the process.
   `MovesForward` and `PaidStaysPaid`, which no run lists, follow from the same fact.
3. `MoneyInv` (with `JobGood` and `Pages`): an order with a payment page is linked and submitted; a job past the refund
   call has returned the money; a claimed event was emitted; a delivery that handled a capture left its
   order no longer waiting. This carries
   `PaidMeansCaptured`, `RefundedMeansReturned`, `ProcessedCaptureSettles` and `EventsFindTheirOrder`.
4. `LedgerImplemented`: initial states map to initial states, each move maps to a step of the ledger, all
   else to a stutter.
5. `OneHolderAlways`: whoever works on an event holds its claim, and only an event whose claim is absent
   or failed is taken.
   `OverRedemptionIsBounded` counts redemptions together with the checkouts past their quote: a checkout
   passes its quote only if the count is below the limit, and at most all other requests wait there.

**Outbox.** `JobsOK`: the relay's local variables fit its `pc`. `HandledInv` (with `DoneIn`): every
handler that a relay has ticked off without failure is in `processed`; hence `PublishedMeansHandled`,
for overlapping relays too. `SendsInv`: accepted e-mails and relays about to send are together at most the
row's attempts, which every claim and takeover increases first. `HoldsOK` and `RowsOK`, both conditional on
no overrun having happened: a held message is PUBLISHING, hidden and held once, its `attempts` are those
its relay has seen, and a row that a relay is writing is not final. They give the four conditional
properties, for any number of relays and any batch size. `MailIsTrueToItsWord` is about `Letters`, which
has no steps: it holds of every event, every set of people and every set of choices made before, because
what `signUnsubscribeToken` signed is what `verifyUnsubscribeToken` returns and a choice is one row.

**Identity.** `RowsOK`: rows and requests refer to rows that exist. `ReuseInv`, `StrandedInv`, `ChainInv`,
`LinkInv`, `IssuerInv` and `ResetInv` each carry one property with what it needs: `ChainInv`, that nothing
was minted late for a session not yet revoked, so that a revocation starts counting from the requests
about to rotate; `IssuerInv`, that an unused reset link issued by a request which is issuing again is in
that request's snapshot, so that the commit spends it; `ResetInv`, that before there is a user there is no
live session and no login.

**Upload.** `Base`: the rows agree (`RowsOK`); before the row is inserted only one process is at work; and
what a process read fits what it will write: a `finish` is reached only with the object there, and its
write leaves a status that is not terminal. `ReadyMeansObject`, `OutcomeToldOnce` and `EndedStays` follow
with no condition on faults. `Claims`, while nobody died or outlived its grace: a COMPLETING session has
exactly one process resolving it, so no claim grows old and `recover` never starts. `Objects` adds, while
no assemble was given up unanswered, that the object exists only under COMPLETING or COMPLETED and that a
release is decided over no object. They give `OneAssembler` and `NoObjectLost`.

**Access.** Durations are handled by adding times that run down to times that run up. `Holds`: what a request
has read is the current row, or was overtaken no longer ago than the request is old. `CacheOK`: the same for
the cached entry, whose time left and time since the commit together stay below `Delay + CacheTTL`; and an
entry that was current when it was written is, if stale now, awaiting its DEL or has lost it. `Tick` is the
one step at which all terms change, and their sums do not. `RefundsStopAccess`, `UnpublishingStopsAccess`
and `OnlyOvertakenStale` follow, for any durations and any number of overlapping requests.

**Pipeline.** `RunOK`: how far a run got is matched by what it uploaded and recorded, so that a run killed
anywhere leaves nothing half said. `QueueOK`: the package job is released only when every child it waits
for has a row, which is where the flow's fan-in meets the rows. `PlanOK`: a later plan is contained in an
earlier one, since ladders only shrink; without it a replayed package could wait for a rung that nobody
encodes. `BucketOK` and `SweepOK`: only rungs are ever deleted, and only those without a row when the
inventory was taken. `Grows` collects what no step takes back, and most of the step lemmas are one
application of it. They give `RowsMeanUploads`, `ReadyMeansComplete` and, as an action property,
`SweepIsSparing`. `NoAssetIsStranded` needs the flow's bookkeeping on top (`Tracked`): a run and its
active job belong together (`LockOK`); the package job waits only for children that are on their way or
dead letters (`WaitOK`); before the first probe nothing but its job exists (`BeforeProbe`); and after
one probe, while the asset is RUNNING, the package job has not completed and is missing only as long as the
probe job can still add it (`OneProbe`).

**Renditions.** `AlwaysWatchable` is arithmetic, for every source height, shape and duration. The ladder
ascends, so the rungs no higher than the source are its first ones (`LadderIsPrefix`), and a source below
the lowest rung gets that rung alone. What rounding to an even number may add or take is bounded
once (`RoundedBounds`), and widths, the poster's box and the tiles of the strip follow. That a cue shows its
own frame needs two facts: seconds rounded to the nearest millisecond keep the cues apart
(`NearestMillisecond`, `CuesInOrder`), and row and column are quotient and remainder, so different stills lie
in different cells (`CellsDiffer`).

**Uploading.** First the arithmetic of the plan, for every size the policy allows: a doubling of the part
size that keeps the count below the cap exists, and its parts tile the file (`PlanTiles`). Then one
observation: a body, whoever sent it, whenever it arrives and out of whichever file it was cut, is a stretch
cut at the plan's offsets (`Cut`), so the provider cannot hold a misplaced part, only a shorter last one or
none; and a set of parts whose sizes pass `assertComplete` is the plan (`CompleteOK`). Hence
`WhateverIsAssembledIsWhole`, with no bound on workers, pools, faults or files. `OneRunPerKey` is apart from
it: until a request fails nothing deletes the record (`NoneFailed`), so whoever finds it claimed neither
inserts nor runs, and what is replayed is the answer of the one that ran.

**Catalog.** The tree is kept well formed by every command (`Good`: positions distinct, every lecture in a
section that exists), which needs that a free position is free and that sorting by rank loses no row.
`NoTwoRowsCollide` and `CountsNeverDrift` follow, with what a request has read (`RequestsOK`). Undo is the
hard one. What a command does to the *membership* of a tree - which sections and lectures there are, and what
is in them - does not depend on positions (`Effect`), while positions may shift under an undo. So the log
is a chain (`Chain`): the newest inverse, applied to the tree as it is, leads to the membership its edit
began from, which is where the next inverse applies, and so on down. An edit adds a link, an undo removes
one, and each runs in one transaction under the course row's lock, on the tree it finds there. `UndoUnwinds`
is that the first link of the chain can always be taken. `TakenDownStaysDown` is an action property. An edit
claims the version its body names, not the one it was judged by; so what `RequestsOK` keeps is that a claim
not ahead of the row it was judged by, if it can still succeed, was judged by the very row it would change,
and that row was not archived. The two exceptions the property states, an undo and a claim that was ahead,
are those that the code leaves (section 6).

**Storefront.** The keyset of `after` and the order of `orderByFor` are shown to be one strict order of
keys and ids (`AheadIsAnOrder`, `OneOrder`), undated rows last in both, so a cursor cuts off exactly what its row
does not precede (`PastTheCursor`). A list is then its courses by rank, each once (`RanksCount`,
`SortedListsAll`), and a page is what lies between two cursors. The invariant `SteadyServed` says, at any
moment of the walk, how often a course that kept its place has been served: once if the cursor is past
it, else not at all. Each page moves the cursor over what it served, so no induction along the pages is
needed. `WalksAreExact` holds for any number of courses, any page size and any writes.

**Pricing.** A sum counts the units its amounts are made of, each under its line, so that sums are
cardinalities of finite sets: what holds of each amount holds of the sums (`SumIsLinear`), by taking lines
one at a time out of a smallest counterexample (`OneByOne`). Shares in proportion, rounded down, lose less
than one unit each, and nothing on a line they fill; hence what is left over is no more than the
number of lines that still have room (`LeftOverFits`), and one round over them, largest first, hands out
exactly that (`HandedOut`). So the loop of `allocateDiscount` never comes round a second time, and its exit
for the case that every line is full is never taken. With the rules of a coupon checked against an
independent statement of them (`CouponApplied`), `QuotesAreExact` holds of any cart, at any prices.

Theorems and the properties they state are listed in `PROJECT.json`; those without a property
(`MovesForward`, `PaidStaysPaid`, `EverySendIsClaimed`, `RetriesStayBounded`, `FinalRowsAreFinal`,
`SpentIsForGood`, `OneLinkForEachIssuer`, `ReadyHasItsObject`, `EndedIsForGood`, the type invariants) say
things that no run repeats. Every safety invariant and every action property of the runs is proved, for
every value of the constants that the assumptions admit. Only model-checked are the three liveness
properties `CapturedSettles`, `EveryMessageSettles` and `UploadEnds`: liveness under fairness is out of the
prover's reach.

## 6. Divergences without a run

Met while reading and modelling; stated here so that nobody takes a property for more than it says. Where
the models reach one, its counterexample is found by checking the sentence quoted as an invariant.

Commerce
- **Two orders, one course.** Ownership is checked before the transaction and against PAID orders only
  (`checkout.service.ts:79`), so a learner can open and pay two orders for one course. The entitlement
  row follows the later grant; refunding that order ends access though the earlier one is PAID. This is
  the exception in `PaidIsServed`.
- **Coupon cap.** `checkout.service.ts:91` and `schema.prisma:1016` say that one transaction keeps two
  checkouts from both reading 99 of 100. It runs at READ COMMITTED and locks nothing: both may count
  before either commits, and both redeem. `OverRedemptionBounded` bounds how far this goes.
- **Cart.** Checkout clears the cart as a whole at commit (`checkout.service.ts:144`); a course added after
  the cart was read is lost.
- **Overtaken refund.** ADR-0021 (line 43) and `order-state-machine.md:179-181` say a refund that overtook
  its capture is redelivered by the provider. It is marked processed and answered 200
  (`webhook.service.ts:193`); the order ends PAID with its money returned.
- **Crashed delivery.** `commerce.int-spec.ts:576-579` wants a crash mid-processing to be retried. Only a row
  with `lastError` is taken over (`webhook.service.ts:133`); after a crash there is none, the retry is
  answered 200 and the order stays unpaid.
- **Overlapping retry.** A retry that arrives while the first delivery runs is answered 200
  (`webhook.service.ts:73`). If the first then fails, no retry follows and the order keeps waiting. This
  is why `progress` delivers one event at a time: with two overlapping deliveries `CapturedSettles` fails.
- **Third try.** `schema.prisma:1149` has a learner fail twice and succeed on the third try. The first failure
  makes the order FAILED, which has no edges; the capture is ignored with a 200.

Outbox and notification
- **Lost e-mail.** `platform-kernel.md:41` takes a `ProcessedEvent` row to mean that the effect has happened,
  and `notification.md:277` that a crash mid-send is resent. The redelivery after a crash can meet a
  SENDING row that is not stale yet and skip it as success (`email-delivery.repository.ts:60`).
- **Overrun.** A relay that outlives its claim updates the message by id and can turn a PUBLISHED or DEAD
  row back to PENDING, although `platform-kernel.md:47,51` calls them terminal; crashes can push
  `attempts` past the limit; both losers of a FAILED delivery row may take it over and send.
- **Bounce before markSent.** The provider's id is not stored yet; the address is suppressed, the row ends
  SENT.
- **Sign-out of all sessions.** `session.service.ts:191` emits `SessionsRevoked` "so the owner is told"; no
  handler listens to it. `OwnerIsTold` lists it as silent.
- **Category.** Receipts and refund notices are filed under ACCOUNT_SECURITY, though `schema.prisma:249-250`
  has PURCHASE for them; both are mandatory. `email-template.ts:66` names a `notification-rules.ts`
  that does not exist.

Identity
- **Refresh.** `identity.md:47` promises at most one unused refresh token per session. Two refreshes that
  read one token as unused both rotate it. `SpentForGood` and `NoSessionStranded` still hold.
- **Links.** `identity.md:48` promises one unused link. Overlapping requests can leave one each
  (`OneLinkPerIssuer`).
- **Reset.** A request that dies between the reset and `revokeAllForUser` leaves the sessions of the old
  password, and a login that checked the old password before the reset (`auth.service.ts:98`) opens its
  session after it.

Entitlement
- **How the windows add up.** `playback.service.ts:109-111` has cache and token time add up only when the
  invalidation was lost. A read that overtook the refund and refills the cache after `forget` does it too,
  and the two requests that fill and use the entry come on top: `RevocationWindow` is the bound that holds,
  and it is reached without a lost DEL.

Upload and idempotency
- **Lost object.** A process dies, or gives up, while the provider assembles. `recover` finds no object yet
  and releases the session; a cancel or the expiry ends it; then the object appears. The asset is FAILED
  with its bytes in the bucket, the outcome `upload-session.ts:10-14` sets out to exclude, and
  nothing removes them: the bucket's rule reclaims parts, not objects. If the session is not ended, a
  retry of `complete` meets NoSuchUpload in `listParts` before it would ask for the object.
- **Second recovery.** `Release` matches COMPLETING whoever holds it. Two recoveries of one dead claim: the
  first releases, a third request claims anew, and the second recovery, slow, releases that live claim,
  which `upload-completion.service.ts:77-79` means to rule out. `finish` then still completes the session,
  unless it was ended in between.
- **Browser pool.** "Not retryable" (`multipart-upload.ts:66`) is thrown inside the `try` that retries; after
  a rejection the other workers keep uploading. A page reopened with another file of the same size mixes
  the two, and nothing notices.
- **Crash behind the interceptor.** A process that dies in the handler or before its update leaves the record
  IN_FLIGHT, and every retry gets 409; lines 139-140 expect a second execution instead. Records do not
  expire either: nothing sweeps `expiresAt`, a gap `platform-kernel.md:229` admits.
- **Two runs.** "Exactly one INSERT can win" (lines 26-29), but the delete of a failed request is not awaited:
  landing between another request's failed INSERT and its read (line 115), it makes that one run without
  a claim, beside a third that inserts. Store and release go by scope and key, so they may complete or
  remove another request's claim, and hand one request the answer of another with a different hash.

Pipeline
- **FAILED is not settled.** `reconciliation.service.ts:102` takes FAILED to mean that nothing writes into the
  prefix any more; a sibling rung may still be uploading. The sweep deletes its first segments, its row is
  written, a replay makes the asset READY with a segment missing, against `transcode.processor.ts:103`.
  This is why `ReadyIsComplete` asks master and stills of the bucket, and of rungs that they were uploaded.
- **Late verdicts.** A second stall fails a job without `markFailed`, and the asset stays RUNNING
  (`NothingStranded`: with a dead letter). A run that lost its lock can write FAILED over READY. A
  redelivered probe, "harmless" for `probe.processor.ts:92`, sets a READY asset to RUNNING for good.
- **Old rungs.** The sweep spares a rung that left the ladder, because its row remains.
- **Timestamps.** `timestamp` (`sprite-sheet.ts:66`) rounds milliseconds apart from seconds: an interval widened
  past the cap can give `...:SS.1000`.

Catalog and storefront
- **Undo after archive.** An undo that began before the archive rewinds an archived course
  (`course-access.service.ts:39-41` has an archived course as immutable as a deleted one);
  `ArchivedIsReadOnly` states the exception. Undo gives back members, titles
  and contents, not always the order: remove B, move C to the front, undo twice gives A, C, B.
- **Edit after archive.** `expectedVersion` is any number a body names (`schemas.ts:362-364`), and
  `claimVersion` compares it with the row as it then is, whatever row `assertEditable` read. A request that
  names the version the archive is about to give the course, judged before it, edits or reprices the archived
  course, against the same lines. An editor that sends the version it was shown never names one ahead; a
  request that does is the second exception of `ArchivedIsReadOnly`.
- **Gate.** The publish gate judges a row and a tree read before the status moves, and a status that changed
  and came back passes for unchanged. POST withdraw on a PUBLISHED course unpublishes it.
- **Torn copy.** A duplicate whose two reads straddle an edit keeps a lecture count that is not its own
  (`curriculum.service.ts:38` rules drift out).
- **Cursor.** A course that is repriced, or edited under RECENT, during a walk can appear twice or never, which
  `cursor.ts:14-17` says a cursor prevents; `WalkIsExact` is about courses that keep their place. The
  in-memory `isSatisfiedBy` compares dates as strings, to the second, the query to the millisecond.
- **`?free=false`.** `z.coerce.boolean()` (`schemas.ts:173`) reads it as true.

## 7. Not modelled

- Components without state of their own: health, configuration, filters, guards, logging, web pages, the
  seed. The rest of the storage adapter and of the contracts is types and pass-through calls.
- Commerce: coupon administration, the display counter `redemptionCount`, the audit-only `Refund` row,
  `assertPurchasable`, the provider's signatures.
- Notification: wording and rendering of templates, how a token is signed and encoded.
- Identity: the OAuth path, which no route calls; access tokens, hashing, cookies.
- Entitlement: playlist rewriting and the token's encoding.
- Media: policy and ownership, URL signing, the endpoints that report the pipeline's status.
- Pipeline: ffmpeg, the parsing of its output.
- Catalog: slugs, pictures, taxonomy, review counters, text search (a filter asks for a trait).

These are input validation, encodings or single statements, where a unit test says as much as a model; or
pure I/O, of which only success and failure matter, and those are steps of the models above.
