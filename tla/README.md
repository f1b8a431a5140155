# A verification project for white-superapp

TLA+ modules, TLC configurations and TLAPS proofs for the backend in
`white-backend/`. Everything is translated from the Go and SQL source; the
Next.js application in `white-analytics/` is the frontend and the predecessor
the services were ported from.

## The system

One Go binary runs several services, each with its own PostgreSQL schema. They
call each other over gRPC and exchange events over a NATS JetStream bus
(`pkg/events`), which delivers at least once: a handler that fails or is slow
gets the event again, up to five times.

| Part | State it keeps | Operations | What is hard | What makes it correct |
|---|---|---|---|---|
| publishing | posts, target rows, media, comments, activity, sync jobs | composer, approval workflow, publish now, publish tick, purge | requests check outside the transaction they write in; ticks overlap; providers fail or answer too late; crashes after a claim | nothing goes out unreviewed; one process publishes a post at a time; a post stands on an account once; every due post is resolved |
| scheduler | none | daily, publish, retention and ERP ticks | the daily fan-out fails half way and is not repeated | every client gets its daily tick |
| bus (`pkg/events`) | JetStream streams and consumers | publish, subscribe, ack, NAK | redelivery, reordering, five deliveries and no more | an event is handled or its loss is known |
| identity | users, sessions, clients, memberships, notifications | login, refresh, logout, deactivate | refresh races refresh and deactivation | a revoked session stays revoked |
| content | items, plans, calendars | status workflow, scheduling through publishing, reconciliation | two services' writes without a transaction; whole-row updates of what was read earlier | an item's status follows its post |
| sales, billing | invoices, payments, transfer proofs | submit, revise, issue, cancel, record and delete a payment, approve a proof | whole rows written over what was read before; a row saved whose message is lost | finance hears of what it has booked; a transfer counts once |
| finance, receivables | AR invoices, receipts, credit notes, advances, journals, posting log, periods | automatic posting from sales' messages, receipts, credits, voids, retries, the daily run | messages in the wrong order and redelivered; checks without a lock; receipts committed before their journal; closed periods | the books agree with the documents and with sales; what waits is caught up with |
| finance, the rest | payables, banking, tax, assets, reports | posting by schedule, imports, exports | the same ledger code | journals balance |
| recruitment | candidates, offers, test and interview sessions | move a stage, offer, answer at the portal or by phone, expire, send the news of a hire | the news is sent after its transaction; links are closed by id; revisions written at once | an answer stays; a hire is taken over once, on its terms |
| hr | employees, hires taken over, leaves, payroll | make an employee of a candidate, create and delete by hand | redelivery; numbers and addresses taken in between | one employee per candidate |
| sales pipeline, performance | records of each | create, move, approve | single rows | each follows its own state machine |
| integrations, analytics, seosuite, reports | credentials, synced data, reports | sync, cached reads | provider calls, stale caches | |
| gateway | none | HTTP to gRPC | | |

PROJECT.json lists the parts with what is and is not modelled, and the hazards
with the line each one bites at.

## Modules

| Module | Models |
|---|---|
| `PostRules` | the pure rules, `publishing/domain/rules.go`: statuses, human moves, edit, outcome of a run |
| `PostStore` | tables `content_posts` and `post_targets`, the statements of `queries/posts.sql`, the local state of requests and flows |
| `PostWorkflow` | `app/posts.go`: submit, approve, reject, schedule, unschedule, reschedule, back to draft, create and duplicate, save, delete |
| `PublishFlow` | `app/publish.go`: tick, claims, reread, publish now, reads, sends, results, outcome, failures |
| `Publishing` | the composition: Init, Next, fairness, invariants and properties |
| `ReviewGate` | the abstract specification: a post is shown only after it was cleared |
| `MCPublishing` | the instances of Publishing TLC checks |
| `PublishingProofs` | types of every variable (`Typing`); `GateInv` is inductive (`ReviewHolds`); Publishing implements ReviewGate (`GateHolds`); the claims (`ClaimHolds`, `ExclusiveHolds`, `PublishingHeld`), what is sent and recorded (`PublishedComplete`, `StandsOnce`), and what content goes out (`ReviewedOnly`) |
| `ContentRules` | the pure rules, `content/domain/rules.go`: item statuses, moves, locks, and how a post's status is folded into its item |
| `EventBus` | one durable consumer of `pkg/events`: redelivery, late acks, a limit of deliveries |
| `ContentStore` | the item rows of schema `content`, the posts seen from outside, the local state of requests and of the consumer |
| `ContentItems` | `app/items.go`, `portal.go`, the write of `designs.go`, deleted users: update, revise, move, decide, delete |
| `ContentScheduling` | `app/scheduling.go`, `service.go`: schedule, sync, outcome events, reconciliation, with publishing's calls |
| `Content` | the composition of the content side: Init, Next, fairness, invariants and properties |
| `MCContent` | the instances of Content TLC checks |
| `ContentProofs` | types of every variable of Content, with what requests and handlers carry (`Typing`) |
| `ContentInvariants` | the review of copy (`CopyHolds`), the truth of PUBLISHED (`TruthHolds`), the posts of an item (`TrackedHolds`, `OnceHolds`) |
| `ReceivablesStore` | schemas `sales` and `finance` as far as receivables go, the messages between them, the local state of requests and handlers |
| `SalesBilling` | `sales/app/billing.go`, `portal.go`: invoices, payments, transfer proofs, and what is told to finance |
| `FinancePosting` | `finance/app/ledger.go`, `journals.go`, `tax_depth.go`, `period_end.go`, `fiscal.go`: allocations, journals and drafts, credit notes, write-offs, voids, periods |
| `FinanceAutoPost` | `finance/app/autopost.go`, `controls.go`, `recurring.go`: the handlers of sales' messages, the daily run, faults |
| `Receivables` | the composition of sales and finance: Init, Next, fairness, invariants and properties |
| `MCReceivables` | the instances of Receivables TLC checks |
| `HiresStore` | candidates, offers, employees and claims, the message between recruitment and hr, the local state of requests and handlers |
| `Recruitment` | `recruitment/app/candidates.go`, `offers.go`, `portal.go`, `app.go`, `automation.go`: stages, offers, answers, and the news of a hire |
| `HrHires` | `hr/app/hires.go`, `people.go`: hired candidates and employees made by hand |
| `Hires` | the composition of the two: Init, Next, fairness, invariants and properties |
| `MCHires` | the instance of Hires TLC checks |
| `ReceivablesProofs` | types of every variable of Receivables, with what requests and handlers have at hand (`Typing`) |
| `LedgerProofs` | what is allocated and what is journalled (`AllocHolds`, `BooksHold`) |
| `BillingProofs` | what sales and finance know of each other (`BilledHolds`, `ToldHolds`, `ProofsHold`) |
| `DeliveryProofs` | what finance takes back and acknowledges (`TakenBackHolds`, `AckedHolds`) |
| `HiresProofs` | every safety property of Hires: types, one employee per candidate, final answers, one open offer, true news, agreed terms |

`Content`, `Receivables` and `Hires` share `EventBus`. `Content` uses `PostRules` for what publishing allows, and takes a call to
publishing as one step; what happens inside one is the subject of `Publishing`.

### State

`status`, `sched`, `author` and `approvedBy` are columns of `content_posts`;
`target[p][a]` is the row of account `a` in `post_targets`, with its status, its
attempts and an id that tells it from a row inserted later for the same account.
`live[p][a]` counts what stands on the social account. `req[u]` is a request
between `load()` and its transaction; `flow[q]` is a publish flow, of a worker
(a tick's batch) or of a person (publish now). `approvals`, `unseen`, `holder`
and `incidents` are history: no action reads them except to record.

In the content modules `item[i]` is the row of an item, as far as a decision
depends on it: status, caption version, post, copywriter and who scheduled it. It
is one value because the code reads and writes it as one (`UpdateItem` sets every
column by id). `revisions` says who wrote each version. `post`, `origin`,
`author` and `copy` are what publishing knows of a post. `req[a]` carries the row a
request has read, `worker[w]` the row the consumer works on; `presence` says who
has left. `approved` and `incidents` are history.

In the receivables modules `bill`, `pay` and `proof` are the tables of sales,
`req[a]` a request of a person in sales with the row it read. `ar[i]` is the AR invoice
finance makes of invoice `i` with the sum of its allocations, `doc[d]` a row of
`finance.payments`: a receipt for payment `d` of sales, or a receipt, credit note or
write-off of finance's own (`Vouchers`). `adv[p]` is the advance made of a payment
that found nothing open. `entries`, `drafts` and `reversals` say which of them has a
posted journal entry, a draft in `posting_logs`, a reversing entry. `period` is the one
fiscal period, `proc[x]` a handler of the consumer, a daily run or a request of a
clerk. `incidents` is history.

In the hires modules `cand` is the row of a candidate: hired or not, and whether the
news was sent. `offer` has the versions of all candidates, `emp` the rows of
`hr.employees` in the order they were inserted, `claims` the table
`hr.recruitment_hires`, `told` those hr was asked to link by hand. `req[a]` is a request
in recruitment, of a person or a candidate at the portal, or a daily run; `proc[x]`
a handler of hr's consumer or a person in hr. `incidents` is history.

### Granularity

A request is two steps, because its handler is: `load()` and the checks read the
database, then one transaction writes by id. Between the two anything may happen.
In a publish flow every statement and every provider call is a step, because each
can fail on its own: claim, reread, reads of the post, marking, each send, each
result, outcome, and the writes after it (`LogOutcome`), which change nothing of
the post. Reads at the start of `PublishPost` are one step: of them only the
target rows matter later, and they are read by one statement.

A provider answers `ok`, refuses, or publishes and still answers with an error
(`unacked`): a lost answer, and also `publisher/real.go:146`, where a permalink
lookup that fails after `media_publish` turns a published post into an error.

`MarkFailed` is the branch of the tick that writes FAILED after an error of
`PublishPost` (and the case where that write fails too). `Abandon` is everything
that writes nothing: the process dies, a call in publish-now fails, a claim or the
reread of a tick fails. Both are bounded by `MaxFaults`.

In Content a request is the read with its checks and then the write. `Schedule`
is the read, then every call and every write of its own (`SavePost`, `LinkPost`,
`ApprovePost`, `SchedulePost`, `CommitSchedule`), and may end between any two of
them (`ScheduleEnds`): because publishing refuses, which costs no fault, or
because a call fails or the process dies. The consumer reads the item, asks
publishing as the scheduler, and writes. A token for somebody who has left may
still come out of a cache, may be refused by publishing, or may not be had at all
(`Tokens`); for publishing's side of it people are free to move, delete and publish
the posts themselves. Publishing's own run is one step from SCHEDULED to its outcome; a
post read in between reads PUBLISHING, which content ignores.

Time is left out of Content: an item that is listed before its instant has a post
that is not final, so nothing is written. The instant of an item orders the
reconciliation and does not change. A missing design, file or account is a
refusal before anything is written and left out with it. An item's caption is its
version, and every item needs one to be approved (no stories).

In Receivables a request of sales is up to three steps, as in the code: read and
check, write the whole row, publish. A transaction of finance reads what is committed when
it reads (READ COMMITTED) and takes no lock on the invoice, so an allocation is two steps, the
check of what is open and the commit. A receipt from sales is committed
first and its journal posted in a step after it; what finance records of its own
commits with its journal. `VoidPayment` is a transaction and one step. A handler may
stop between any two (`FinanceFails`), its ack may be lost (`Done`) or late
(`AckLate`), and a message comes again up to `MaxDeliver` times.

In Hires a request is the read with its checks and then the transaction. A new
offer is three steps, since other transactions commit between its statements: what is
open as the update finds it, the update once the rows are free with the next version,
the insert, which two equal versions do not both survive. After the commit the
candidate is read again, then the accepted offer, then the news is sent and marked, each
a step that may fail. hr reads the next free number before its transaction. Time is
whether the link of an offer has lapsed. Stages other than hired are one, for
nothing here depends on which.

Left out of Receivables: a fiscal period other than the one all documents are
dated in, and mappings that are inactive (both give the same error as a
closed period); receipts over several invoices; what exceeds an invoice, bank fees and tax withheld,
which are lines of the same journal; applying an advance; credit notes over a
part of what is open. `PostFromMapping`'s writes of entry and log are one step.

Not in the model of publishing: content, media and comments (a post is complete when it has a
target), one client stands for all (a tick mixes clients, nothing in it does
depend on which), roles do not change during a run, purge of a client and
forgetting of a user.

## Runs

| Run | Instance | Checks |
|---|---|---|
| `races` | manager, admin, 1 worker, 1 post, 1 account, 5 requests, 1 fault | `TypeOK`, `GateInv`, `ClaimInv`, `GateSpec`, `ReviewedContent` |
| `faults` | admin, 2 workers, 1 post, 2 accounts, 5 requests, 1 fault | `ClaimExclusive`, `PublishingIsHeld`, `AtMostOnce`, `PublishedIsComplete` |
| `liveness` | admin, 2 workers, 2 posts, batches of 1, 6 requests, fair | `DueIsResolved` |
| `one_owner` | as `races`, no fault | `OneOwner`, violated, see Findings |
| `copy` | manager, admin and the client, 1 item in review, 2 posts, 5 requests | `CopyInv`, `PublishedOnce` |
| `resolves` | 2 admins, one of whom may leave, 1 approved item, 2 posts, 2 requests, 1 fault, fair | `Tracked`, `TruthInv`, `PublishedOnce`, `TypeOK`, `ScheduledResolves` |
| `locked`, `safety_net` | small | violated, see Findings |
| `receipts` | 1 invoice, 1 payment, 2 vouchers, 1 consumer, a clerk, 4 requests in sales, 1 at the desk, 1 fault, fair | `TypeOK`, `TakenBackInv`, `AckedIsDone`, `BooksInv`, `AllocInv`, `DailyRunCatchesUp` |
| `billing` | 2 people in sales, 1 invoice, 2 payments, a transfer proof, 2 consumers, 5 requests | `CancelledIsTold`, `BookedAsBilled`, `TakenBackInv`, `ProofCountedOnce`, `AckedIsDone`, `BooksInv` |
| `closed_again` | small | violated, see Findings |
| `hires` | 1 candidate, 3 offers, 2 people in recruitment, a daily run, 1 consumer and a person in hr, 2 requests, 1 fault, fair | `TypeOK`, `EmployedOnce`, `NewsIsTrue`, `TermsAreAgreed`, `OneOpenOffer`, `FinalStays`, `HiredIsTakenOver` |

Bounds. `MaxOps` counts the requests; five let a post be created, approved,
scheduled and overtaken by two further requests in flight. `liveness` has six, all for
creating, approving and scheduling: its two posts come to be due together, so that the batch
of one leaves one of them out, also when the one it takes has failed and is due again.
Publishing by hand beside two ticks, and everything else people do, is in `faults`, for one post:
who owns a claim is a question about one post. `MaxTime = 1` gives a past, a present and the instant between them and
a tick that is late; `Lead = 1` then makes "ahead" mean strictly later.
`MaxAttempts = 2` separates the first failure from the last. `Menu` restricts the
kinds of request of an instance to those its question is about; `faults` has
all of them. `CHECK_DEADLOCK FALSE`: when the requests are used up and nothing is
due the system rests.

In Content three requests are two that overlap and one that comes
after them, which is what a lost write or a second schedule takes; five let a caption be
revised, sent back, approved and scheduled while another request is in flight.
Two posts are the first and the one made after a failed publish. `MaxDeliver = 2`
(five in the code) has a message that comes again and a message that is given up.
Posts and processes are symmetric; people are not, nor are items.

In Receivables four requests are submit, issue, record and one more: deleting the
payment or cancelling the invoice; five let a second request overlap one of them.
Two vouchers let a clerk's receipt and a credit note of a reversal meet. One request at the desk is a clerk's receipt,
a void, a retry, or a period that is opened or closed (it may be either at the start).
Two consumers, in `billing`, handle two messages at a time. `MaxDeliver` is 2 (five in the code):
a message comes again and is given up. In `billing` a payment is recorded by approving
its proof; `receipts` has those sales records by itself.

In Hires two requests are two that overlap; what a third would have done before them
is in the initial states (`MCStarts`): no offer, one whose link has lapsed, a second one
that replaced the first. Three offers are these two and another revision. The news goes
out twice at most (`MaxNews`), which is once more than it should. One address, that of the
candidate and of whom a person in hr employs, lets them clash.

Fairness. Handlers run to their end (each is a goroutine), the clock moves and
ticks keep coming with the current instant: the scheduler sends one every five
minutes. People need not do anything. Faults are excluded from `liveness`: after a
crash a post may stay in PUBLISHING for good, which `PublishingIsHeld` says. In `resolves` the consumer gets what
is waiting, finishes what it began, and a reconciliation comes again and again
(strong fairness: a tick is a message too and waits its turn); publishing resolves
what is due. Faults are bounded there, not excluded: one handler may die, one event
may be lost. In `receipts` requests and handlers run to their end, messages are
delivered, and the daily tick comes again and again (strong fairness, as it waits
for the consumer); people need do nothing, so the period may stay closed for
good, and the property speaks of the runs in which it is opened and stays open.
In `hires` requests and handlers run to their end, messages are delivered and the daily
tick comes while there is something for it to do; people need do nothing, and one call may
fail or one process die.

### What the runs show

* Nothing unreviewed reaches an account, whatever interleaves (`GateSpec`).
* Content edited after its approval goes out only when a request written on an
  older load overtook the edit, a tick did, or the edit came under a claim
  (`ReviewedContent`). All three can happen: no write checks what it read. The tick's
  way is the longest, and the proof attempt found it: the outcome FAILED is written and
  the claim over; somebody takes the post back to DRAFT and edits it; then the activity
  or the sync job of the tick fails (`publish.go:187`), the tick writes FAILED by id
  over the draft (`publish.go:348`), and a FAILED post may be published again without a
  review. TLC needs 24 states for it, and a fault, which is why `races` has one.
* One process publishes a post at a time unless a request wrote its status under
  the claim (`ClaimInv`, `ClaimExclusive`).
* A post is stuck in PUBLISHING only when a process went away with it
  (`PublishingIsHeld`). Nothing in the code takes it out of there.
* A post is put twice on an account only for the causes in `AtMostOnce`.
* However rows are written over each other, an item past its review carries a
  caption that was approved, and so do its posts, unless it was revised after a
  failed publish (`CopyInv`).
* An item that reads PUBLISHED was published (`TruthInv`), also when the news came
  as a payload, late or twice.
* A scheduled post is known to its item and an item goes out once, but for the
  causes named (`Tracked`, `PublishedOnce`): lost writes, two schedules at once, a
  schedule that broke off, people working in publishing.
* Lost events do not keep an item SCHEDULED (`ScheduledResolves`), as long as the
  person who scheduled it is there: see `safety_net`.
* Finance takes back only what sales took back (`TakenBackInv`), books what an
  invoice says and hears of its cancellation (`BookedAsBilled`, `CancelledIsTold`), but
  for a row written by two requests at once or a message that was lost.
* A transfer counts once, whoever approves it at the same time (`ProofCountedOnce`),
  but for an approval that broke off between the payment and the decision.
* A message that was acknowledged has had its effect, in any order and however often it
  came (`AckedIsDone`). Its exceptions: a payment that finds the invoice settled and
  the period closed is refused for good (`refused`), an advance that cannot be
  voided is left to people (`told`), and a payment may end both as a receipt and as an
  advance (`autopost.go:147` promises one receipt per payment and says nothing of the
  advance), of which a deletion takes back the receipt.
* Documents and journals agree (`BooksInv`), but for two causes. A handler that dies
  between a receipt and its journal leaves a receipt nothing retries (`crashed`). A
  receipt voided between its commit and its journal, or between `RetryPosting`'s
  read and its posting, gets the journal afterwards (`late`); the comment at
  `ledger.go:772` rules out only a retry that starts later.
* No more is allocated than is open unless two allocations cross (`AllocInv`).
* What waits for an open period is posted, voided or settled once it is open
  (`DailyRunCatchesUp`).
* A candidate becomes an employee once, however often the news comes and whatever
  becomes of the employee (`EmployedOnce`); who stays hired becomes one, or hr is asked to
  link them, unless the number is taken at every delivery (`HiredIsTakenOver`).
* The news may speak of a candidate moved on since (`left`): `publishHired` reads the row
  after the commit and does not look at its stage (`NewsIsTrue`). hr makes the employee anyway.
* The terms are those of the offer last accepted, unless it was accepted when the news was
  written (`late`): the news is not sent again (`TermsAreAgreed`).
* An answer to an offer is never replaced by another answer, nor is the offer closed, as long as
  its link is good (`FinalStays`). Once the link has lapsed it may be: the portal read the offer
  while it was open and writes `expired` by id (`SetOfferStatus`, which has no condition) over an
  answer recorded in between, although `portal.go:685` calls accept and decline final.
* Two offers are open at once when two revisions are written at the same time (`twice`) or when
  an expired offer is put under negotiation by phone (`reopened`), which `RecordManualResponse`
  allows (`OneOpenOffer`).

### Findings

* `one_owner`: `setStatus` (`posts.go:310`) writes over a running claim; the next
  tick claims the post again.
* `locked`: an edit read before a schedule is written after it; the item is
  APPROVED again and its post goes out (`items.go:239`).
* `safety_net`: the reconciliation ends at the first item whose scheduler left
  (`scheduling.go:259`), at every tick. TLC's counterexample has outcomes that come
  before `Schedule`'s last write; items whose posts people took off the schedule, or
  whose event was lost, wait in the same way.
* `closed_again`: a cancellation handled while the receipt of the deleted payment
  still counts finds nothing open and is settled (`controls.go:93`); when the receipt
  is voided, its amount is open again on a cancelled invoice, and no run
  comes back to it.

## Proofs

From `PublishingAssumption` and, for target rows, `NoRowAssumption` (any finite or
infinite sets of posts, people, workers and accounts; any bounds):

* `Typing`: `Spec => []TypeOK`. `TypeOK` adds to the types that a flow between
  load and log has a post, and after a send a row, which is what makes the next
  steps well typed.
* `ReviewHolds`: `Spec => []GateInv`. "Status past review implies approved" is not
  inductive: a request or flow in flight writes a status it decided on earlier.
  `GateInv` adds what each of them carries: who is about to approve may, what is
  about to be scheduled or unscheduled is cleared, every post in a flow is
  cleared. What was cleared stays cleared, because approvals only grow and the
  author of a post is fixed by its insert. `GateFrame` states once how a step
  keeps the invariant, and each action is shown to be such a step.
* `GateHolds`: `Spec => GateSpec`. Under `GateInv` every step clears one post
  (`Approve`), shows a cleared one (`SendTarget`), or changes neither.
* `ClaimHolds`: `Spec => []ClaimInv`, hence `ExclusiveHolds` and `PublishingHeld`.
  `ClaimIInv` adds the shape of a flow: it holds posts only until it has read them again,
  and the post it publishes is not among those still to publish, or a crash of a batch
  would end a claim and leave its owner. Every step takes one process to one new flow and
  leaves each claim, takes a free post or gives its claim up (`ClaimFrame`); a status that
  is written either finds no claim or is noted (`StatusWritten`).
* `PublishedComplete`: `Spec => []PublishedIsComplete`. What a flow still has to send it
  knows by account and row id, read at the start. `SettleInv`: while the claim stands
  these rows do too, and each other row of the post is published or counts as a
  failure among the outcomes; so when all outcomes are published, all rows are.
* `StandsOnce`: `Spec => []AtMostOnce`. `OnceInv`: while none of the four causes came about, what
  stands on an account has a row that says so or a flow about to write it, and what a
  flow has still to send stands nowhere. It needs both invariants above: one flow at a time
  (`Alone`), and the result finds its row (`Settled`).
* `ReviewedOnly`: `Spec => ReviewedContent`. `SeenInv`: a post with content no approval
  covers is in a status before review, nobody's claim is on it and no request made
  after the edit is about to schedule or unschedule it, unless it was overtaken or clobbered.

For these three, `Aside` and `Rewritten` say once what a step may do that sends and
records nothing: most steps leave rows and accounts alone, a request rewrites the rows of
one post and either clobbers a claim or finds nobody at work on it (`Unworked`).
So all the safety properties of Publishing that the runs check are proved.

From `ContentAssumption` and `MaxDeliverAssumption`:

* `ContentProofs!Typing`: `Spec => []TypeOK`. A caption version has a bound only
  because requests do, so the induction (`TypeInv`) adds that no row in the table, in a
  request or in a handler is ahead of the requests made. It also carries what a
  request was let in with (`Admitted`) and where a handler stands (`Handles`), which
  the code checks once and never again.
* `CopyHolds`: `Spec => []CopyInv`, and `TruthHolds`: `Spec => []TruthInv`. Neither
  would be inductive if it spoke of the table alone: a handler writes a whole row it
  read long ago. Both speak of all rows in flight (`RowsOf`), and `ContentInvariants`
  first shows once per action that no handler invents a row: after a step the rows of
  an item are among those before it, but for the one written. `CopyHolds` then asks of the written row whether its
  version was approved, `TruthHolds` whether its post went out. The latter also needs that a
  post that went out stays out (`OutStays`), that a message says what it said
  (`MessagesKept`) and that a handler works on the post its message is about.
* `TrackedHolds`: `Spec => []Tracked`, and `OnceHolds`: `Spec => []PublishedOnce`, both from
  `TrackParts`. A row in flight names only posts of its item (`RowsOwned`), and so does a
  request that saved one (`RequestsOwned`); that needs that a post stays the item's it
  was made for, though a post is reused (`OwnersStay`). Of an item without one of the
  causes named (`Clean`), one person at a time schedules it (`OneScheduler`) and it
  names the post this person read with it (`SchedulersRead`), links in between included.
  Then the two ways a post that went out can be tracked, by the item or by who is
  about to tell it, lead to one post. `RequestsMove`, `ItemsMove`, `RowsMove` and `PostsMove`
  say once what a step may do to each; nothing else is used of the actions.

So all the safety properties of Content that the runs check are proved, with the
exceptions they name.

From `ReceivablesAssumption` and `MaxDeliverAssumption`:

* `ReceivablesProofs!Typing`: `Spec => []TypeOK`. It also says what each step has
  at hand (`Handling`, `Requested`): a handler on its way to a void has a
  document, a message in the stream an addressee. The code relies on this
  from one call to the next.

* `AllocHolds`: `Spec => []AllocInv`, and `BooksHold`: `Spec => []BooksInv`. Both need
  what a process between a check and its commit still believes. `AllocIInv` adds that
  what is about to be allocated fitted what was allocated at the check (`seen`), so
  that either it still fits or `crossed` is noted; `BooksIInv` that what is about to be
  posted is there to be posted (`Postable`). Most steps are `Quiet`: they change no
  document and no sum and take no process to a commit or a journal.
* `BilledHolds`: `Spec => []BookedAsBilled`, and `ToldHolds`: `Spec => []CancelledIsTold`.
  `BillingInv` follows an invoice through all who speak of it (`BilledTrue`): the row, the
  requests that read it, the messages sent or about to be sent (`SentOrToSend`) and
  finance's books agree, or the row was overwritten. `CarriesInv` ties a handler to
  its message. Finance's steps are `Apart`: they leave sales and what was said alone,
  and a handler stays with its message until it is done with it.
* `ProofsHold`: `Spec => []ProofCountedOnce`. `ProofInv` adds that who is about to insert
  a payment has its id alone, that the payment of an approval past its insert carries
  its proof until it is deleted, and that nobody else inserts a payment with a proof.
* `TakenBackHolds`: `Spec => []TakenBackInv`. It rests on sales: what was cancelled or
  deleted stays so (`SalesStaysFinal`, which needs both invariants above), so a message that
  says it is true whenever it is read (`LettersMean`). A run reverses only what it
  found marked (`RunMeans`), and a request at a desk marks nothing (`DeskMeans`).
* `AckedHolds`: `Spec => []AckedIsDone`. The books only grow (`Grows`), so an effect stays
  (`EffectStays`), a payment deleted before it is received included; only a handler
  that is done acknowledges, and only its own message (`StepAcksItsOwn`); and each that
  does has brought the effect about (`HandlerAcks`).

So all the safety properties of Receivables that the runs check are proved, with the
exceptions they name and no others, for any number of invoices, payments,
people, handlers, redeliveries and faults.

From `HiresAssumption`, `StartsAssumption` and `MaxDeliverAssumption`, all in `HiresProofs`:

* `Typing`: `Spec => []TypeOK`, from `TypeInv`, which adds that a request or handler
  has at hand the candidate, the offer and the word it was let in with. That the
  version of a new offer is a number needs a greatest version (`GreatestExists`: a finite,
  nonempty set of naturals has one), hence the finitely many offers.
* `OnceHolds`: `Spec => []EmployedOnce`. `OnceInv` says of each candidate what
  `EmployedOnce` counts: a claim and an employee come together, and no two employees
  are of one candidate.
* `FinalHolds`: `Spec => FinalStays`. The step that writes an answer looks at the row
  again, but the commit of a new offer does not: `HeldInv` says that the rows a
  revision updated are open and its own until it commits. Nor does the portal when it closes
  an offer: `LapsedInv` says that the link of that offer has lapsed, and links do not become
  good again (`OffersMove`).
* `OneOpenHolds`: `Spec => []OneOpenOffer`. `SingleInv`: while a candidate has no incident,
  one revision of theirs is under way at most, and it has updated every offer of
  theirs that is open.
* `NewsHolds`: `Spec => []NewsIsTrue`. `NewsInv` follows the news from the run that composes it
  to the stream: whoever it is about was hired (`WereHired`) and the mark comes behind the
  message (`Announced`).
* `TermsHold`: `Spec => []TermsAreAgreed`. `AgreedInv` asks the same of the news being
  written, in the stream, with a handler and of the employee. It is kept because what was
  agreed stays so (`AgreedStays`): a later acceptance finds the candidate reported, and is
  noted as late.

Only what a step of each variable may do is used of the actions (`EmployeesBy`,
`OffersMove`, `RequestsMove`, `CandidatesMove`, `LettersBy`, `IncidentsGrow`).

Every safety property and action property of a passing run is thus a theorem. Only
model-checked: `DueIsResolved`, `ScheduledResolves`, `DailyRunCatchesUp` and
`HiredIsTakenOver` (liveness under fairness is out of the prover's reach).

## Not modelled

The modules cover the four places where several services or processes change the same
rows. What they leave out:

* Generated code, more than half of the Go in `white-backend` (`gen/go`, the
  sqlc packages): it encodes, routes and scans, and decides nothing.
* `white-analytics`: the web frontend and the predecessor; the state it shows is the
  services'.
* hr beside the hires, recruitment's openings, tests and interviews, performance, the sales
  pipeline, the plans and designs of content: one row at a time,
  checked and written by one request. Two requests may overlap there as
  anywhere else in this code; the pattern is the one `copy`, `locked` and `billing` show.
* identity's sessions, the scheduler, integrations, analytics, seosuite, reports,
  the gateway: no state of their own, or a cache of a provider's. Publishing,
  content, finance and recruitment take what they send as coming late, again or not at all.
* finance beside receivables: payables use the same ledger functions, the rest of the
  daily run posts each schedule in one transaction, reports only read.
* sales: invoices made from the terms of a quotation, payments without an invoice,
  follow-ups and e-mail.
* media, storage, purges of a client, comments and queries.

## Plan

1. Purge of a client and forgetting of a user as actions of Publishing.
2. Applying and refunding an advance, and receipts over several invoices, in
   FinancePosting; payables on the same module.
3. Invoices from the terms of a quotation, with the check that a term is billed once.
4. `Sessions`: identity's refresh rotation. `Scheduler`: the daily fan-out.
5. More items than a reconciliation lists; the plan and design workflows of content.
