# Verification of agent-commerce-lab

TLA+ models, TLC configurations and TLAPS proofs for the two halves of this
repository: the autonomous purchase machine (`src/src/autonomous/`) and the
security-snapshot Worker with its change history (`src/src/*.ts`). The models
are translated from the TypeScript source; where a document or comment says
something else, the run named in PROJECT.json under `findings` shows it.

## The system

| Component | State it keeps | Operations | Talks to |
|---|---|---|---|
| Purchase machine (`autonomous/state-machine.ts`) | none of its own between runs; a call stack of `runInternal` frames during one | `run(input)` | ledger (shared with earlier runs), policy object of the caller, World |
| Payment ledger (`autonomous/ledger.ts`) | append-only entries | `record`, guards and sums over the entries | purchase machine |
| Spending policy (`autonomous/policy.ts`, `types.ts`) | ceilings, allowlist, kill switch | read at each check; flipped by the operator | purchase machine |
| Live testnet World (`autonomous/live-world.ts`) | last service answer | `paymentOutcome`, `verifySettlement`, `serviceOutcome` over HTTP and RPC | VAT API, facilitator, chain |
| History store (`history.ts`) | D1 tables `snapshots`, `changes` | `runSnapshotWithHistory`, list queries | D1 |
| Change comparator (`history.ts`, `alerting.ts`) | none | `diffSnapshots`, `computeChange`, `recordMateriality`, `shouldAlert` | history store, alerting, `/changes` |
| Scheduled scans (`scheduled.ts`, `index.ts`) | position in the list of monitored domains | cron event | snapshot pipeline, history store, alerting |
| Alerting (`alerting.ts`) | D1 table `alerts` | `recordAlertAndDeliver` | webhook, D1 |
| Snapshot pipeline (`snapshot.ts`, `ssrf-guard.ts`, `dns-check.ts`, `tls-probe.ts`) | none | `runSecuritySnapshot` | target site, DoH resolver, D1 (facts) |
| Verdict and header scoring (`verdict.ts`, `header-scoring.ts`) | none | pure functions | snapshot pipeline |
| Content check (`content-check.ts`) | the pages of one crawl | fetch with redirects, discovery, extraction, classification, scoring | snapshot pipeline, target site |
| Ground truth (`ground-truth.ts`, `ground-truth/za-compliance.ts`, loader script, migration 0002) | D1 tables `ground_truth` (a row per key, with its window) and `fact_patterns` | three SELECTs of a scan; the loader's upserts | content check, operator |
| Batch (`batch.ts`) | index of the next domain, results | `runBatchSnapshots` | snapshot pipeline |
| Findings review (`index.ts`, migration 0004) | D1 table `findings_review` | POST `/findings/review`, GET `/findings` | D1 |
| Read paths and report (`index.ts`, `history.ts`, `report.ts`) | none; the reader holds a cursor | GET `/history`, `/changes`, `/alerts`, `/report` | D1 |
| Routes and payment gate (`index.ts`) | none | Hono routes, x402 middleware, rate limits | everything above |

What is hard here: money that moves although the answer was ambiguous; ids that
are run again with only the ledger to remember them; operators who flip the
kill switch while a payment is out; alternatives bought from inside a purchase;
invocations of the Worker that interleave at every `await` over one database
without transactions; statements that fail after they took effect; evictions
between a change, its webhook call and its alert row; and a comparator whose
thresholds decide who is told. PROJECT.json lists each hazard at its line with
the properties that cover it, or the reason why none does yet.

## Modules

**`TransactionLedger`** has the entries and the queries of `ledger.ts` as
operators over a sequence. **`TransactionMachine`** is `run()`: `pc` says where
control is, `stack` holds the frames of `runInternal` with the innermost last,
`attempt` is the counter of whichever retry loop is running, and `outcome` is
what is being returned while frames close. Each action is one stretch of
synchronous code between two points where something else can happen: a call
into the World, or a check of the policy object. Recording an entry is part of
the action of the code that records it. `charged` is not in the program: it is
the truth of the chain, the nonces whose transfer went through, and lets
properties compare the ledger with it. Prices, ceilings and the day and month of
`now` are integers; ISO dates become ticks with `DayLength` and `MonthLength`.
A transaction id is a pair of a root and the number of `-alt` suffixes the
machine appended, as in `` `${txId}-alt` ``; a nonce is an id with an attempt, as in
`` `${txId}:pay:${attempt}` ``.

The environment is an operator who flips `autonomousCommerceEnabled` or disables
services, but only while the machine is idle or inside the World (JavaScript
does not interleave otherwise, and the machine re-reads the caller's object),
and a World that settles, fails, or leaves a payment ambiguous (pending or unknown, which
the machine and the ledger treat alike). An ambiguous
transfer may go through until it is verified, and a verification answers by what
happened on chain. That a verified failure is final is the contract
`state-machine.ts` states for the World; `live-world.ts` does not meet it, which
is why it has a model of its own.

**`LivePayments`** is the pay loop of one transaction over `LiveWorld`. `run()` is
synchronous and compares a promise with the statuses, so that one step per
attempt starts an exchange and records the promise and a failed verification.
Each exchange then goes its way: a challenge, a payment, an answer, each an
`await`. `charged` is again the truth of the chain.

**`OncePerTransaction`** is what the machine promises to its caller: per id,
a payment is in flight at most once at a time, money moves at most once, and
never after a settled payment. `PaysOnce` is the refinement, with `paid` read
off `charged`.

**`Verdict`** has the scoring of `header-scoring.ts`, of `content-check.ts` and of
`verdict.ts`. A header's value is the set of features the scorers look for in it,
with the points and the severity of each flaw; the score is the code's
`Math.round`. **`SiteScan`** is what `runSecuritySnapshot` returns for a site, a FAIL of
score zero when it does not answer. **`Comparator`** has `diffSnapshots` and its neighbours
over those snapshots; a changed field is a pair such as `<<"tls", "usedHttps">>`.
**`ObservedSite`** keeps a window of the last three scans of a site, because what the
verdict and the comparator promise is about pairs and triples of scans.

**`BatchScans`** is `runBatchSnapshots`: `nextIndex`, the slots, and for each worker the `await`
it is at. The stages `lookup`, `fetch`, `body`, `probes` and `content` are those of `fetchWithChain`
and `runSecuritySnapshot`, with the host check before every hop; only the kind of a
scan's result is kept. `DeadlinePasses` may happen at any point. **`BatchPromise`** is what
the caller paid for: one result per domain, never replaced, and an answer that has
them all.

**`History`** puts the comparator under concurrency. A worker is one invocation,
a cron event with a queue of domains or a paid request with one, and `pc` is the
`await` it is at: scan, insert of the snapshot, select of the prior one, insert
of the change, webhook call, insert of the alert. The D1 tables are sequences
(AUTOINCREMENT ids are positions). Each statement may report an error whether or
not it was applied; what the code does then is in the `...Fails` actions:
`runSnapshotWithHistory` ends the domain, an alert's write error is swallowed. A
change row stores the two ids; its changed fields are those of the two
snapshots, which is what the code writes. `Evicted` ends an invocation anywhere;
`Deploy` gives later invocations another scanner version. Ties of `scanned_at`
are broken in any order, as SQL leaves them.

**`HistoryAudit`** is `History` with a record, `cut`, of the rows whose own invocation a
fault cut short. It changes no step: it is there to say that a fault costs *no
other* invocation its change or its alert.

**`HistoryReaders`** adds a reader to `History`: GET `/history` page after page with the cursor
`nextBefore`, or GET `/report` with its three reads. `began` is not in the program: the
rows that were stored when the reading began.

**`Figures`** is how an amount or a date on a page is normalized, and how a reader takes it:
groups of digits with the marks between them, since what the code decides on is
the number of digits after a mark. **`GroundTruth`** has the windows and the upsert over a
table keyed by `fact_key`, **`ZaCompliance`** the approved seed. **`ContentCheck`** is the check as operators:
where redirects lead, which URLs are planned, which pages are scanned, which
claims they make, and the findings. A page says passages, the texts between its full stops, each a row of
words, amounts and dates. What an amount is about is known to a reader only: a context pattern waits for its words,
one group after the other (`Matched`), takes the next figure of its kind, whatever it is about, and runs on over what
follows it and looks like more of it (`RunOn`); a value pattern takes the digits it knows (`Starts`). The length
of the windows (80 to 140 characters) is left out, the passages being shorter; so is the spelling of the words, and
that `i` makes every word that ends in r an R ("for 12 months" reads as R12 m): such a number is an amount like any other. **`ContentScans`** runs it: the loader executes its
statements one by one and may be cut off after any, the scan reads the store
with three statements of its own and then fetches the target, the sitemap and the
planned pages in parallel, any request of which may fail. **`FindingsReview`** adds reviewers who
rule on the findings of that scan; `told` is what reviewers were told of each key.

`MCTransactionMachine`, `MCObservedSite`, `MCHistory`, `MCHistoryReaders` (with the sights of `MCSights`) and `MCContentScans`
hold the instances; the constants of `BatchScans` and `LivePayments` are plain values in their
configurations.

## Runs

| Run | Question | Bounds |
|---|---|---|
| Reruns | Do the books agree with the chain, does every transaction close and pay once, does the ledger protect ids across runs, and do ceilings hold? | three tasks of the task map of `policy.ts` (two services, one, none); an id and the `-alt` id of its alternative, two runs, two days of one month; ceilings of 3 and 4 cents against prices of 1 and 2, so that a purchase and its alternative fit in a day and one purchase too many breaches them; one payment retry, no service retry (ThirdService has one; the theorems hold for every limit) |
| ThirdService | Are alternatives cut and does every run end? | three services, so that alternatives can bounce; one service retry, no payment retry |
| AbortedPaid | finding: aborted by policy after paying | as Reruns without retries |
| LivePayments | finding: exchanges that are not awaited pay twice | the three attempts of `policy.ts` |
| ObservedSite | Does a finding only ever lower the verdict, do verdict moves alert, are alerts symmetric, do steps tell all? | 24 sites, each one or two respects away from a clean site or from each other, all triples of scans |
| BatchScans | Is every paid domain reported once, in time or as late, and does a batch end? | two workers, four domains of which one is no URL, two redirects; more domains than workers, so that a worker returns for a second one while the other is anywhere |
| TimeBoxed | finding: a scan is not ended by the code's own timers | one worker, two domains |
| HistoryFaults | Do the tables stay consistent under faults, and does a fault cost only its own invocation anything? | one cron, one request worker, one domain (two are in HistoryReaders, and any number in the theorems), two sights, three invocations, three times, two builds, every fault |
| HistoryReaders | Does a reader get every row, is a report current, and does a cron run reach every domain whatever fails? | two monitored domains, two cron events, up or down, two times, pages of one row, two builds; a webhook is set; storage and webhook fault; fairness |
| BaselineTaken | finding: a paid scan takes a change away from the monitor | one domain |
| ContentScans | Do wrong figures fail a site and right ones not as far as they are taken as meant, are findings attributed, does a load converge, does a ruling stay? | five sites of up to three scanned pages, one redirect, among them one whose right figures are misread (another matter's, and one with the k of a following word); three releases of the loader, two loads; two reviewers, two reviews |
| DottedFigures | finding: `R17.712` | one site, one load |

The bounds are enough for the cases that matter: an ambiguous payment that
lands, fails and is retried; a re-run of an id in each state it can be left in; a
purchase on both sides of a day boundary; a chain of four purchases; two
invocations at any two points of their work on the same domain, with a row of
equal time, a newer row, and a row of another build between them; a page
boundary between any two rows; a wrong figure on the target, on another page, on
two pages of one path, behind a redirect, and on a page that is lost. Retries,
runs, invocations, clock, versions, loads and reviews are counters in guards and are
named as bounds in the modules. The retry limits of `policy.ts` (2 and 3) are larger
than those of the runs; the theorems hold for every limit. In ContentScans the scan and the
store rest while its findings are reviewed, and only scans after at most one load
(`MaxLoadsReviewed`) are reviewed: reviews and scans share no table.

The History runs set CHECK_DEADLOCK FALSE: `MaxInvocations` is used up and the
clock stops, so the model ends where the service would wait for the next
request, and so do the batch runs, where the pool returns, the content runs, where
the scan and the loads end, and LivePayments. The machine's runs check deadlock: TLC would report a run stuck halfway
(an idle machine can always be offered a flip of the kill switch).

Fairness. `TransactionMachine!FairSpec` assumes weak fairness of the machine's
own steps and of the World's answers: `run()` is synchronous and every World call
returns. `History!Fairness` (in run HistoryReaders) assumes weak fairness of each invocation's progress: an
await ends, by an answer or an error, and `BatchScans!FairSpec` the same of each worker. Both assume more than the code
secures: the site's own answer is awaited with a timer, but host lookup (`ssrf-guard.ts:60`), DNS records
(`dns-check.ts:23`), the body (`snapshot.ts:206`), the webhook (`alerting.ts:82`) and D1 are not, and an invocation the
platform evicts meanwhile loses its remaining domains. `EveryDomainScanned` is therefore a promise of invocations
whose awaits end and that are not evicted: what it says is that no *error* of one domain, in its scan, in storage or
from the webhook, reaches the next. The operator, the clock,
callers, readers, deployments and evictions have no fairness. `BatchScans!TimersSpec` assumes progress only where a timer of
the code, or no wait at all, guarantees it; run TimeBoxed uses it.

## Properties worth naming

`AtMostOneCharge`, `Reconciled`: the ledger's guard works on the *last* payment event of
an id, and a verification is recorded as an event without a nonce. That the two
together never pay twice, and that the settled entries are exactly the
transfers, each counted once, depends on the order in which the machine records
and asks.

`KillStopsPayments`: the operator acts while a transfer is out, and three different
paths lead to the next one (a retry after a failure, a retry after a
verification, an alternative). Each must pass a check of the switch again.

`ChangesAreSteps`, `ChainComplete`: with two invocations on one domain, a change never
skips over a complete observation that was already stored, and nothing that
could be compared is left out. `StepsTellAll` says the same of the fields: what
differs between two observations differs in one of the steps between them, with two exceptions: across an
observation without content, and the claims of a fact that is missing in the middle. The code tells its
going and its coming back as `content.facts.K` and a change of its claims as `content.facts.K.claims`, which neither
step has.

`WorseNeverReadsBetter`: of two scans of which one is no better in any scored respect, it
neither scores nor, but for one header, ranks higher. It compares combinations (a content check added
while a header is lost and the cipher weakens), which the tests of `verdict.ts` do
one at a time. The exception, `DropsPermissive`, came out of the proof: see below. `CriticalFails` is the hard cap through all blends: 30 points off would
read as WARN.

`SlotsAccounted` relates the counter, the slots and the workers: handed out means
reported or in one worker's hands. `LateIsSuffix` says the deadline cuts a request in
two, although workers meet it at different times.

`PagesComplete`: rows are stored while a reader follows `nextBefore`, and the cursor is a time,
not a row. He has everything that was there when he began, but for rows of equal
time across a page boundary, which the property names as the exception.

`WrongFigureFails` and `NoFalseAlarm` compare the verdict with how a reader takes what is written, not with
what the normalizer makes of it. `WrongFigureFails` speaks of the figures that the patterns take; `NoFalseAlarm` of
sites that say nothing wrong (`Correct`) and from which nothing else is taken than what is meant
(`TakenAsMeant`). The latter is a condition, not a fact: honest pages that do not meet it are under
Findings, and the fifth site of the run is one. That a wrong figure fails the site although a
later page of the same path replaces its claims (`content-check.ts:300`) is due to the site-wide
contradiction alone. `FindingsAttributed` says where that replacement does harm.

`LoadConverges`: D1 takes no transaction from the loader, so its promise is convergence: however
earlier loads were cut off, one that ends leaves each fact with its last row.

`RulingsKept`: SELECT and INSERT of two reviewers interleave. The UNIQUE constraint turns the race
into an error that one of them sees; what neither may see is a success that is
gone.

`VerdictMovesAlert` is claimed by a comment in `alerting.ts` "by construction"; it
holds because a verdict move is itself a changed field of material tier.

## Findings

* **AbortedPaid**: a transaction that was paid and whose alternative breaches a ceiling
  is closed as `aborted-policy` (`state-machine.ts:132`), an outcome the plan
  describes as "never pay".
* **BaselineTaken**: a paid scan with `history=true` between two cron scans takes
  over the baseline, so the monitored change is recorded but never alerted
  (`index.ts:213`, `scheduled.ts:5`).
* **LivePayments**: the machine does not await `LiveWorld`; its attempts run side by side
  and more than one may pay, after the transaction was closed as escalated
  (`state-machine.ts:197`, `ledger.ts:42`).
* **DottedFigures**: `R17.712`, which the value pattern takes for the approved ceiling, is
  normalized to 18 and fails the site (`content-check.ts:130`, `za-compliance.ts:115`).
* **TimeBoxed**: a scan in flight is not time-boxed by the code (`ssrf-guard.ts:60`,
  `dns-check.ts:23`, `snapshot.ts:206`), which `batch.ts:127` says it is; one stalled resolver keeps the batch
  from being answered.

Also met while modelling, false alarms on honest pages, none of which the run forbids: "voluntary registration threshold is
R120 000" is taken for the mandatory threshold, whose pattern waits for "registration threshold" (`za-compliance.ts:129`);
"UIF contribution (capped): R177.12" is taken for the ceiling, which the comment at `za-compliance.ts:135-138`
says must not happen and `docs/SCANNER-FALSE-POSITIVE-uif-ceiling-vs-contribution.md` reports (177 against
17712, both findings critical); "R17 712 monthly" is read as 17 712 m, since no word boundary ends the capture (`:129`, `:139`,
`:144`), and becomes 17712000000 (`content-check.ts:120-134`).

Met while modelling and not given a run: the nonce is reserved by the entry
written after the World was called, not before (plan, section 10;
`state-machine.ts:197-198`); "fresh nonce per attempt" restarts with each run
and throws on a re-run after failures (`:193-194`), and when the id of an alternative was
submitted before, it throws out of the alternative and leaves the paid transaction without a
final entry, the one exception `PaymentsClosed` states (run Reruns reaches it); the preferred service is
taken before the disabled list is consulted, so a task with an enabled second
choice is aborted (`:64-80`); `from_snapshot_id` comes from an earlier request
although migration 0001 says ids come from the same one; an empty ground-truth
store gives a content result of PASS and 100, not the "unavailable" of README.md:40-43;
"supersession, not deletion" (migration 0002:6) cannot be, since `fact_key` is UNIQUE and the
loader overwrites by it; a page that was lost masks a readable duplicate of it
(`content-check.ts:565-574`); an HTTP error page is read as a page (`:478`); a pattern that
matches the empty string where nothing normalizes would be searched for ever (`:210`), but the
seed has none; paging skips rows of equal time, which
`openapi.json:606` calls stable; `/history` and `/changes` do not apply `domainKey` to their parameter while
`/report` does; the report's "latest scan" may be an older one than the row above it;
migration 0004 says a review is set to pending on first sighting, which no code does.

Met while proving `WorseNeverGains`: a permissive Referrer-Policy is worth points but is a
*medium* issue, and an absent one is worth none but is only a *low* issue
(`scoreReferrerPolicy` in `header-scoring.ts`). A medium issue is named by the verdict and a
low one is not (`verdict.ts`), so that a site which stops sending the header falls in score
and may rise from WARN to PASS. The sites of ObservedSite include such a pair.

## Proofs

Every safety property of a passing run, every action property and both refinements are
theorems, for every value of the constants that satisfies the assumptions of
the modules. Proof modules have the name of the module they speak of:

| Module | Theorems |
|---|---|
| `TransactionMachine_proofs` | `TypeCorrect`, `NoDoublePayment`, `LedgerReconciles`, `KeepsPromise` |
| `TransactionBooks_proofs` | `NoncesStayUnique`, `NoServiceUnpaid`, `RetryCapHolds`, `KillSwitchHolds`, `ChargesStayInChain`, `FallbacksStayBounded`, `CompletionsDelivered`, `PaymentsGetClosed`, `CeilingsAlwaysHold` |
| `BatchScans_proofs` | `BatchTypeCorrect`, `NoItemLost`, `LateStaysSuffix`, `BatchKeepsPromise` |
| `History_proofs` | `HistoryTypeCorrect`, `ChangesAreGrounded`, `ChangesStayAStep`, `AlertsStayTrue`, `WebhookHearsOfChanges`, `ChainStaysComplete`, `GraveChangesAlert` |
| `HistoryReaders_proofs` | `PagesStayComplete`, `ReportsStayCurrent` |
| `ObservedSite_proofs` | `VerdictMovesAlwaysAlert`, `CriticalAlwaysFails`, `PassStaysClean`, `WorseNeverGains`, `RecoveriesAlwaysAlert`, `StepsAlwaysTellAll` |
| `FindingsReview_proofs` | `ScanTypes`, `LoadsConverge`, `FindingsStayAttributed`, `FalseAlarmsNever`, `WrongFiguresFail`, `RulingsStand` |
| `Totals_proofs` | lemmas about sums, largest and smallest elements, used by the others |

**The machine's money** (`MoneyInv`). The settled entries are exactly the charged nonces of each id
(except the one being verified); an id with a charge has a last payment event
that is not "failed", so the guard is closed; and a machine that is paying
has an id without a charge. `AtMostOneCharge` and `Reconciled` are not inductive alone: that
nothing was charged when a payment is issued follows only from the guard, i.e.
from the shape of the ledger. `GuardAfterAppend` says what one entry does to the
guard and is the lemma every step uses. `TypeInv` adds to `TypeOK` that in the pay and consume stages
the innermost frame has a service. `KeepsPromise` is `Spec => PaysOnce`, from `MoneyInv`, step by step.

**The machine's books** (`BooksInv`, `Chain`, `CloseInv`, `SpendInv`). `BooksInv` adds to `NoncesUnique` and `PaidBeforeService` what is known
at the moments they could break: a payment in flight has a new nonce of a legal
attempt, and the service being consumed has its settled payment. The retry cap is about the
size of a set that grows over any number of runs: the attempts in the nonces
inject it into the interval of legal attempts. `Chain`: the frames are a submitted
id and its alternatives in order, and only the last of them, if any, is too deep.
`FallbacksBounded` is a statement about ids of the machine's own making; its theorem has the hypothesis
`Submitted \subseteq Roots \X {0}`, callers submit no id with an `-alt` suffix, and
`ChargesStayInChain` says what holds when they do. `CloseInv`: a settled payment that is not
closed belongs to a frame that is still on the stack, and no payment of a frame
yet to come has been written after it (`Open`); a run that returns "completed" has had its
delivery. `SpendInv`: no entry is from the future, and between the check of the policy and the
settlement the price still fits under both ceilings (`Headroom`), since nothing else
settles meanwhile and the clock rests. A sum over the entries of a period is
monotone and grows by one price at a time (`Totals_proofs`); the periods that `PeriodStart` cuts are
disjoint, so an entry raises one day and one month.

**The pool** (`BatchInv`, `LateInv`). `BatchInv` adds to `SlotsAccounted` that a worker
has returned only when every index was handed out, and that a scanning worker
holds an index of the request: an answer without holes follows from the two
together. `LateInv`: behind a late item nothing is held or done, and the deadline has passed. The
twelve steps of a worker are of five kinds (`StepKinds`), and the proofs go by kind.

**The history** (`HistoryInv`, `AuditInv`). For any number of invocations, domains, builds and scans and under
every fault. None of the properties is inductive:
what is written is decided by what an invocation read awaits earlier, while
others wrote. `HistoryInv` states what an invocation may still rely on when it
writes (`Sound`): the row it compares is the one it stored, the prior row
it selected still anchors it (`Anchors`: the newest complete one among the rows before its own;
rows that come later have a larger number and cannot unseat it), nobody has written a change
of its row or an alert of its change; and no two invocations own a row (`OwnRows`).
A step of one invocation keeps this of the others since tables only grow at
their end (`Grown`, `AnchorsKept`, `SoundKept`). The steps are of five kinds by what they store (`ActsStore`).
`AuditInv` is about what is *not* lost: a row whose invocation is done with it and was not cut
short is settled (`AllSettled`), linked to its prior one and told if it is grave, and stays so.

**The readers** (`ReadersInv`). The pages a reader holds reach back to his cursor (`ReadUpTo`): every row of the
beginning that is no older than the cursor was shown, or one of its time. What is stored
meanwhile takes nothing from what he holds (`HeldKept`); that a new row may be older than the
cursor is why only the rows of the beginning are promised. `LimitAssumption`: pages have a
positive limit, as the code clamps it.

**Observations** (`SeenInv`). The state is a window of scans; the work is in the operators. The
header score is a sum of points per header, each no larger for a worse header;
`VerdictScore` is a minimum, monotone in its three parts; the content score is a function of
counts that only grow. `WorseNeverGains` composes the three. `StepsAlwaysTellAll` and `RecoveriesAlwaysAlert` go group of
fields by group; of the facts, a change of claims is in a step, or the fact is missing in the middle and both steps tell (`FactsTold`). `SitesAssumption` says what TypeScript types say of a scan.

**The content check** (`ScanInv`, `Converged`, `ToldInv`). `ScanInv`: whatever redirects, sitemaps and failed requests
a crawl meets, its pages are pages of the site, it waits only for pages it
planned, and the facts it has read keep their keys; of the store, `StoreInv`
and `LoaderInv` say that it holds rows of the releases only. `Converged` is `LoadConverges` of a load that is still
running: of the statements executed so far, each fact's last row and every pattern
is in the store. `ToldInv` is `RulingsKept` of every key, whether a finding has it or not: a
`SELECT` result that is stale at the write can only send it into the UNIQUE constraint. `WrongFiguresFail`
goes from the expression that is taken of a figure to a claim (`ReadIsClaim`), from a claim that a later page of the
path may have overwritten to a finding (`WrongClaimIsFound`: if the path's claims all agree with the
fact, the overwritten one makes two claims site-wide), from the finding to its place
in the list (`Listed`), and from there to the cap (`GraveFails`). `FalseAlarmsNever` goes the
other way: what is taken is what was meant and is right (`RightIsClaimed`), so every claim is the approved value. The hypotheses
are about what sites write: `AmountsPlain`, no amount has a point between thousands (run
DottedFigures shows what happens when one does), for `FalseAlarmsNever`; for `WrongFiguresFail`, `ExpressionsPlain`, nor has
what could be taken of one, and `FiguresProper`, that is an amount or a date of the calendar
(anything else is no claim to the code). The sites of run ContentScans satisfy all three, those of DottedFigures only the last.
`ReleasesAssumption` and `SitesAssumption` say that releases and links are lists and that every URL has an answer,
if only "lost", and a page finitely many figures.

Sums, folds, largest elements and redirect trails are defined by recursion over finite
sets or numbers, and the induction theorems of the library cannot be
instantiated. The lemmas about them (`ComputationsAgree`, `LargestExists`, `FoldsAgree`, `FoldExists`, `HopsExist`) go by a
minimal counterexample instead: a nonempty set of finite sets has a minimal member,
a nonempty finite set of numbers a smallest one.

Model-checked only: liveness (`Terminates`, `EveryDomainScanned`, `BatchEnds`), which TLAPS does not do. Of the operators,
the theorems say what the properties need and no more: that the totals of `Figures` are the
decimal value of the groups, or that `OnHost` keeps every URL of the host in its order, is
not proved, since it is induction over data. LivePayments has no passing run and no theorem.

## Plan

Modelled, in this order: the purchase machine, its ledger and its promise; the
history under concurrency; scoring and comparison; the batch pool; the machine as
it is wired to the live World; the content check, the fact registry and its loader, the findings and
their review; the read paths. The safety properties of the runs are proved. What is left:

1. An abstract specification of the history, a table of settled rows with the changes between
   them, and `HistoryAudit` shown to implement it from `AuditInv`.
2. The converse of `WrongFiguresFail` for stale figures: a finding of type `figure-stale` names a value
   that was approved once.
3. What `LivePayments` still guarantees although it pays twice: an exchange that was refused is never
   counted as settled.

Not modelled and not planned: TLS record parsing, regular expressions and text
extraction, Markdown layout, the x402 middleware and rate limiter (external),
fixtures and evidence scripts.
