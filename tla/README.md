# A verification project for is-ntust-down

`is-ntust-down` is a status page for a university's online services.  One Go
process probes up to eleven checks on a cadence, stores what it saw in Postgres and
serves a page and a public API from it.  Most of its probes are plain requests.
Two of them **log in with a real account**, and the university locks an account
after about ten failed logins: the core of the program is the logic that decides
*not* to log in, and its state has to survive restarts, failed database calls and
crashes at the worst moment.

This directory holds TLA+ modules translated from the code, TLC configurations
that check them on small instances, and proofs that the TLA+ proof system (TLAPS)
checks for every instance.  Around the scheduler stand the sign-on walk it lets run,
the tables of history, the page built from them and the rate limiter in front of
the API.  Paths below are relative to the repository (`src/`).

## 1. Inventory

| component | code | state | operations | what is hard | what makes it correct |
|---|---|---|---|---|---|
| Circuit breaker | `internal/scheduler/scheduler.go` 203-306, `internal/store/breaker.go` | one row per login check: failures in a row, `open_until`, backoff | load, update after a result, save | the record is read twice, written once, in separate calls; any may fail; the process may die in between | a suspension is waited out, escalates, begins in time |
| Scheduler | `scheduler.go` 84-201, 308-316 | per check: a goroutine and its ticker; the sweep's phase | `Run`, `RunInitialSweep`, `runJob`, `RunOnce` | a goroutine per check, cancellation at any point, ticks that queue behind a long probe, a stale clock reading | sweep order, daily ceiling, the sweep ends |
| Result store | `internal/store/store.go`, `hourly.go` | `check_results`, `check_current`, `check_daily`, `check_hourly` | `RecordResult`, `CurrentStates`, `CountAttemptsSince`, `Rollup`, `Prune` ... | rows are deleted while they are counted; roll-ups are repeated | attempts are counted as long as they matter; history is not rewritten |
| Maintenance loop | `internal/scheduler/maintenance.go` | last prune | roll up, prune, hourly | downtime over midnight; roll-up after prune | each day and hour is rolled up completely |
| Health vocabulary | `internal/probe/probe.go` | none | `RollupState`, `DeriveServiceState` | a pause must not hide a failure | a row says what its checks say |
| SSO session, login probes | `internal/probe/session.go`, `moodle.go`, `courseselection.go`, `html.go` | a cookie jar per attempt | fetch, bridge forms, submit, extract token | credentials must go out at most once over redirects and re-shown forms | one submission; every outcome has the right reason |
| Unauthenticated probes | `mail.go`, `tigerduck.go`, `querycourse.go` | none | one or a few requests | - | - |
| Rate limiter | `internal/web/ratelimit.go` | a map of token buckets under a mutex | `Allow`, `sweepLocked`, `ClientIP` | eviction against quota; rounding of the headers | quota, honest Retry-After, bounded memory |
| Status page | `internal/web/view.go`, `store.go` | none | `Build`, strips, `earliestSince` | time zones, gaps, mixed check states | what is shown is what was stored |
| API and pages | `internal/web/api.go`, `server.go`, `i18n/` | none | handlers, language negotiation | - | formatting, mostly |
| Configuration | `internal/config/` | none | `Load`, `buildJobs` registry | bounds that are and are not validated | the ceiling leaves room for the cadence |
| Process | `cmd/isntustdown/main.go` | the root context | start, SIGTERM, exit; `verify-sso` | shutdown waits for the HTTP server, not for the scheduler | nothing in flight corrupts the store |

How they interact.  The scheduler is the only writer of the breaker and of the
results; it calls probes (which know nothing of it) and the store, always outside
any lock and without a transaction around a run.  The maintenance loop deletes and
summarises the rows the scheduler writes and later counts.  The web side reads the
live table and the summaries.  The `verify-sso` command logs in once at an
operator's request, outside the guard and recorded nowhere.  The two login checks
present the same account, while breaker and ceiling are kept per check.

The behaviours that are hard to test, each at its line, are the `hazards` of
`PROJECT.json`, with the properties that watch them.

## 2. The modules

| module | models | kind |
|---|---|---|
| `LoginGuard` | what the guard promises the account, per login | abstract specification |
| `Breaker` | the breaker record and its arithmetic | pure operators |
| `Health` | how check states make a row's state | pure operators |
| `Scheduler` | sweep, tickers, guard, login, breaker, record, pruning, and Postgres | state machine, EXTENDS `Breaker`, `Health`; implements `LoginGuard` |
| `LoginRun` | what the scheduler takes for granted of one login run | abstract specification |
| `SSOLogin` | one run of a page probe or of a login through the sign-on chain | state machine; implements `LoginRun` |
| `History` | results, live state, rollups, deletion, the maintenance loop | state machine, EXTENDS `Health` |
| `StatusPage` | a page built from those tables while they are written, and the history endpoint | state machine, EXTENDS `History` |
| `RateLimiter` | `Allow`, its sweep and the headers' waits | state machine |
| `Front` | the limiter behind `ClientIP`, sources and proxies | state machine, EXTENDS `RateLimiter` |
| `MCScheduler`, `MCSSOLogin`, `MCHistory`, `MCStatusPage`, `MCRateLimiter`, `MCFront` | constants of the small instances | model checking |
| `SchedulerProofs`, `SuspensionProofs`, `CeilingProofs`, `BreakerProofs` | types and the sweep's order, suspensions and the refinement, the ceiling, the breaker's memory and the live state | proofs |
| `SSOLoginProofs`, `HistoryProofs`, `StatusPageProofs`, `RateLimiterProofs` | the walk and its verdicts, the buckets and since, the page, the limiter and its sources | proofs |

How they compose.  `StatusPage` and `Front` extend the machine they stand on and
interleave with all of its steps.  `Scheduler` takes a login probe as one submission
and one answer; that this is what a probe does is `LoginRunSpec` of `SSOLogin`,
with the one exception the run `sso_resend` finds.  `Scheduler` and `History` share
the tables `check_results` and `check_current`, each with the columns its
properties tell apart: the guard counts rows, the rollups count states.

### Scheduler

Each check is a small program with a counter `pc`; the diagram is in the module's
head.  Its steps are cut where the code calls out: between any two of them the
clock may move, another check may step, the maintenance loop may prune, the context
may be cancelled, the process may die.

| variable | code |
|---|---|
| `current`, `checkedAt` | `check_current`: state, reason, `last_checked_at` |
| `breaker` | `breaker_state`, absent row = `ClosedBreaker` (as `LoadBreaker` returns it) |
| `rows` | `check_results`: only the conclusive rows, which alone `CountAttemptsSince` counts; one slot per run |
| `phase`, `unswept` | where `Run` and `RunInitialSweep` are |
| `cancelled` | the root context |
| `pc`, `due` | each goroutine's place and its `time.Ticker` |
| `asOf` | the clock as the running function read it (`guardBlocks`, `updateBreaker` and `record` each call `clock.Now` once) |
| `rec`, `res` | the `BreakerRecord` and `probe.Result` locals |
| `runs`, `log`, `booked`, `clean`, `reported` | history, never read by a guard of the code's (`runs` also numbers the slots of `rows`, within the bound) |

What is abstracted.  Times are whole units.  A login's outcome is up, a failure
the breaker treats as terminal (`token_invalid` stands for the three of them), or
any other failure (`timeout`).  An unguarded probe answers up or down.  The order of
the login checks in the sweep is any order.  Pruning may happen at any time, which
includes every hour.  A ticker keeps one pending tick and drops the rest; a busy
check therefore finds its next tick waiting, and may be overtaken by any number of
the dropped ones.  A store call fails at once under a cancelled context and may
also fail on its own, up to `MaxFaults` times; a call that fails has not been
applied (a commit whose acknowledgement is lost is not modelled).  The wall clock
does not run backwards.  Two processes never share the database, as the
deployment's single container has it.

Bounds (`MaxTime`, `MaxRuns`, `MaxBoots`, `MaxFaults`) are conjuncts of guards
and appear nowhere else.  Where they bite the model stops, so the runs say
`CHECK_DEADLOCK FALSE`; a process that is down may also stay down.

### RateLimiter

`Allow` holds a mutex from its first line to its last, so one request is one
action, granted or refused; requests of different clients interleave with the
clock.  A token is `Cost` parts and a tick brings `Rate` parts, so that the code's
fractional refill becomes whole numbers; rounding *up* to whole seconds, which
`Middleware` does and a property is about, is modelled.  `spent` and `retryAt` are
history.  The runs check deadlock too: a client may always ask again.

`Front` is `RateLimiter` with its requests charged as `ClientIP` decides: they come
from sources, directly with any header, or through trusted proxies that append the
address they were called from.  An entry that is no IP address counts as untrusted,
as in the code; a proxy that does not append is outside the configuration's
contract.

### SSOLogin

One run: `stage` is where it stands, `sent` counts the requests of the client's
current call (`len(via)` in `CheckRedirect`), `hops` the rounds of the current loop,
`submitted` is the local of that name; the course selection login, which has no
such local, calls `ResolveBridges` once before and once after its submission, so
`hops` starts again.  A page is its host, whether its status is good, a mobile token
and a set of forms; a form is what the code asks of it: credentials, the
verification token, an assertion, the kind of its action.  The code takes the
first form that fits, the model any.  A request may be redirected, with the body or
as a plain GET, or fail; the identity provider makes what it likes of a submission.

The environment is free but for two things.  `Verified` is what the Moodle login
makes of the webservice's answer (no JSON is `unexpected_body`, an exception
`token_invalid`, another user's name `username_mismatch`), with the rule that the
monitor's name is only ever confirmed for a token of a session the identity provider
accepted.  `Gated`: the course selection site answers a session that submitted
credentials only if they were accepted; this is what the probe's own comment relies
on when it takes the final host as the proof of a login.  `honest` marks a run every
answer of which belongs to a sign-on that works.  The credential form of such a
sign-on may carry an assertion beside its fields; `bridges` does not count it, so a
walk that took it for a bridge would run out of rounds and show.

### History and StatusPage

A bucket is the set of the rows it counts, so `check_daily` and `check_hourly` are
sets of rows and a count lost or counted twice shows as a set that differs.
`maintain` is a start, which reads the clock once (`asOf`), and a step for each of its
five statements; each may fail, `Prune` gives up on the days when it could not delete the
rows, and the hour between deletions is remembered by the process only.  A
result carries the moment the scheduler read the clock for it and may be stored any
time later, which is how a row can reach a day that is over.  Days and hours are
those of the display zone, `Offset` units ahead of UTC.

`Build` reads the clock and then Postgres four times, each read an action, with
results, rollups, deletions, ticks and crashes between them.  `passed`, `hourPassed`
and `recorded` are history.  Daylight-saving changes are not modelled (the default
zone has none).  The operators know `degraded` and `retired` samples, the instances
do not: no probe records `retired`, and only the mail check that is off by default
records `degraded`.

## 3. What is checked

| run | instance | question | result |
|---|---|---|---|
| `sched_restart` | one login behind its page, two processes, three runs, time 3, threshold 2, backoff 1 doubling to 3, no ceiling | are suspensions honoured, stable, escalating and timely over crashes, shutdowns and lost updates, and does the scheduler implement `LoginGuard`? | holds |
| `sched_ceiling` | ceiling 1 in a window of 5, tick every 4 with stagger 0..1, retention 5, one failed store call, two processes, time 6 | does the ceiling hold while rows are pruned at the window's edge, and does the row agree with the breaker? | holds |
| `sched_sweep` | two services, two processes, fairness | does no login run on the gate state of an earlier process, and does the sweep end? | holds |
| `crash_loop` | no failed calls, two processes, ceiling 1 | does the ceiling bound a crash-looping container, as a comment says? | violated |
| `green_row` | one process, no failed calls | does a row stay down after a failed login until one succeeds, as a comment says? | violated |
| `sso_walk` | the three probes, the code's six hops, 80 pages, fairness | are verdicts right, do runs end, is a run one `LoginRun`? | holds |
| `sso_resend` | the Moodle login | do credentials leave once per run, as the README says? | violated |
| `history` | one check, hours of 2, days of 4, zone 1 ahead, retention 2 days, two processes, one failed call, time 12 | do the buckets keep what was rolled up? | holds |
| `page` | one service of two checks, hours and days of 2, two results of three kinds, time 2 | does a page agree with itself and with what was recorded? | holds |
| `page_since` | the same, three results | has a service held its state since the moment shown, as a comment says? | violated |
| `rate_quota` | two sources and a trusted proxy, headers of up to two forged entries, burst 2, a token every 3 ticks, sweeps from the second bucket on, time 8 | quota per bucket and per source, Retry-After, emptiness of the sweep | holds |
| `rate_sweep` | two clients, time 6 | does a sweep forget idle clients, as a comment says? | violated |

Why the bounds are enough to see the interesting cases.  Three runs are the fewest
in which a suspension, a lost update and a second suspension can follow each other;
two processes are a restart in the middle of any step.  A backoff of 1, 2, 3 passes
through first, doubled and capped, and three units of time are enough for a third
suspension.  With a window of 5 and a tick every 4, one attempt falls inside the
window of another, and a restart puts one just after its edge; `RawRetention = Day` is
the smallest retention under which the ceiling can hold at all.  With
`MaxFaults = 0` store calls still fail, under a cancelled context.

The walk runs with the code's own budget of six, so chains that just fit and just
do not are there; its pages have every set of forms that the code's tests tell
apart, malformed actions, a logout beside a bridge and an assertion inside the
credential form included.  The calendar of `history` has whole hours of UTC in the
middle of the zone's hours, three midnights, the smallest raw retention that
works, and time to delete every bucket; two rows are a bucket that could be overwritten
by part of itself.  One hour of `page` is one of its days, so that the turn of both
falls between any two reads, and a result of each kind can come on either side.  In `rate_quota`
a whole bucket drains and refills within the time bound, and two forged entries are
one more than decides.  Each property has a mutant in
`PROJECT.json`: a plausible bug in a mapped definition, for which TLC finds the
property violated in the same instance.

Fairness.  In `Scheduler`, goroutines of a live process run, and every probe has a
timeout of its own, so each step of a run is weakly fair, and so are the two
steps of the sweep itself.  Boot, cancel, exit, the clock, pruning and the tickers
are not fair.  That Postgres answers, if only with an error, is an assumption: the
scheduler puts no deadline on its queries, and one that hangs hangs the sweep.  In
`SSOLogin` the client has a timeout (`NewSession`), so a request is weakly fair to
end, if only in failure (`Break`); no service is assumed to answer.  `History`,
`StatusPage` and the limiter state safety only.

### The properties

* `SuspensionHonoured`: no run presents credentials before the end of a suspension
  an earlier run saved.  It relates runs of different processes.
* `SuspensionStands`: no step shortens or lifts a suspension before its end.
* `SuspensionEscalates`: of two suspensions with no success in between, the later
  is at least twice as long, up to the maximum.
* `ThresholdTrips`: the failure that completes the threshold brings a suspension,
  counting the failures whose record could be saved.
* `GuardSpec`: the scheduler implements `LoginGuard`, in which a run presents
  credentials once at most and outside suspensions only.  The mapping forgets everything but
  the clock, the stored ends of suspensions and the moments of presentation.
* `CeilingHolds`: in no window are there more presentations than the ceiling,
  counting those whose result was stored and the one under way.  It assumes that raw
  results are kept for a window, which `config.Load` does not check.
* `PageMatchesGuard`: `check_current` and `breaker_state` are written by different
  calls; after a run that lost neither, the row is down exactly when the breaker
  remembers a failure, pauses included.  After a lost write the two may disagree,
  until the next run that loses none.
* `LoginFollowsGate`: unless a store call was refused, no login presents credentials
  before its gate has *stored* a result in the same process, whatever shutdown or crash
  comes in between.  The condition is needed: with one refused call (`MaxFaults = 1`) the
  first process stores the page as up and dies, the second fails to store its result, which
  `record` only logs, and the login's gate reads the row of the process before.
* `SweepEnds`: the sweep's end.
* `UpMeansSignedIn`: up means that this run submitted and was accepted.
* `WorkingChainIsUp`: a sign-on that works, with at most four bridges, is up; a
  chain of six rounds does not leave the Moodle login a round to look at the last page.
* `BackAtTheForm`: a run brought back to the form it submitted never reports a bad
  credential, which would suspend at once.  After at most four bridges it says
  `sso_redirect_failed`; after more the Moodle login has no round left to look, and
  may say `sso_bridge_missing`.
* `RunEnds`, `LoginRunSpec`: a run ends, and is one `LoginRun`.
* `NoHole`: a row the daily rollup came across stays counted until its day is past the
  retention, over crashes, failures, late rows and deletions.  It says nothing of a
  row no rollup came across: a pass looks back one day, so a day whose last rows no
  pass saw by the end of the next stays half-counted.
* `ShownHoursWhole`: the same for the hours shown, in a half-hour zone too.
* `SinceIsFirstOfRun`: a check's `since` is the first of its unbroken run of results.
* `NewestBoxCoversRow`: the result behind the live state is counted in the newest
  box, though the two are read at different times.
* `ColourMatchesUptime`: green exactly at 100 %, red only at 0 %.
* `FailureReachesTheBanner`: a failed or paused check shows in its row and in the
  banner.
* `ApiEndsNow`: whatever number of boxes is asked for, the answer ends with the
  page's newest box and is as long as asked, or 400.
* `QuotaHolds`, `RetryAfterIsEnough`, `NeverFull`: the limiter's promises.
* `SourceQuota`, `NobodyStarves`: the same promises to sources: forging a header
  buys nothing, and sharing a proxy costs nothing.

### Findings

* **A crash escapes the ceiling** (`crash_loop`).  An attempt counts once its row
  is stored, after the probe and after the breaker's update.  A process that dies, or
  a `RecordResult` that fails, after the credentials went out leaves an attempt that
  nothing counts, and the next process may spend another.  The comment in
  `RunInitialSweep` and the README say that the ceiling bounds this.
* **A gate's outage turns a failed login's row green** (`green_row`).  A run
  declined for its gate overwrites the live state with `gate_closed`, which
  `RollupState` does not count as the earlier failure.  When the gate is up again the
  row is up until the next login.  The comment of `RollupState` and the README say
  that such a row stays degraded.
* **A redirect sends the credentials again** (`sso_resend`).  `CheckRedirect` only
  counts, so the client follows a 307 or 308 answer to the login POST with its body.
  The README says that one check never sends the credentials twice.  `LoginRunSpec`
  holds all the same: the *form* is submitted once.
* **A row's since can be too early** (`page_since`).  `earliestSince` takes the
  earliest moment of a check in the service's state.  With one check down and then
  the other, the service is degraded first and down later, but is shown down since the
  first.  Its comment says it reports how long the service has held its state.
* **The rate limiter never evicts** (`rate_sweep`).  `sweepLocked` looks at the
  tokens a bucket held after its last use, and no use leaves a full bucket
  (`NeverFull`, proved).  The comment on the threshold says that eviction bounds
  memory.

## 4. What is proved

All theorems hold for every value of the constants that the modules' named
assumptions allow.  `SchedulerAssumption` and `BreakerAssumption` ask only for numbers, that
login checks are among the checks and that each is gated by a check that is not a
login (as `buildJobs` has it); `RateLimiterAssumption` also for a positive rate and
burst; `FrontAssumption` that proxies are clients and an empty entry is not one;
`SSOAssumption` for a positive budget and pages of the given shape;
`HistoryAssumption` for numbers, a day of whole hours and samples of the given
shape, those of a pause being unknown, as the scheduler records them;
`PageAssumption` that services are made of checks and a day at least is shown.
`NoHoleSafe` and `HoursWholeSafe` ask for more, which `config.Load` does not enforce,
and state it as `ASSUME`.

| theorem | states | argument |
|---|---|---|
| `SchedulerProofs!TypeSafe` | `[]TypeOK` | strengthened by `StepOK`: a check before its probe still has a run to spend, one past it has a number, and an answer once it has one |
| `SuspensionProofs!SuspensionSafe` | `[]SuspensionHonoured` | below |
| `SuspensionProofs!SuspensionRunsItsCourse` | `SuspensionStands` | from the same invariant: whoever can save is past the guard, where no suspension is in force |
| `SuspensionProofs!GuardImplemented` | `GuardSpec` | `ReachInv` bounds what a run may save by the longest suspension; each step is then a `Present`, a `Conclude`, a `Tick` or a stutter |
| `CeilingProofs!CeilingSafe` | `[]CeilingHolds` | below |
| `BreakerProofs!EscalationSafe`, `ThresholdSafe` | `[]SuspensionEscalates`, `[]ThresholdTrips` | below |
| `BreakerProofs!PageFollowsGuard` | `[]PageMatchesGuard` | below |
| `SchedulerProofs!GateFirst` | `[]LoginFollowsGate` | the invariant follows the phases: unless a call failed, a check at rest in the first has stored its result; a failure that a shutdown brings comes too late to be submitted upon |
| `SSOLoginProofs!SSOTypeSafe` | `[]TypeOK` | with what each stage knows of the counters |
| `SSOLoginProofs!UpOnlySignedIn` | `[]UpMeansSignedIn` | an acceptance is only ever won by a submission, and outlasts everything but a logout |
| `SSOLoginProofs!RunImplemented` | the safety part of `LoginRunSpec` | `presented` is 0 until `submitted` and 1 from then on |
| `SSOLoginProofs!WorkingChainReported`, `FormAgainIsRedirect` | `[]WorkingChainIsUp`, `[]BackAtTheForm` | below |
| `HistoryProofs!HistoryTypeSafe` | `[]TypeOK` | rows recorded and results waiting are bounded together, so a result that waits has a number left |
| `HistoryProofs!SinceFirstSafe` | `[]SinceIsFirstOfRun` | below |
| `HistoryProofs!NoHoleSafe` | `RawDays >= 2` gives `[]NoHole` | below |
| `HistoryProofs!HoursWholeSafe` | retentions no shorter than the hours shown give `[]ShownHoursWhole` | below |
| `StatusPageProofs!PageReadsHistory` | `PageSpec => Spec` | a step of a page leaves the tables alone, so every theorem of `HistoryProofs` holds while pages are read |
| `StatusPageProofs!PageTypeSafe` | `[]PageTypeOK` | what is read stays recorded |
| `StatusPageProofs!NewestBoxSafe` | `[](BuiltInTime => NewestBoxCoversRow)` | below |
| `StatusPageProofs!FailureShownSafe`, `ColourSafe`, `ApiEndsNowSafe` | `[]FailureReachesTheBanner`, `[]ColourMatchesUptime`, `[]ApiEndsNow` | below |
| `RateLimiterProofs!RateTypeSafe`, `QuotaSafe`, `NeverFullSafe`, `RetryAfterSuffices` | `[]TypeOK`, `[]QuotaHolds`, `[]NeverFull`, `RetryAfterIsEnough` | below |
| `RateLimiterProofs!SourceQuotaSafe`, `NoSourceStarves` | `[]SourceQuota`, `NobodyStarves` | `CallerIsSource`: whatever arrives from a source is charged to that source; the rest is the limiter's |

*Suspensions.*  `SuspensionHonoured` compares presentations and suspensions that
may lie several restarts apart, so it is not inductive.  `SuspensionInv` adds that
every suspension ever saved is over or is no later than the stored one
(`SuspensionsKnown`), that a run past the guard found none in force
(`GuardPassed`), that clock readings are not ahead of the clock and that the history
ends at the last run.  The one step that could break `GuardPassed` is another save
of the same breaker; a check is a single goroutine, so there is none.

*The ceiling.*  What the guard counts are the rows in the window of its own clock
reading, some seconds old, with rows pruned since.  `CeilingInv` says that stored
runs still have their row as long as their presentation is in the window, and
that the row is dated no earlier than the presentation (`RowsKept`); that a run
past the count leaves room for one more (`RoomLeft`); and that a run under way is
not among the stored ones yet.  Pruning at the retention
cannot touch a row of the window, which is where `RawRetention >= Day` is used;
the count only falls as the window slides.  The arguments about set sizes rest on
lemmas from `FiniteSetTheorems`.

*The breaker's memory.*  Both properties relate runs that may lie any number of
restarts apart, through nothing but a stored record.  `MemoryInv` says what that
record remembers: its backoff is no shorter than any suspension since the last
success (`BackoffKnown`), its counter no smaller than the number of failures since
then (`FailuresKnown`); and that a run which is about to save has computed its
record from the very one it replaces (`SavesNextRecord`), which is where a check
being one goroutine matters again.  A success resets the record and, with it, the
set of runs these speak of.

*Page and guard.*  `PageMatchesGuard` is about the end of a run; `AgreementInv` says
which of the run's locals carries the agreement between the two writes: the record
loaded, then the result.  It needs the sweep's invariant, for a first tick may
not come while the sweep still runs that check.

*The verdicts of a walk.*  `ChainInv` ties the probe's round counter to the bridges
followed and its submission (`hops` is no more than their sum, so four bridges leave
two rounds), says that no logout is ever sent, that the identity provider has seen
what was submitted as soon as the request is answered, and that a page looked at in
an honest run is one that works.  Each way to end a run is then either
dishonest or right.

*Since.*  The live state is that of the check's row of the highest number
(`LastRow`), and rows of one check are stored in the order of their times
(`InOrder`), one result of a check being in flight at a time.  A result of another
state makes the old last row an opposite of every earlier one, so that the run
is the new row alone.

*The page.*  The live states a page holds are those of recorded rows
(`Copied`), read no earlier than the moment the page is of.  Such a row of the current
hour is still raw when the last read comes, unless the build took as long
as raw rows are kept: `BuiltInTime` asks that it takes no longer than the retention less an
hour.  The code sets its reads no deadline of their own; with the default of fourteen days
nothing that is served comes near it, and the instance's clock cannot.  A box shows
the union of disjoint buckets while its colour is made of one state per check;
`BoxColour` says that the two agree, whatever the buckets, and
`FailureSurvives` that no combination of states loses a failure.  These two and the
lemma on trimming are about the operators alone.

*The buckets.*  A rollup replaces a bucket by the rows that are left of it, so what
has to be shown is that a bucket is only recomputed while all its rows are left: a
row that was ever rolled up and whose day is today's or yesterday's of a pass is
still among the results, because no deletion, of this pass or an earlier one,
reaches into yesterday when two days are kept.  With one day kept it does, and the
bucket is overwritten with part of its rows: the assumption is necessary.  For
hours, the same with the first hour that `RollupHourly` selects; its lower end is a
whole hour of UTC, and the hour of the zone it may cut is one that is no longer
shown.

*The limiter.*  `NeverFull` gives that a sweep evicts nothing (`NothingIsEvicted`),
so an unknown client has never asked.  `Balance` then says that what a client was
granted since `t`, with what it has left, is at most a burst and the refill since
`t`.  `Promise` says that at the moment a refusal named, the bucket holds a token;
its lemma `WaitIsEnough` is the two-fold rounding up.

Every safety property that a passing run checks is stated by a theorem.  Only
model-checked are `SweepEnds`, `RunEnds` and the fairness of `LoginRunSpec`:
liveness under fairness is out of the prover's reach.  The five violated properties of the
findings are what the code does not do.

## 5. What is not modelled

* **Rendering and transport**: templates, labels and tooltips, JSON, compression,
  ETag and cache headers, latencies.  They keep no state and decide nothing.
* **HTML and encodings**: `ParseForms`, the token's base64, URL resolution.  A page
  is what the code concludes from it.
* **The other probes** (mail, TigerDuck, course query): one request and a
  comparison; in `Scheduler` an answer.
* **Configuration and the registry**: parsing and tables.  Where `config.Load`
  accepts what a property needs excluded, a hazard says so: a raw retention below
  two days, hourly buckets kept shorter than they are shown, a backoff below a
  second (which truncates to 0 and ends as it starts), a rate limit of 0 (a division by
  zero), a cadence that alone reaches its ceiling.
* **Language negotiation**: a choice between two catalogs, without state.
* **`verify-sso` and migrations**: one run of a probe outside the guard; DDL before
  anything else starts.
* **The account**: both logins present the same one; the code guards each by
  itself, and so does `LoginGuard`.
* **Clocks and zones**: a wall clock that runs backwards, daylight saving, two
  processes on one database, a commit whose acknowledgement is lost.

## 6. Plan

1. A bound for the account: both logins present the same credentials, while
   breaker and ceiling are kept per check; what follows for their sum.
2. What holds in place of the properties that are violated: a presentation the
   ceiling does not count belongs to a run whose process died or whose result was
   lost; the credentials of a run leave no more often than its redirects allow.
3. A recovery promise under fairness: a suspended login is tried again while its
   gate is up and tickers fire.
