# Verification of the anime-tracking QQ bot

TLA+ specifications, TLC configurations and TLAPS proofs for the bot in `src/`.
Paths below are relative to the repository; `core` stands for
`src/anime_qqbot` and `plugin` for
`astrbot_plugin_anime_tracking/anime_tracking_plugin`.

- Check a configuration: `tlc -config MCDelivery_faults.cfg MCDelivery`.
- Check another one: `tlc -config MCWorker.cfg MCWorker`; `PROJECT.json` names the
  module of each.
- Check the proofs: `tlapm DeliveryProofs.tla`.

`PROJECT.json` lists the runs, the theorems, the mutants, the source lines each
definition stands for, the disagreements found between the code and its
documents, and the hazards.

## 1. The system

Two long-lived processes share one PostgreSQL database and hold little state of
their own.

```
 Bangumi  AniList  AnimeSchedule   Mikan RSS           QQ groups
    \        |         /              |                    |
     v       v        v               v              NapCat (OneBot)
   +---------------------------------------+               |
   | worker   (entrypoints/cli.run_worker) |        AstrBot + plugin
   |  catalog sync -> release batches ->   |   dispatcher, NapCat monitor,
   |  airing planner -> content planner -> |   chat handlers, owner's console
   |  operator jobs -> heartbeat -> sleep  |               |
   +-------------------+-------------------+               |
                       |          PostgreSQL               |
                       +-----------------------------------+
```

The worker is one asyncio loop: every step of an iteration runs to completion
or fails in isolation before the next. The plugin runs several asyncio tasks at
once: `OutboxDispatcher.run` (every 3 s), `NapCatStatusMonitor.run` (every 60 s),
one task per chat message and one per request of the owner's console. What two
tasks, or the two processes, interleave is their database transactions, the
awaits between them, and calls of the chat platform.

### Components

| Component | State it keeps | Operations | Hard behaviour | What makes it correct |
|---|---|---|---|---|
| Notification outbox and dispatcher (`core/notifications/outbox.py`, `core/application/use_cases.py`, `plugin/dispatcher.py`) | `notification_jobs` (status, due and expiry times, lease, attempt count), `delivery_attempts` | enqueue, release expired leases, reserve, claim, deliver, complete | crash or error between send and record; a send whose result is unknown; leases | a message is repeated only for a reason; no job stays leased; every outcome is audited |
| Delivery controls (`core/notifications/control.py`) | one row per scope: paused, circuit | pause, resume, open circuit, permits group | the gate is read before the send and changed by others | a closed gate stops delivery; a resumed one restores it |
| Send governor (`core/notifications/governor.py`) | in-memory windows of past sends | peek, acquire | several windows at once, one memory for many groups | no window over its limit; no group refused for ever |
| Mikan release pipeline (`core/resources/module.py`) | feed targets with back-off, `resource_items`, `release_batches` | poll, ingest, open batch, close batch, plan | crash between enqueue and the batch's last write; late items; duplicates of an episode | every fresh episode reaches its subscribers' groups once; no batch is lost |
| Airing planner and audience (`core/notifications/planner_v2.py`, `cli._plan_airing_reminders`, `use_cases.subscribe`) | the airing jobs' payload | plan, add audience | a subscriber who arrives while the reminder is leased | one reminder per episode and group; the audience is frozen when due |
| Content planner (`core/content_operations`) | `content_publications`, `content_polls`, votes | plan daily digest and weekly report, open, vote, close polls | a crash between closing a poll and announcing it; a record written after the job was sent | a closed poll is announced; a sent publication says so |
| Weekly essence (`plugin/dispatcher._replace_weekly_essence`) | `essence_status`, the group's essence list | set, delete | one of two platform calls fails | at most one weekly report is essence |
| Operator jobs (`core/operations`) | `operator_jobs` with lease | enqueue, claim, run, finish | a job outlives its lease; a worker that restarts has the same name | every job ends while iterations are shorter than a lease; none is run twice without a fault |
| NapCat status monitor (`core/operations/napcat_status.py`) | consecutive failures; `runtime_component_status` | probe, observe, record | one lost probe is not an outage | the banner changes only after three failures, and recovers at once |
| Group policy (`core/groups/settings.py`, `core/interactions/mention_policy.py`, `admin_service.update_group`) | `group_runtime_settings` and `mention_command_policies`, each with a version | get, update (compare and swap), restore, audit | two writers, one of them with a chat command, edit the same row | no lost update; every version makes sense; the trail is true |
| Catalog sync and mapping (`core/catalog`, `cli._sync_*`) | anime, mappings, airings, source runs, cool-downs | sync, discover, confirm, refresh | request budgets, rate limits, a failure half-way | an entry belongs to one show; the budget is kept; every show is tried; what a source calls adult is hidden |
| Chat gateway (`plugin/interaction_gateway.py`, `core/interactions`) | `interaction_sessions`, `processed_events` | route, resolve number, replace menu | a stale number, a duplicated event | a number means an entry of a menu the user's own search left; one answer per message; adult shows stay out of searches, listings and details |
| Language model tools (`plugin/astrbot_tool.py`, `plugin/llm_policy.py`) | the turns in the guard's memory | call, mark a result, finish | turns of one group overlap; a call fails after another was answered | the model's own words come out only when they are grounded or allowed |
| Subscriptions (`core/subscriptions`, `use_cases.subscribe`) | `group_subscriptions` | subscribe, unsubscribe, settings | completed and unmapped anime | a user subscribes once; settings are total |
| Presentation (`core/presentation`, renderers, poster cache) | a cache of files | render, fetch, evict | size limit of the cache | pure output, and a bounded cache |

How they meet: the planners call `OutboxRepository.enqueue`, whose unique key
(group, type, business key) makes repeated planning harmless; the dispatcher
consumes what they enqueue, asks the delivery controls, the group policy and the
governor before every claim, and reports to `content_publications`; the owner's
console writes all of these rows directly.

## 2. Plan

In order of how much of the bot's promise rests on them:

| # | Module | Component | State |
|---|---|---|---|
| 1 | `Delivery`, with the abstract `Courier` and `DeliveryProofs` | outbox, dispatcher, controls, publication rows, the owner's actions on a notification | done, proved |
| 2 | `SendGovernor`, `SendGovernorProofs` | rate limits | done, proved |
| 3 | `ReleaseBatches`, `ReleaseBatchesProofs` | Mikan pipeline | done, proved |
| 4 | `DailyDigest`, `PlannersProofs` | schedule of the digest | done, proved |
| 5 | `ContentPolls`, with the abstract `Ballot` and `ContentPollsProofs` | votes, closing by worker and owner, the announcement of the result | done, proved |
| 6 | `WeeklyEssence`, `PluginProofs` | weekly plan, publication row, the platform's calls | done, proved |
| 7 | `OperatorJobs`, `WorkerProofs` | leases of jobs for the worker, a handler that kills it | done, proved |
| 8 | `AiringReminders`, `PlannersProofs` | reminders and their audience against subscribe, unsubscribe and the lease | done, proved |
| 9 | `GroupPolicy`, `PluginProofs` | compare-and-swap and audit of settings and words | done, proved |
| 10 | `LinkDiscovery`, `WorkerProofs` | the search for AniList links: budget, cursor, cool-downs, bridge | done, proved |
| 11 | `CatalogSync`, `WorkerProofs` | discovery, refresh and projection of entries | done, proved |
| 12 | `GroupChat`, `GroupChatProofs` | messages, menus, the language model's turns | done, proved |

Composition. `Delivery` is the meeting point: `ReleaseBatches`, `DailyDigest`,
`ContentPolls`, `AiringReminders` and `WeeklyEssence` end in
`OutboxRepository.enqueue`, which is `Delivery!Enqueue`. They are joined by the
shape of a job, not by a product of state spaces: a job of a planner is any job
of `Delivery` (delay, life time, priority and content are constants that range
over what the planners produce), and what a planner promises (`OneJobPerEpisode`,
`NothingTwice`) is what makes `Delivery`'s jobs distinct. `SendGovernor` enters
`Delivery` as the choice in `Reserve`: any eligible row may be the one admitted.

Runs that share an instance. Three of them check more than one component:

| Module | Extends | Also holds, by `INSTANCE` |
|---|---|---|
| `Planners` (instantiated by `MCPlanners`) | `DailyDigest` | `AiringReminders` |
| `Plugin` (instantiated by `MCPlugin`) | `SendGovernor` | `WeeklyEssence`, `GroupPolicy` |
| `Worker` (instantiated by `MCWorker`) | `OperatorJobs` | `LinkDiscovery`, `CatalogSync` |

The components of such a run share no variable. A variable (`part` or `duty`) is
chosen at the start and says which of them moves, so their states are added up and
not multiplied: it is several checks in one run, not a composition, and each
property means what it means in its own module. A liveness property of a
component is claimed where that component moves. `PartsOfPlanners`, `PartsOfPlugin` and
`PartsOfWorker` prove that each of these specifications implies those of its parts, so
that a theorem about a part holds of what the run checks. Each module has one type invariant,
part of the inductive invariant where there is one, and checked by TLC as the
first conjunct of the invariant named `...AreConsistent` or `...IsConsistent`.

Abstract specifications: the courier of module `Courier`, which the outbox implements,
and the ballot box of module `Ballot`, which the polls implement. Both refinements are
checked and proved. Worth stating next: a batch as one announcement of an episode.

"Proved" says that every safety property of the module that a run checks is a theorem
(section 14). The modules declare no RECURSIVE operator.

## 3. Delivery: the outbox and its consumer

### State and actions

| Variables | In the code |
|---|---|
| `status`, `available_at`, `expires_at`, `leased_at`, `attempt_count` | columns of `notification_jobs` |
| `attempts` | rows of `delivery_attempts`: attempt number and result |
| `publication` | `content_publications.status`, `none` while there is no row |
| `paused`, `circuit_open` | `delivery_controls`, by scope: a group or `global` |
| `policy_ok` | `proactive_enabled` and not `is_quiet_at`, per group |
| `umo` | whether `chat_groups.unified_msg_origin` is known |
| `pc`, `now`, `stale`, `cur`, `outcome` | where `_tick` stands, and its local variables |
| `adm_job`, `adm_action` | the owner's open transaction in `update_notification` |
| `wire`, `excused`, `late` | history: messages that reached the group, how many of them there was a reason to repeat, messages since the gate closed |

One transaction of the code is one action, and `pc` stands between two of them.
A tick of the dispatcher is `TickStart`, `ReleaseRead`, `ReleaseWrite`,
`Reserve`, `Claim`, `Load`, `Send`, (`OpenCircuit`), `Complete`, (`Publish`,
`Essence`), in the order of `_tick` and `_deliver`. Everything else may happen
between any two of these: the clock, the planners' `Enqueue` and
`RecordPlanned`, the owner's `AdminRead` and `AdminCommit`, `Pause` and
`Resume`, `PolicyChange`, `GroupEvent`, and the failures.

Three things are modelled because the code does them, although they surprise:
`release_expired_leases` selects rows without a lock and later writes them
(`ReleaseRead`, `ReleaseWrite`); `complete_job` finds a job by its id alone and
asks neither for the lease nor for the status; and the exception handler of
`_tick` completes a job with `retry` whatever had already been recorded
(`Raise`, `CompleteRaised`).

A call of the platform has seven outcomes; one that times out or fails in an
unknown way may or may not have put the message into the group, and both are
choices of `Send`. A crash (`Crash`) may come between any two transactions; an
error (`Raise`, `TickFails`) at any step that may raise.

### Properties

- `NoUnexplainedDuplicate`, and its refinement form `KeepsPromise`: a message is
  repeated only after a timeout, an exception or crash between the send and the
  record, or an owner's retry. The abstract `Courier` gives each job one credit
  that a delivery spends and only such an event gives back; the mapping is
  `copies <- wire`, `credit <- wire = excused`.
- `LeaseRecoverable`, `LeasesEnd`: a lease can be taken back, and is.
- `AtMostOneAfterClose`: the check of the gate and the send are separated by a
  claim and a rendering; one message per group may pass in between, and no more.
- `OutcomesAreAudited`: three transactions record an outcome, and none of the job and
  its publication is ahead of the attempt rows.
- `NoStarvation`: blocked groups do not hide the jobs of the others.

### Runs

| Run | Instance | Shows |
|---|---|---|
| `delivery_faults` | one job that is a weekly report and also needs the @all quota, clock to 3, two faults at any step | `LeaseRecoverable`, `OutcomesAreAudited`, the refinement `KeepsPromise` and `LeasesEnd` |
| `delivery_pair` | two jobs of two groups, governor on | `AtMostOneAfterClose` per group; `NoStarvation` when the preflight query holds all due jobs |
| `delivery_admin` | one job, one fault, one action of the owner | `NoUnexplainedDuplicate`: the owner's unlocked read and late write add no copy without a reason |
| `sent_job_resent` | one job | a disagreement with a document, see section 15 |

Why the bounds are enough. The actions touch one job at a time and jobs meet in
two places only, the order of the preflight query and the group's gate, for which
two jobs in two groups suffice. The clock needs to pass the lease time after a
claim, the back-off after a retry and the expiry after both; with these at 1, 1
and 3 ticks a clock of 3 reaches every order of them. Two faults let a recovery
fail. All of the safety properties in this section are proved for every instance.

### Fairness

`WF(Tick)` and `WF(DispatcherStep)`: `run()` polls every three seconds as long as
the process lives and survives every exception. `SF(Reserve)`: the dispatcher
may find its row refused by the governor at every poll; each such wait is
bounded (`RetryIsEnough`), but replies to chat commands share the group's
interval and could, in a group that never falls silent, refuse for ever. That
they do not is an assumption about the chat, made only for `NoStarvation` and
`LeasesEnd`.

## 4. SendGovernor: the rate limits

`log[m]` is everything ever recorded at meter `m`; the process knows only
`log[m][start..]` (what was recorded since it was loaded) and keeps
`log[m][head..]` in its deque. A request counts against the meters `Meters(r)`:
all groups, its group, its user, its group's proactive messages. `Acquire`,
`Peek` and `Restart` are the operations; an acquire does not await between
looking and recording, so it is one action.

`RatesKept` speaks of the whole log: in no window, wherever it lies, are there
more messages than the count, and no two are closer than the interval, although
the guards see only what pruning has left. `RetryIsEnough`: whoever waits as long
as it was told is admitted unless somebody came in between; it holds because a
deque is never over its count.

Run `plugin`, its governor part: two classes, two groups, a user, counts of 2 in windows of
1, 3 and 4 ticks, clock to 4 and one restart. The windows are of different
lengths and hold more than one interval, which is what the relation between
pruning and counting depends on. Both properties are proved in general.

A restart empties the windows, so the rates hold between two restarts only; the
model says so by `start`.

## 5. ReleaseBatches: from the feed to the jobs

One feed of one anime. A run of the worker is: close and plan the batches whose
window is over (`StartRun`, then for each batch `Close`, and `Suppress` or
`Decide`, one `Enqueue` per group, `Finish`), then poll the feed if it is due
(`EndClose`, `Fetch`, one `Ingest` per item, `RecordSuccess`), each a transaction
of its own. `PollFails` is an exception inside the polling, which the code catches
per feed and answers with a back-off (`RecordFailure`); `Interrupt` is any other
exception or the end of the process. Users subscribe and unsubscribe between any
two transactions (`Toggle`); the schedule changes between runs (`Schedule`),
because the same loop writes it.

Titles, filters and episode numbers are constants: what a parser makes of a title
is `Label` and `Number`, what a user's filter accepts is `Wanted`.

- `EtagCoversStored`: a conditional request never hides an item that was not
  stored; the items and the ETag are written in different transactions.
- `BaselineIsSilent`: nothing is announced of a feed before its first complete
  reading, even when earlier readings failed half-way.
- `WindowsDisjoint`: two batches of an episode begin a window apart.
- `JobsAreNews`: a job is enqueued only while it can be delivered, and holds
  nothing older than a day, even if its planning was repeated later.
- `OneJobPerEpisode`: a group hears of an episode once, from however many
  batches, runs and repetitions.
- `FrontierAdvances`: announcements to a group go forward.
- `EndServesAll`: a batch does not end as the frontier before every group with an
  interested subscriber has its job, as long as nobody subscribes meanwhile.
- `BatchesEnd`: every batch ends.

All but the last are proved (section 14).

| Run | Instance | Shows |
|---|---|---|
| `release_polling` | one release of each of two episodes, dated now or ahead of our clock, one fault, one change of a subscription or the schedule, clock to 2 | `FeedIsConsistent` (types and `EtagCoversStored`), `BaselineIsSilent`, `JobsAreNews`, `FrontierAdvances`, `BatchesEnd` |
| `release_windows` | two releases of the second episode and one of the first, two groups with different filters, one fault, clock to 3 | `WindowsDisjoint`, `OneJobPerEpisode`, `EndServesAll` |

Bounds: a window is one tick and news lives for two, so that within the clock an
item can join a window, miss it, be planned late, and be too old. Two items per
episode are what it takes for a second batch; two groups for a plan that is
interrupted half-way. One fault at any of the transactions; a second one only
repeats the recovery.

Fairness, for `BatchesEnd` only: time passes and the worker's loop goes on
(`cli.run_worker` isolates each step and sleeps in between). Faults are bounded:
a batch whose planning raises every time would not end.

## 6. DailyDigest: when the digest is planned

`Plan` is `_plan_daily` as the worker calls it: the period of the moment
(`PeriodOf`, by the minute), the releases of the period (`Rows`, by exact times),
the time to send (`SendAt`: the anchor, or a quiet time after the last release, or
the cutoff) and whether it has come (`Due`). Two releases are published at any
tick and found at any later one; the worker runs at any moment, at least every
`Scan` ticks.

- `NothingTwice`: no release is in two digests, though the periods are found by
  the minute and filled by exact times.
- `PlannedInQuiet`: a digest is planned in a quiet moment, with all that was
  known of its period, or at the cutoff.
- `PlannedInPeriod`: never before its period and never after it.
- `QuietPeriodHasDigest`: if the releases stop early enough for the worker to
  come by, there is a digest.

`DigestsAreConsistent` is the conjunction of the first three and the types. All are
proved (section 14). `QuietPeriodHasDigest` has the premise `Anchor + Scan <= Cutoff`: if
an iteration took longer than the time from the anchor to the cutoff, the worker
might not come by at all, and no setting of the code excludes that.

Run `planners`, its digest part: a day of six minutes of two ticks and a clock of 18
ticks, a day and a half, so that a period ends, its boundary is crossed by minute and
by tick, and the digest of the next one has its time.

## 7. ContentPolls: votes, closing and the announced result

The polls of one group. `status`, `opens_at`, `closes_at` are columns of
`content_polls`, `votes` the rows of `content_poll_votes`, `jobs` the
announcements enqueued for the polls. The owner's requests, the worker's loop and
the voters run at once, each with its own step and locals (`pc`, `poll`, `kind`,
`view`, `window`; `v_pc`, `v_choice`, `v_now`, `v_poll`).

| In the code | Actions |
|---|---|
| `open_content_poll` and `PollService.open_poll` (group row locked, open poll looked for, insert) | `OpenCheck`, `OpenCommit` |
| `close_content_poll`; the query of `_close_expired_polls` | `CloseRequest`; `Scan` |
| `PollService.close_poll`, one conditional `UPDATE` | `Close` |
| `PollService.get`, then `OutboxRepository.enqueue` | `View`, `Enqueue` |
| `vote`, `cancel_vote`: the clock of the command, `SELECT ... FOR UPDATE`, upsert or delete | `Ask`, `Select`, `Write` |
| an exception or the end of the process, which rolls back an open transaction | `Fail`, `VoteFails` |

`lock` is the row lock a transaction holds between its locking read and its
commit. An opening locks the group's row; a vote locks the rows its query joins, the
group's among them. `Close` waits for the rows of a vote as its `UPDATE` does; it
need not wait for an opening, but then no poll is open and it changes nothing.

- `KeepsBallot`: the polls implement the abstract `Ballot`, where opening, voting,
  closing and announcing are one step each, a poll opens only while none is open, a
  vote goes into an open poll, and the result of a closed one is announced once, with
  the votes it has. The mapping leaves `status` and `votes` as they are; `results` are
  the announcements of results among `jobs`.
- `OneOpenPoll` (in `PollsAreConsistent`, with the types): a group never has two open
  polls.
- `ResultIsFinal` (also there): the votes counted for the announced result are the
  poll's votes for ever; a vote that read the poll while it was open is written
  before the close or not at all.
- `EveryPollIsAnnounced`: a poll whose time is over gets its result, whoever closes
  it, unless a step fails. The exception is real: closing and announcing are
  separate transactions, and after a crash between them nothing looks at a closed
  poll again.

Run `polls_races`: two polls, two requests of the owner and the worker, one voter
with one candidate and the withdrawal, clock to 1, one fault. Two requests are
what it takes to race for opening or closing; one voter suffices because votes of
different members touch different rows and the same lock.

The safety properties and the refinement are proved (section 14).

Fairness: time passes, the worker's loop goes on, a request that has begun is
served, and (`SF(Close)`) the database grants a row lock to one who waits for it
again and again, which PostgreSQL's queue of waiters does.

## 8. WeeklyEssence: the report that takes the place of honour

One group, week after week. The planner enqueues the report and records its
publication in two transactions (`Enqueue`, `RecordPlanned`); the dispatcher may be
faster. After a report was sent the plugin records it (`Publish`), makes it an
essence of the group (`SetEssence`), records that (`MarkSet`) or the failure
(`MarkFailed`), looks for the report that was essence before (`Previous`), takes
its honour (`DeleteEssence`) and records that (`MarkRemoved`). A call of the
platform works, is refused, or works without its answer arriving. `Interrupted` is
an exception or the end of the process at any of these steps; if the job was not
recorded as sent, or the exception's handler puts it back, the report is sent again.

`Latest` is the query of `previous_weekly_essence`, `ORDER BY published_at DESC`:
PostgreSQL puts a row that has no time first.

- `HonourPassesOn`: the honour is taken from a report only when a later one has it.
- `OneEssence`: one essence of ours, and at most one more for each mishap (a
  refused or unanswered call, a fault, a report sent before its publication was
  recorded).
- `EssenceIsKnown`: without lost answers, faults and late records the rows tell
  what the platform shows, so whatever could not be removed can still be removed.

`OneEssence` excuses a state called `Hiding`, and the excuse is a finding of its own.
A record that comes between `Publish` and `MarkSet`, or a resend that fails for good
after the essence was set, leaves a row with `essence_status = 'set'` and
without message and time. It is the first row of every later query, has no message
to remove, and so no old essence is removed any more, in any later week.

Run `plugin`, its weekly part: three weeks (a report, the one that replaces it,
one after a mishap), four accepted messages, two refusals, one fault.

## 9. OperatorJobs: jobs for the worker

`status`, `held` (how long ago the lease began) and `queue` (the order of
`available_at`) are rows of `operator_jobs`. An iteration of the worker starts with
`Wake`, which fixes the time it uses for everything (`lag` is how long ago that
was): the lease of a job it takes begins then, and not when the job is taken.
`Claim`, `Handle`, `Return` and `Finish` are the steps of `run_one`; `Fault` is a
transaction that fails or the end of the worker. One handler, that of `Poison`,
kills the worker whenever it is tried.

- `RunsAreExplained`: a job's handler runs once, and once more for each fault.
- `EveryJobEnds`: every job is completed or failed, though another one kills the
  worker, if from some time on no iteration outlasts a lease (`InTime`). A poison job
  is claimed first in every iteration after its lease has run out; the others come in
  between, because the worker does not wait for the lease. The premise is needed:
  the lease begins with the iteration (`cli.py:1006`, 1098), and when each one comes to
  its job more than ten minutes later, as one may that follows a restart and begins
  with a round over the whole catalogue, the lease of the poison job has run out by the
  next `Wake`, which claims it again, and the other jobs wait for ever (section 15).

Run `worker`, its jobs part: one job and one poison job, a lease of two ticks,
iterations up to three ticks long, so that single ones outlast the lease and the
premise matters: without it TLC finds the starvation. There is one worker, as deployed; a second one
could take a job whose lease ran out under a handler that is still at work.

## 10. AiringReminders: who is told that an episode begins

`anilist` holds every time AniList ever gave for an episode (its key contains the
time, so another time is another row), `schedule` the one row of AnimeSchedule.
The planner's iteration is `Wake`, `Look` (which episode is next, at the time its
sources are resolved to), `Read` (the subscribers) and `Enqueue`; a user's
`subscribe` is `Ask`, `Follow` and `AddAudience`, each a transaction. `Take` is
the dispatcher's lease, after which an audience is fixed.

- `SubscriberIsTold`: who subscribed before an episode began is mentioned in its
  reminder, whether it had been planned by then or not. Two users are excused:
  one whose `Follow` falls between the planner's `Read` and `Enqueue` (neither sees
  the other; the next-airing design, 1, wants nobody missed who subscribes after the
  job was planned, and does not look at the moment before), and
  one with two planned episodes ahead, of which only the next gets the audience.
- `NoReminderInConflict`: no reminder while the two sources contradict each other.
  It is claimed for an AniList that never changed its mind: after it did, both of
  its rows stay, and the one the query returns last is compared.

Run `planners`, its reminders part: two episodes, two possible times, two users, two
reports of the sources, two commands, one failure.

## 11. GroupPolicy: settings and words

A writer is a page of the console (`Open`, `Submit`, `Read`, `Write`, `Audit`;
for the words `SubmitWords`, `WriteWords`, `Audit`) or a chat command (`Say` and
then as before). Two rows with versions; a row that is absent counts as version 1.
`Submit` checks the edit against one reading of the settings, `Read` merges it
into another, `Write` compares the version with the one the page had shown.

- `SettingsMakeSense`: in every version the quiet time fits between anchor and
  cutoff, and quiet hours have two ends.
- `TrailIsTrue`: an audit entry holds two consecutive versions.
- `NothingIsTakenBack`: a write replaces the version its author had in view and
  changes what he asked for.

Run `plugin`, its settings part: two writers, four edits (an anchor and a quiet time
that exclude each other, quiet hours set, cleared and with one end, a switch), three
versions of each row, the page's switch turned and the plugin reloaded.

## 12. LinkDiscovery and CatalogSync: the worker's catalogue

`LinkDiscovery` is `AniListLinkDiscoveryService.run_once`: `Start` reads the rows of a
run (shows on air soon first, then the scan from the cursor), `Row` begins an
attempt, `BridgeSearch` and `BridgeSelect` ask AnimeSchedule, `Search` asks AniList
title by title, `Find`, `Add` and `Confirmed` are the three transactions of a
confirmation. `Defer` leaves a row for another run when the searches are spent,
`Assess` records a failure with its cool-down. `EnrichAnime` is the same for one
show out of a job; `CliFind` and `CliAdd` are the owner's `map-anilist` in another
process; `Abort` and `Crash` end a run early.

- `BudgetKept`: a run searches no more often than it may, over two sources.
- `EntryHasOneShow`: an entry is linked to one show, unless worker and command
  looked at the same time; the table's unique key is (show, entry) and stops
  neither.
- `LeftAloneAfterFailure`: not even in the same run is a show tried after it failed.
- `EveryShowIsTried`: every show that can be searched for is linked or tried again
  and again.

`CatalogSync` is one round of the worker: the calendar's new subjects, the refresh of
the entries it knows (`Known` picks them: a `LIMIT` without an order), discovery,
and the projection of the newest snapshots. `Fetch`, `Create` and `Link` are
`sync_subject`; a show and its first link are two transactions.

- `ShowsHaveSources`: only a crash between these two leaves a show without a source.
- `AdultIsHidden`: what one source calls adult is hidden, if it does not take it
  back, whatever the other source says, unless `Window` other snapshots follow before a
  projection. `age` counts the snapshots after an entry's newest one; the projection
  reads the `Window` newest (`LIMIT 200`, `cli.py:711`), and what has left them waits
  for the entry's next refresh, which `Known` does not promise. `age` counts the
  snapshots of unlinked entries as well, which the query leaves out: the model forgets
  sooner than the code.

Run `worker`: three shows, one with two titles that is on air soon, one without
metadata, one medium and one route, two searches a run and one fault; two subjects and one
medium, of which a round refreshes one each, a window of two snapshots, one crash and
one job between rounds. The window is smaller than the catalogue, so a snapshot does
fall out of it before a projection, and without the last clause of `AdultIsHidden` TLC
finds a show that is never hidden. `EveryShowIsTried` does not hold in
general: with a budget of 1, a show of two titles is deferred for ever, and shows on
air soon that use up the budget in every run keep the scan where it is. The instance
leaves room for both, as the default of 12 searches does for a catalogue of this size.

## 13. GroupChat: a message and its answer

A message passes the command group (`EnterCommand`, `CoolDown`), the gateway
(`EnterGateway`, `Route`) and, if it is a mention nobody answered, the language
model (`OpenTurn`, `CallTool`, `ToolFails`, `CloseTurn`). What it asks for is done in
`Pick`, `Search`, `Keep`, `Detail`, `Mine`, `List`, `Pending`, `Settings`, `Change`,
`Follow` and `EndFollow`, one transaction each. A show is asked for by a text, by its
internal id, or by a number of the menu. `menu` is `interaction_sessions`, one row per user of the
group; `turns` the memory of the guard. `FlagAdult` and `Finish` stand for what the
worker learns meanwhile, `ChangePolicy` for the owner.

- `OneAnswer`: one message, one answer.
- `PicksFromOwnMenu`: a number is an entry of a menu that a search of the same
  user left and that had not expired when the message was taken up. That it is the
  menu the user saw is not promised: a search by the model's tool replaces the
  user's menu unseen.
- `HiddenStaysHidden`: an answer names a show that was adult before its handler
  began, be it in an older menu or a subscription, in two cases only (`Unfiltered`).
  The list of waiting links (`Pending`) does not look at the flag, and neither do
  `unsubscribe` and `subscription_settings` for a show the user points to by a number or
  an id: their answers have its title. A search, a listing, a detail, a subscription
  and every text leave it out, though each asks for the flag in a place of its own.
- `Grounded`: the model's own words are sent only after an answered call, or
  without a call where general chat is allowed.

Run `group_messages`: two messages, two users, two shows, ten commands and two tool
calls, one change from outside. Each of the two cases is reached: without it the
property is violated. Two messages are what it takes for one to replace
the menu of the other or to share a guard with it.

## 14. Proofs

`DeliveryProofs` (`tlapm DeliveryProofs.tla`), from the named assumptions of
`Delivery` on its constants and no others:

- `Invariance`: `IInv` is inductive. The safety properties are not inductive by
  themselves. That a message is sent only with `wire = excused` needs to know
  which jobs may still be sent: a job in a status that leads to a send, the one
  the dispatcher holds before its delivery, and those the lease recovery has
  selected but not written (`MayBeSent`, `DuplicateInv`). That a closed gate lets
  only one message through needs that the late message is the one whose
  preflight preceded the closing (`CloseInv`). That a publication has an attempt
  needs that the dispatcher counted it before and recorded it (`AttemptInv`).
  `TickShape` ties the local variables to `pc`.
- `TypeCorrect`, `DuplicatesExplained`, `LeasesRecoverable`,
  `CloseStopsDelivery`, `OutcomesAudited`: the parts, as theorems of `Spec`.
- `Refinement`: `Spec => KeepsPromise`, step by step: a `Send` that delivers is a
  `Deliver` of the courier, a step that excuses a copy is an `Excuse`, every
  other step leaves the courier alone.

`SendGovernorProofs`, from `GovernorLimits` and `GovernorBounds`:

- `RatesAlwaysKept`: the invariant adds that what left a deque is a window old
  (`PoppedAreOld`), that nothing is recorded ahead of the clock, and that no deque
  is over its count (`NeverOverfull`). When a time is recorded as the
  `Count + 1`st after another, that other one has left the deque, because an
  admitted request found room (`AdmittedHasRoom`), so it is a window old.
- `RetryAlwaysEnough`: from `NeverOverfull`, once the oldest time of a full deque
  has left its window there is room.
- `TypeCorrect`.

`ReleaseBatchesProofs`, from `ReleaseConstants`, for any feed, labels, users and
filters, and any number of faults and changes:

- `Invariance`: `IInv` has seven parts besides the types. `EtagCoversStored` needs
  that the validator of the response in hand stands for items that are stored or still
  in the queue (`FeedInv`). `WindowsDisjoint` needs that a batch which is not open any
  more, and each one this run has picked up to close, is a window old (`WindowInv`):
  an item joins an open batch or begins one, and when it begins one the last is at
  least a window back. `JobsAreNews` and `FrontierAdvances` need that a plan holds jobs of
  the episode of the batch at hand, each worth its delivery, that this batch is not
  superseded while they are enqueued (`PlanInv`), and that the number of an announced
  episode is that of a stored release (`JobInv`).
- `FeedAlwaysConsistent`, `BaselineAlwaysSilent`, `WindowsAlwaysDisjoint`,
  `JobsAlwaysNews`, `EpisodesAnnouncedOnce`: the parts, as theorems of `Spec`.
- `FrontierAlwaysAdvances`: a job that is new carries the highest available episode up
  to what has aired (`HighestExists`: a finite set of numbers has its greatest), so
  an announced one that has aired is lower, or is the same and then is not repeated.
- `EndAlwaysServesAll`: a step that ends the batch has an empty plan, and who is not in
  the plan has been told (`ServedInv`). The hypothesis `[][subscribed' = subscribed]_vars`
  is needed: one who subscribes between the decision and the end is not served.

The assumption that `Items` is finite is what a database is; the proof needs it for
the highest episode.

`PlannersProofs`, about the two planners of `Planners`. From `DigestConstants` (a digest
outlives its period: `Grace` is five minutes, so not 0):

- `DigestsAlwaysConsistent`: the arithmetic of days is in lemmas (`DayAndTime`,
  `ByTheMinute`, `OnePeriod`): a tick belongs to one period, the one found by the minute
  contains the moment or has just begun. With them a digest holds what was
  published in its period (`DigestInv`), so two have nothing in common.
- `QuietPeriodAlwaysHasDigest`: a period is `Ripe` when its releases stopped a quiet time
  and an iteration before its end. The worker comes by in its last `Scan` ticks
  (`ScanInv`); then the digest is there or is due, whatever the earlier scans saw (`RipeInv`).

From `AiringConstants` (the episodes are finitely many):

- `RemindersInvariance`: the readers in the planner's hand miss nobody who is
  subscribed, but for those who raced with it, and its event is one on which the
  sources agree (`PlannerInv`). So a new job has its audience, and a subscription whose
  command is over, or is older than the command at work (`Settled`), is in the
  audience of every job for an episode that begins after it (`AudienceInv`). A command
  may leave a job alone only if a lease has it, which is not before its time
  (`TakenInv`): then the episode has begun and nothing is claimed of it.
- `RemindersAlwaysConsistent`, `NeverInConflict`.

`ContentPollsProofs`, from `PollConstants` (the worker is none of the owner's requests and
none of the voters): there is one open poll because who inserts one holds the lock
under which it found none; a vote is written to a poll that was open when it was read,
because the writer holds the lock since (`LockInv`). So the votes of a closed poll do
not change (`ClosedForGood`), and what is counted of it is final (`CountInv`).
`PollsAlwaysConsistent`, `ResultsAreFinal`. `PollsKeepBallot`, the refinement, step by
step: the insertion of a poll is the ballot's `Open`, because no poll is open under the
lock; the write of a vote is its `Vote`, because the poll is still the one that was
read; the update that closes is its `Close`; the enqueueing of a result that is not
there yet is its `Announce`, because the poll is closed and was counted as it is. All
other steps leave the ballot alone.

`WorkerProofs`, about the three duties of `Worker`. From `OperatorConstants`: a handler is
started once more than there were faults, because a running job whose handler is not at
work was left there by a fault (`RunsInv`), and the job at the worker's hand is running
(`HandInv`). That the queue orders each enqueued job once is in its types (`QueueStep`).
`JobsAlwaysConsistent`, `EndedForGood`.

From `DiscoveryConstants` (finitely many shows; those on air soon have distinct places in
the order of the query, which breaks ties by the id):

- `LinksInvariance`: a step ends the run, comes to its next row, begins one or stays at its
  row (`RunMoves`), and only the second changes a cool-down upwards, that of the row it
  leaves. The rows of a run are different shows (`OrderFacts`, `RowFacts`: those on air
  soon are left out of the scan), so the rows to come have none (`RowsInv`). Who is about to
  add a link, worker or owner, has found none of any show, and adding one cannot
  surprise the other, because they are not about to add the same media unless they
  raced for it (`MediaInv`). A route that the bridge chose is no other show's until
  it is recorded, since only the worker records routes (`RouteInv`).
- `LinksAlwaysConsistent` (the budget and one show for each entry), `LeftAloneIsKept`.

From `CatalogConstants`:

- `CatalogInvariance`: between the two transactions of a first contact the subject has no
  show and the new show is among the shows (`ContactInv`). An entry gets a show only
  when it has none, so no show loses a source; a crash adds to those without one
  at most the show that was about to be linked (`ShowsInv`).
- `CatalogAlwaysConsistent`.

`GroupChatProofs`, from `ChatConstants`, `CommandsOK` and `PoliciesOK` (the shows are
finitely many; a command about a show that picks no number has a text, which
`parse_fixed_command` insists on):

- `Invariance`: for each message (`Sound`), what its handler needs (`IsReady`); who may
  still answer it (`IsHandedOver`: once it is answered, only the gateway, for a command
  that it will pass over); that a message is the model's from its turn to its end and
  the model reads only (`IsModels`); and that the guard's memory of the turn is what
  has happened in it (`TurnOf`), which is why `Grounded`, stated of the calls that
  were made, follows from a decision the code takes by the memory. Of each menu,
  that a search of its user left it (`MenuInv`).
- `ChatAlwaysConsistent`, `AlwaysGrounded`, `PicksAreOwn`, `HiddenIsNamedOnlyIfAsked`.
  One lemma per action (`StepArrive` to `StepWorld`) keeps `Sound` of the message that
  moves, `MessageStep` and `TurnStep` that of the others.

`PluginProofs`, about the parts of `Plugin`. `PartsOfPlugin` says that the composition
does what each of them does, so the theorems of `GroupPolicy!Spec` and
`WeeklyEssence!Spec` (and those of `SendGovernorProofs`) hold of what run `plugin`
checks.

- `SettingsInvariance`, from `PolicyConstants` and `EditsOK` (the digest's minutes are
  numbers): a row is the last of its versions, and what a writer remembers are versions
  that the row had, with an edit that was checked against one not older than the
  version he expects (`Remembers`). Versions only grow, so a write that finds the
  version it expects finds the row it read, and this is the row the edit was checked
  against. A chat command has no such check, and needs none: it turns switches and
  leaves the minutes alone (`SwitchesFit`). `SettingsAlwaysConsistent`,
  `TrailAlwaysTrue`, `NothingEverTakenBack`.
- `HonourInvariance`, from `EssenceConstants`: the messages that have the honour, that
  the rows of essences name, and the one at hand (`Held`) are no more than the
  mishaps, one for the reports of other weeks that are recorded as essence, and one
  for the report at hand where it may have a place of its own (`HeldInv`). Each step
  that adds a message to `Held` has a refusal, a lost answer, a fault or a late report
  to account for it, or takes the one place of the report before. All of it rests on
  no row being without its message; once one is (`Mute`), it hides every other from
  `Latest` and nothing more is claimed, as in `OneEssence`. That two rows never name
  the same message and the newest is the latest (`RowInv`) is what makes the counting
  right; `KnownInv` says which messages the rows tell. `EssenceAlwaysConsistent`,
  `HonourAlwaysPassesOn`.

The bounds `MaxClock`, `MaxFaults` and the like are any numbers in all of these.

Not proved: liveness (`LeasesEnd`, `NoStarvation`, `BatchesEnd`,
`EveryPollIsAnnounced`, `EveryJobEnds`, `EveryShowIsTried`, `AdultIsHidden`) is out of
the prover's reach and is checked by TLC. Every safety and action property that a
passing run checks is stated by a theorem.

## 15. Where the code and its documents disagree

Two of these are runs that end in a counterexample.

| Run | Code | Document |
|---|---|---|
| `sent_job_resent` | an exception after `complete_job('sent')`, in the publication or essence step, is answered with `complete_job('retry')`; the message is sent again | content operations design, 9: a report whose essence step failed is not sent again |
| `adult_show_announced` | reminders are planned for every followed show; neither planner nor query looks at the adult flag, which may be set after a user subscribed | multisource design, line 581: adult content appears neither in queries nor in notifications |

The following were seen while modelling and are not runs. Of the outbox, the planners
and the pipeline:

- `classify_delivery_exception` maps a timeout to a retry although the message
  may have arrived (`excused` in `Delivery` accounts for it); the multisource
  design, 16.3, excludes a repetition when the result is uncertain.
- `update_notification` checks that a job may be cancelled and later writes it
  without a lock or condition: a job leased in between is cancelled while it is
  being sent, which its own check is there to refuse.
- The preflight query returns 50 rows before the controls are consulted; that many
  due jobs of blocked groups hide all others (`NoStarvation` fails with a
  `RowLimit` below the number of due jobs).
- No code writes the status `expired`; an expired job stays `pending`.
- The global limit of the governor admits its whole burst in every window, a
  sustained rate of two messages per 2.5 seconds where the admin panel design,
  6.1, says one.
- When no stored episode lies at or below the last aired one, a batch of an
  episode that has not aired is announced (`Superseded` looks at stored episodes
  only); the nearest-resource design has the last aired episode as its bound.
- A rate limit opens the group's circuit; the console's resume closes the global one
  only (`admin_service.py:1209`) and nothing closes the group's, where
  `docs/operations.md` resumes delivery with the general switch.
- When releases go on until the cutoff, the digest is due at one instant that polling
  does not meet (`planning.py:66`; content operations design, 5.2.1: it is cut off at
  23:30). An owner who moves the cutoff moves the boundary of a period already in use.
- `_open_batch` compares the spelling of an episode and jobs its number: "01" and "1"
  have two batches, and the second one's releases and users are in no job
  (`module.py:403`; multisource design, 3.4).
- A crash between closing a poll and enqueueing its result leaves it unannounced: no
  query looks at closed polls. `EveryPollIsAnnounced` excuses it.
- An item dated ahead of our clock is stored as suppressed and not looked at again;
  a batch whose planning raises in every run ends each run before a feed is polled.
- The governor's capacity is taken before the claim and not given back; a burst of 0
  in the raw configuration makes a full window true of an empty one.

Of the chat, the catalogue and the console:

- A resend that fails, or a late record, hides all earlier essences for good
  (section 8).
- A number with the verb "search" searches for the empty text, which every title
  contains; entries 21 to 50 of a menu cannot be picked; a menu's time counts from
  the message's arrival; the order kept may differ from the order shown.
- Slash commands ignore a paused group. When a show turns adult between the two
  checks of `subscribe`, the repository raises and nobody answers. An owner's chat
  command that loses the compare-and-swap gets no answer either.
- Of two first writes to a settings row one fails with an integrity error, not with
  the conflict the console knows how to show. Quiet hours with one end raise.
- The scan for links stands still while shows on air soon use up the budget
  (AniList coverage design, decision 2: the rest of the budget goes on scanning the
  whole catalogue). A 404 of AniList aborts the run, and the next one starts at the
  same row. The settings admit a budget of 120, the table's check 30.
- With more than 100 Bangumi or 10 AniList entries, which of them a round refreshes is
  the database's choice (`cli.py:297`): some may never come round.
- The lease of an operator job begins with its iteration and not with the job
  (`cli.py:1006`, 1098), and attempts have no limit: a job that kills the worker, in
  iterations that outlast the ten minutes, starves all others.
- A projection reads the 200 newest snapshots (`cli.py:711`); a calendar of 100, 100
  Bangumi and 10 AniList refreshes, discovery, the timetable and jobs can together be
  more, also over rounds that ended before their projection. An adult flag that falls
  out waits for a refresh that the unordered `LIMIT` (`cli.py:297`) does not promise.
- `取消订阅` and `订阅设置` with a number or an id answer with the title of an adult
  show (`use_cases.py:788`, 826), and `映射待处理`, which `parser.py:16` calls a command
  of the owner and any member may give, lists adult shows with others
  (`use_cases.py:661`); the multisource design, line 581, has none of them in a query.

## 16. What is not modelled

- `core/operations/napcat_status.py`, the status monitor: three failures in a row
  turn the banner, one success turns it back; a counter in one task.
- Presentation and the poster cache: rendering of texts and cards, input and output
  without a protocol.
- Migrations and deployment, which run once.
- The adapters of Bangumi, AniList, AnimeSchedule and Mikan beyond what they return;
  the registration of Mikan and AnimeSchedule routes by the owner.
- What `subscription_settings` saves: the resource filters are constants (`Wanted`) of
  `ReleaseBatches`, whose users change in `Toggle`. Its answer is in `GroupChat`.
- The console's listings and pages, and `pause_group` and `resume_group` of the group
  settings, which nothing calls.
- Time zones and changes of the clocks, abstracted in `DailyDigest` to one local
  clock.

`MaxClock`, `MaxFaults`, `MaxAdmin`, `MaxChanges`, `MaxRestarts`, `MaxCalls`, `MaxSyncs`,
`MaxCommands`, `MaxJobs`, `MaxVersion`, `MaxWeeks`, `MaxMessages` and
`MaxRefusals` bound the runs and are guards of the actions they count; the theorems
hold for every value of those of their modules. `MaxLag`, the longest iteration in
ticks, is more than the lease and `Window` less than the number of entries' snapshots
in a round, so that neither bound decides a property. `Horizon` in
`SendGovernor` bounds how far ahead `RetryIsEnough` looks, `Period` in
`AiringReminders` how rarely the worker comes by.
