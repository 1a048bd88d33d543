--------------------------- MODULE ReleaseBatches ---------------------------
(***************************************************************************)
(* One Mikan feed of one anime, from the RSS items to the notification     *)
(* jobs: MikanReleasePipeline.run_once, called by the worker's loop.  A    *)
(* run first closes the batches whose window is over and plans their jobs, *)
(* then polls the feed when it is due and opens batches for new items.     *)
(*                                                                         *)
(* The worker is the only writer of releases, batches, feed state, release *)
(* jobs and airing schedule; users change their subscriptions at any time. *)
(* Each of the worker's transactions is one action; an exception or the    *)
(* death of the process comes between any two.  A batch is named after the *)
(* item that opened it.                                                    *)
(***************************************************************************)
EXTENDS Integers, FiniteSets

CONSTANTS
  Items,       \* RSS items of the feed (guid and content fingerprint)
  Label,       \* item -> episode_label of its parsed title
  Number,      \* label -> _episode_number of a label
  Unparsed,    \* episode_label = None
  Users,       \* users who may subscribe
  GroupOf,     \* user -> the group of the subscription
  Wanted,      \* user -> the items that pass the user's resource filter
  Window,      \* batch_window
  Fresh,       \* the 24 hours within which a release is news
  Poll,        \* poll_interval
  MaxDelay,    \* the hour at which the retry delay of a feed is capped
  Unaired,     \* no aired episode with a number is known
  NoTag,       \* feed state without an ETag
  NoTime,      \* last_success_at = NULL
  NoItem,      \* no batch
  PubOffsets,  \* pub_date of an item minus the time it appears in the feed
  MaxClock,    \* bound: the clock
  MaxFaults,   \* bound: exceptions and crashes
  MaxChanges   \* bound: changes of subscriptions and schedule

Labels == {Label[i] : i \in Items} \ {Unparsed}

ASSUME ReleaseConstants ==
  /\ IsFiniteSet(Items)
  /\ Number \in [Labels -> Nat]
  /\ Wanted \in [Users -> SUBSET Items]
  /\ Window \in Nat /\ Fresh \in Nat /\ Poll \in Nat /\ MaxDelay \in Nat
  /\ PubOffsets \subseteq Int
  /\ Unaired \notin Nat /\ NoTime \notin Int /\ NoItem \notin Items
  /\ \A S \in SUBSET Items : NoTag # S

VARIABLES
  clock,
  feed,          \* the items the site lists
  pub,           \* item -> its pub_date
  subscribed,    \* users with a subscription that has notify_resource
  aired,         \* the highest aired episode the schedule knows
  completed,     \* classify_subscription says the anime is completed
  release,       \* item -> status of its ResourceRelease row
  batch_of,      \* item -> its ReleaseBatchItem
  b_status,      \* batch -> its status
  b_start,       \* batch -> window_started_at
  jobs,          \* notification jobs of type release
  etag, last_success, next_poll, failures,   \* MikanFeedState
  pc, now,       \* the worker: its next step, its reading of the clock
  todo,          \* batch_ids of _close_ready_batches
  cur,           \* the batch being planned
  plan,          \* the groups still to be notified of it
  planned,       \* planned_groups > 0
  baseline,      \* baseline_only
  queue, tag,    \* the response: items not ingested yet and its ETag
  faults, changes

siteVars  == <<feed, pub>>
userVars  == <<subscribed, aired, completed, changes>>
batchVars == <<release, batch_of, b_status, b_start>>
feedVars  == <<etag, last_success, next_poll, failures>>
planVars  == <<todo, cur, plan, planned>>
pollVars  == <<baseline, queue, tag>>
vars == <<clock, siteVars, userVars, batchVars, jobs, feedVars, pc, now, planVars,
          pollVars, faults>>

Min2(a, b) == IF a <= b THEN a ELSE b

Init ==
  /\ clock = 0 /\ now = 0
  /\ feed = {} /\ pub = [i \in Items |-> 0]
  /\ subscribed \in SUBSET Users
  /\ aired = Unaired /\ completed = FALSE
  /\ release = [i \in Items |-> "none"]
  /\ batch_of = [i \in Items |-> NoItem]
  /\ b_status = [i \in Items |-> "none"]
  /\ b_start = [i \in Items |-> 0]
  /\ jobs = {}
  /\ etag = NoTag /\ last_success = NoTime /\ next_poll = 0 /\ failures = 0
  /\ pc = "idle" /\ todo = {} /\ cur = NoItem /\ plan = {} /\ planned = FALSE
  /\ baseline = TRUE /\ queue = {} /\ tag = NoTag
  /\ faults = 0 /\ changes = 0

-----------------------------------------------------------------------------
(* The world *)

Tick ==
  /\ clock < MaxClock
  /\ clock' = clock + 1
  /\ UNCHANGED <<siteVars, userVars, batchVars, jobs, feedVars, pc, now, planVars,
                 pollVars, faults>>

\* The site lists an item; its date may be older or ahead of our clock.
Publish(i, offset) ==
  /\ i \notin feed
  /\ feed' = feed \cup {i}
  /\ pub' = [pub EXCEPT ![i] = clock + offset]
  /\ UNCHANGED <<clock, userVars, batchVars, jobs, feedVars, pc, now, planVars,
                 pollVars, faults>>

\* subscribe, unsubscribe and settings of the chat commands.
Toggle(u) ==
  /\ changes < MaxChanges
  /\ changes' = changes + 1
  /\ subscribed' = IF u \in subscribed THEN subscribed \ {u} ELSE subscribed \cup {u}
  /\ UNCHANGED <<clock, siteVars, aired, completed, batchVars, jobs, feedVars, pc, now,
                 planVars, pollVars, faults>>

\* The worker's other steps change what is known of the schedule.
Schedule(a, c) ==
  /\ changes < MaxChanges
  /\ changes' = changes + 1
  /\ pc = "idle"
  /\ <<a, c>> # <<aired, completed>>
  /\ aired' = a /\ completed' = c
  /\ UNCHANGED <<clock, siteVars, subscribed, batchVars, jobs, feedVars, pc, now,
                 planVars, pollVars, faults>>

-----------------------------------------------------------------------------
(* Closing batches *)

\* _is_notification_fresh
IsFresh(i, t) == t - Fresh < pub[i] /\ pub[i] <= t

\* Mutant: a window is taken for closed as soon as its batch exists.
ReadyBatchesAtOnce(t) ==
  {b \in Items : b_status[b] \in {"open", "ready"} /\ b_start[b] <= t}

\* Mutant: only open batches are closed.
ReadyBatchesOpenOnly(t) ==
  {b \in Items : b_status[b] = "open" /\ b_start[b] <= t - Window}

\* The query of _close_ready_batches.
ReadyBatches(t) ==
  {b \in Items : b_status[b] \in {"open", "ready"} /\ b_start[b] <= t - Window}

\* _highest_available_episode: stored releases up to the last aired episode.
Available ==
  {n \in {Number[Label[i]] : i \in {k \in Items : release[k] # "none"
                                                    /\ Label[k] # Unparsed}} :
     aired # Unaired => n <= aired}

\* Mutant: only the schedule is looked at.
NotYetAired(b) == aired # Unaired /\ Number[Label[b]] > aired

\* The batch is not of the highest available episode.
Superseded(b) ==
  \E n \in Available : n # Number[Label[b]] /\ \A k \in Available : k <= n

\* Mutant: what was fresh when it was found is still taken for fresh.
NewsEver(b) == {i \in Items : batch_of[i] = b}

News(b) == {i \in Items : batch_of[i] = b /\ IsFresh(i, now)}

\* Subscribers whose filter accepts one of the batch's fresh releases.
Audience(b, g) ==
  {u \in subscribed : GroupOf[u] = g /\ Wanted[u] \cap News(b) # {}}

\* Mutant: only the jobs of this run are looked at.
NotifiedNow(g, n) ==
  \E job \in jobs : job.group = g /\ job.number = n /\ job.available = now

\* The group has a job for the episode.
Notified(g, n) == \E job \in jobs : job.group = g /\ job.number = n

Selected(b, g) == UNION {Wanted[u] \cap News(b) : u \in Audience(b, g)}

\* _plan_batch up to the first enqueue: what each group is to be sent.
PlanOf(b) ==
  {[group |-> g, number |-> Number[Label[b]], users |-> Audience(b, g),
    items |-> Selected(b, g), available |-> now,
    expires |-> Fresh + (CHOOSE p \in {pub[i] : i \in Selected(b, g)} :
                           \A i \in Selected(b, g) : p <= pub[i])] :
     g \in {h \in {GroupOf[u] : u \in Users} :
              Audience(b, h) # {} /\ ~Notified(h, Number[Label[b]])}}

StartRun ==
  /\ pc = "idle"
  /\ now' = clock
  /\ todo' = ReadyBatches(clock)
  /\ pc' = "close"
  /\ UNCHANGED <<clock, siteVars, userVars, batchVars, jobs, feedVars, cur, plan,
                 planned, pollVars, faults>>

\* Oldest window first: the batch is ready.
Close(b) ==
  /\ pc = "close"
  /\ b \in todo /\ \A k \in todo : b_start[b] <= b_start[k]
  /\ todo' = todo \ {b}
  /\ cur' = b
  /\ b_status' = [b_status EXCEPT ![b] = "ready"]
  /\ pc' = "decide"
  /\ UNCHANGED <<clock, siteVars, userVars, release, batch_of, b_start, jobs, feedVars,
                 now, plan, planned, pollVars, faults>>

\* A batch of a completed anime, of another episode than the highest available,
\* or with nothing new any more ends here.
Suppress ==
  /\ pc = "decide"
  /\ completed \/ Superseded(cur) \/ News(cur) = {}
  /\ b_status' = [b_status EXCEPT ![cur] = "suppressed"]
  /\ cur' = NoItem
  /\ pc' = "close"
  /\ UNCHANGED <<clock, siteVars, userVars, release, batch_of, b_start, jobs, feedVars,
                 now, todo, plan, planned, pollVars, faults>>

Decide ==
  /\ pc = "decide"
  /\ ~completed /\ ~Superseded(cur) /\ News(cur) # {}
  /\ plan' = PlanOf(cur)
  /\ planned' = FALSE
  /\ pc' = "enqueue"
  /\ UNCHANGED <<clock, siteVars, userVars, batchVars, jobs, feedVars, now, todo, cur,
                 pollVars, faults>>

\* Mutant: the first group is enough.
EnqueueFirst(job) ==
  /\ pc = "enqueue" /\ job \in plan
  /\ jobs' = IF Notified(job.group, job.number) THEN jobs ELSE jobs \cup {job}
  /\ plan' = {}
  /\ planned' = TRUE
  /\ UNCHANGED <<clock, siteVars, userVars, batchVars, feedVars, pc, now, todo, cur,
                 pollVars, faults>>

\* OutboxRepository.enqueue does nothing when the group has a job with the
\* episode's key.
Enqueue(job) ==
  /\ pc = "enqueue" /\ job \in plan
  /\ jobs' = IF Notified(job.group, job.number) THEN jobs ELSE jobs \cup {job}
  /\ plan' = plan \ {job}
  /\ planned' = TRUE
  /\ UNCHANGED <<clock, siteVars, userVars, batchVars, feedVars, pc, now, todo, cur,
                 pollVars, faults>>

\* The planning of the batch is over.
Finish ==
  /\ pc = "enqueue" /\ plan = {}
  /\ b_status' = [b_status EXCEPT ![cur] = IF planned THEN "planned" ELSE "suppressed"]
  /\ cur' = NoItem /\ planned' = FALSE
  /\ pc' = "close"
  /\ UNCHANGED <<clock, siteVars, userVars, release, batch_of, b_start, jobs, feedVars,
                 now, todo, plan, pollVars, faults>>

-----------------------------------------------------------------------------
(* Polling the feed *)

\* The end of a run: its local variables die.
EndRun ==
  /\ pc' = "idle" /\ now' = 0
  /\ baseline' = TRUE /\ queue' = {} /\ tag' = NoTag

\* _due_targets: somebody wants resources and the feed's time has come.
Due == subscribed # {} /\ next_poll <= now

EndClose ==
  /\ pc = "close" /\ todo = {}
  /\ IF Due THEN pc' = "fetch" /\ UNCHANGED <<now, pollVars>> ELSE EndRun
  /\ UNCHANGED <<clock, siteVars, userVars, batchVars, jobs, feedVars, planVars, faults>>

\* Mutant: only a feed without any state is a baseline.
BaselineOnly == last_success = NoTime /\ failures = 0

\* Nothing of the first successful poll of a feed is news.
Baseline == last_success = NoTime

\* The response: 304 when nothing changed since the ETag; a 200 may come without
\* an ETag.
Fetch(tagged) ==
  /\ pc = "fetch"
  /\ baseline' = Baseline
  /\ IF etag = feed
       THEN queue' = {} /\ tag' = etag
       ELSE queue' = feed /\ tag' = IF tagged THEN feed ELSE NoTag
  /\ pc' = "ingest"
  /\ UNCHANGED <<clock, siteVars, userVars, batchVars, jobs, feedVars, now, planVars, faults>>

\* _open_batch: the open batch of the label whose window has not passed.
Joinable(l) ==
  {b \in Items : b_status[b] = "open" /\ Label[b] = l /\ b_start[b] > now - Window}

\* A release that was stored before changes nothing.
Known(i) ==
  /\ release[i] # "none"
  /\ UNCHANGED batchVars

\* A title without an episode, an item of the baseline and old news are stored
\* and stay silent.
Store(i) ==
  /\ release[i] = "none"
  /\ Label[i] = Unparsed \/ baseline \/ ~IsFresh(i, now)
  /\ release' = [release EXCEPT ![i] = IF Label[i] = Unparsed THEN "unmatched"
                                                              ELSE "suppressed"]
  /\ UNCHANGED <<batch_of, b_status, b_start>>

Join(i, b) ==
  /\ release[i] = "none"
  /\ Label[i] # Unparsed /\ ~baseline /\ IsFresh(i, now)
  /\ b \in Joinable(Label[i]) /\ \A k \in Joinable(Label[i]) : b_start[k] <= b_start[b]
  /\ release' = [release EXCEPT ![i] = "batched"]
  /\ batch_of' = [batch_of EXCEPT ![i] = b]
  /\ UNCHANGED <<b_status, b_start>>

Open(i) ==
  /\ release[i] = "none"
  /\ Label[i] # Unparsed /\ ~baseline /\ IsFresh(i, now)
  /\ Joinable(Label[i]) = {}
  /\ release' = [release EXCEPT ![i] = "batched"]
  /\ batch_of' = [batch_of EXCEPT ![i] = i]
  /\ b_status' = [b_status EXCEPT ![i] = "open"]
  /\ b_start' = [b_start EXCEPT ![i] = now]

\* _ingest_item: one transaction per item of the response.
Ingest(i) ==
  /\ pc = "ingest" /\ i \in queue
  /\ queue' = queue \ {i}
  /\ Known(i) \/ Store(i) \/ (\E b \in Items : Join(i, b)) \/ Open(i)
  /\ UNCHANGED <<clock, siteVars, userVars, jobs, feedVars, pc, now, planVars, baseline,
                 tag, faults>>

\* Mutant: the feed state is written before the items are ingested.
RecordSuccessEarly ==
  /\ pc = "ingest"
  /\ etag' = tag /\ last_success' = now
  /\ failures' = 0 /\ next_poll' = now + Poll
  /\ pc' = "ingest"
  /\ UNCHANGED <<clock, siteVars, userVars, batchVars, jobs, now, planVars, pollVars, faults>>

RecordSuccess ==
  /\ pc = "ingest" /\ queue = {}
  /\ etag' = tag /\ last_success' = now
  /\ failures' = 0 /\ next_poll' = now + Poll
  /\ EndRun
  /\ UNCHANGED <<clock, siteVars, userVars, batchVars, jobs, planVars, faults>>

\* An exception while polling leaves what was ingested in place.
PollFails ==
  /\ faults < MaxFaults /\ faults' = faults + 1
  /\ pc \in {"fetch", "ingest"}
  /\ pc' = "failed"
  /\ baseline' = TRUE /\ queue' = {} /\ tag' = NoTag
  /\ UNCHANGED <<clock, siteVars, userVars, batchVars, jobs, feedVars, now, planVars>>

\* 2 ** min(failures, 4), for one failure and more.
Doubled(n) == <<2, 4, 8, 16>>[Min2(n, 4)]

RecordFailure ==
  /\ pc = "failed"
  /\ failures' = failures + 1
  /\ next_poll' = now + Min2(Poll * Doubled(failures + 1), MaxDelay)
  /\ EndRun
  /\ UNCHANGED <<clock, siteVars, userVars, batchVars, jobs, etag, last_success, planVars,
                 faults>>

\* An exception outside the polling of a feed, or the end of the process: the
\* next run begins at the beginning.
Interrupt ==
  /\ faults < MaxFaults /\ faults' = faults + 1
  /\ pc # "idle"
  /\ EndRun
  /\ todo' = {} /\ cur' = NoItem /\ plan' = {} /\ planned' = FALSE
  /\ UNCHANGED <<clock, siteVars, userVars, batchVars, jobs, feedVars>>

-----------------------------------------------------------------------------

WorkerStep ==
  \/ StartRun \/ Suppress \/ Decide \/ Finish \/ EndClose
  \/ \E b \in Items : Close(b)
  \/ \E job \in plan : Enqueue(job)
  \/ \E tagged \in BOOLEAN : Fetch(tagged)
  \/ \E i \in Items : Ingest(i)
  \/ RecordSuccess \/ RecordFailure

Next ==
  \/ Tick
  \/ \E i \in Items, offset \in PubOffsets : Publish(i, offset)
  \/ \E u \in Users : Toggle(u)
  \/ \E a \in {Number[l] : l \in Labels} \cup {0}, c \in BOOLEAN : Schedule(a, c)
  \/ WorkerStep
  \/ PollFails \/ Interrupt

Spec == Init /\ [][Next]_vars

\* Time passes and the worker's loop goes on.
FairSpec == Spec /\ WF_vars(Tick) /\ WF_vars(WorkerStep)

-----------------------------------------------------------------------------
(* Properties *)

TypeOK ==
  /\ clock \in Nat /\ now \in Nat /\ now <= clock
  /\ feed \in SUBSET Items /\ pub \in [Items -> Int]
  /\ subscribed \in SUBSET Users
  /\ aired \in Nat \cup {Unaired} /\ completed \in BOOLEAN
  /\ release \in [Items -> {"none", "unmatched", "batched", "suppressed"}]
  /\ batch_of \in [Items -> Items \cup {NoItem}]
  /\ b_status \in [Items -> {"none", "open", "ready", "planned", "suppressed"}]
  /\ b_start \in [Items -> Nat]
  /\ {etag, tag} \subseteq (SUBSET Items) \cup {NoTag}
  /\ last_success \in Nat \cup {NoTime} /\ next_poll \in Nat /\ failures \in Nat
  /\ pc \in {"idle", "close", "decide", "enqueue", "fetch", "ingest", "failed"}
  /\ todo \in SUBSET Items /\ cur \in Items \cup {NoItem}
  /\ pc \in {"decide", "enqueue"} <=> cur # NoItem
  /\ planned \in BOOLEAN /\ baseline \in BOOLEAN
  /\ queue \in SUBSET Items
  /\ faults \in Nat /\ changes \in Nat

\* A conditional request hides nothing: what the stored ETag stands for has been
\* stored, although each item and the ETag are written in transactions of their
\* own and any of them may fail.
EtagCoversStored ==
  etag # NoTag => \A i \in etag : release[i] # "none"

\* What is stored of a feed and its batches belongs together, between any two of the
\* run's transactions (module.py:324).
FeedIsConsistent == TypeOK /\ EtagCoversStored

\* Nothing is announced of a feed before it was read once to its end, however
\* often the first reading fails half-way.
BaselineIsSilent ==
  last_success = NoTime => \A i \in Items : release[i] # "batched"

\* Two batches of a label begin a window apart: no release falls between two
\* announcements of the same minutes.
WindowsDisjoint ==
  \A b, c \in Items :
    (b # c /\ b_status[b] # "none" /\ b_status[c] # "none" /\ Label[b] = Label[c])
      => (b_start[b] + Window <= b_start[c] \/ b_start[c] + Window <= b_start[b])

\* A job is enqueued only while it can still be delivered, and announces nothing
\* older than a day, although a batch waits and its planning may be repeated.
JobsAreNews ==
  \A job \in jobs :
    /\ job.items # {} /\ job.users # {}
    /\ job.available < job.expires /\ job.expires <= job.available + Fresh
    /\ \A i \in job.items : pub[i] + Fresh >= job.expires

\* A group hears of an episode once, from however many batches, runs and
\* repetitions after a fault.
OneJobPerEpisode ==
  \A j, k \in jobs : (j.group = k.group /\ j.number = k.number) => j = k

\* The announcements of a group go forward: no job is enqueued for an episode
\* below one that was announced and has aired.
FrontierAdvances ==
  [][\A job \in jobs' \ jobs : \A k \in jobs :
       (k.group = job.group /\ (aired = Unaired \/ k.number <= aired))
         => k.number < job.number]_jobs

\* A batch is not given up half-way: when it ends as the frontier, every group
\* with a subscriber who wanted one of its fresh releases has been told of the
\* episode (holds while no subscription changes between the decision and the end).
EndServesAll ==
  [][\A b \in Items :
       (b_status[b] = "ready" /\ b_status'[b] # "ready" /\ ~completed /\ ~Superseded(b))
         => \A u \in subscribed : Wanted[u] \cap News(b) # {} =>
              Notified(GroupOf[u], Number[Label[b]])]_b_status

\* Every batch ends, whatever failed on the way.
BatchesEnd ==
  \A b \in Items :
    (b_status[b] \in {"open", "ready"} /\ b_start[b] + Window <= MaxClock)
      ~> (b_status[b] \in {"planned", "suppressed"})

=============================================================================
