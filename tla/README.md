# A verification project for wazo-dird-optimogo

This directory holds TLA+ modules that model the OptimoGo plugins for the Wazo
platform, TLC configurations that check them on small instances, and theorems
about them, proved with TLAPS, for any number of threads, keys, phones, boxes,
accounts and recordings.

## 1. The system

The repository is four plugins for four daemons of a Wazo phone system. They
share no process and no state with each other.

| Part | Code | State it keeps | Operations |
|---|---|---|---|
| circuit breaker | `wazo_dird_optimogo/breaker.py` (used by dird and auth) | `_failures`, `_opened_at`, a lock | `allow`, `record_success`, `record_failure` |
| lookup cache | `wazo_dird_optimogo/cache.py` | an `OrderedDict` of (expiry, value), a lock | `get`, `set` |
| lookup engine and source plugin | `engine.py`, `plugin.py`, `http_client.py`, `mapping.py`, `exceptions.py` in `wazo_dird_optimogo/` | none but the cache and the breaker | `reverse`, `search`, `match_all` |
| input normalisation | `inputs.py` | none | skip rules, cache keys |
| dird view and admin form | `dird_view/`, `ui/` | none | declarations for frameworks |
| identity provider | `wazo_auth_optimogo/idp.py`, `http_client.py` | a breaker | `verify_auth` |
| dual-channel recording | `wazo_calld_optimogo/record.py`, `stereo_merge.py` | files in the recordings directory | `record_start`, `merge` |
| visual voicemail | `wazo_phoned_optimogo/http.py`, `voicemail.py` | none; wazo-calld and wazo-confd keep it | list, play, delete, mark, mark-all |
| call logs and shared missed list | `call_logs.py`, `queues.py`, `http.py` | none; wazo-call-logd and wazo-confd keep it | the combined and the three single lists |
| phone credentials | `wazo_phoned_optimogo/auth.py` | none; wazo-confd keeps endpoints, lines and users | `parse_broadworks_sip`, `resolve_user` |
| phone routes | `wazo_phoned_optimogo/routes.py` | none | `register`: which method and path ask for what |
| phone XML and wiring | `xml.py`, `plugin.py` in `wazo_phoned_optimogo/` | none | rendering, of which the links of messages matter |
| calld patch and agid shim | `wazo_calld_optimogo/plugin.py`, `agid_modules/` | a function replaced in the memory of the daemon | `Plugin.load`, the import of the shim |
| schemas, packaging | the rest | none | none the properties tell apart |

How they interact:

* **dird.** The worker threads of wazo-dird call one `OptimoGoSourcePlugin`
  object, which calls one `LookupEngine`. A lookup goes skip, cache, breaker,
  HTTP, mapping, cache. The engine has no lock. Each method of the breaker runs
  under the breaker's lock; the cache's methods take the cache's lock after they
  have read the clock. Nothing is locked from `allow()` to the report.
* **auth.** The threads of wazo-auth call `verify_auth`, which asks its own
  breaker, sends the token to OptimoGo, reports, and then lists wazo-auth's
  users.
* **calld and agid.** When its plugin loads, wazo-calld has its `record_start`
  replaced in memory, and wazo-agid its `_start_mix_monitor` when it imports the
  shim; a daemon whose patch fails or is disabled records the stock way. The
  patched function asks for a MixMonitor through wazo-amid or AGI. Asterisk writes the
  mono mix and two feeds and, when the recording stops, starts `stereo_merge.py`
  as a process of its own; sox is a child of that. The file system is all they
  share, with each other and with whoever deletes recordings.
* **phoned.** Each HTTP request of a phone runs in a thread. A rule takes it to a
  resource, three reads of wazo-confd take its SIP credential to a user, and then
  it either collects call logs or reads wazo-confd for the rights and wazo-calld
  box by box, and acts. Administrators, other phones, callers and the webapp
  change all of that between any two calls. Nothing is kept from one request to
  the next, so the user a request is served as is all that the second half takes
  from the first.

What is hard here, and where it is modelled:

| Behaviour | Where it bites | Module |
|---|---|---|
| late reports of overlapping calls, probes that outlive a cooldown | `breaker.py:27-41` | `CircuitBreaker`, `BreakerHistory` |
| never shut for good, recovery after an outage | `breaker.py:23-41` | `BreakerRecovery` |
| a clock read before the lock is taken | `cache.py:23, 38` | `TTLCache` |
| the cache at its limit with concurrent stores | `cache.py:42` | `TTLCache`, `BoundedMap`, `CacheHistory` |
| replies of overlapping lookups in one cache and one breaker, failures of every kind | `engine.py:85-98`, `http_client.py:31-62` | `LookupEngine` |
| users who change between OptimoGo's word and the listing | `idp.py:95-135` | `OptimoGoIDP` |
| kills, failures, a hanging sox, deletions, daemons that restart patched or not | `stereo_merge.py:68-129`, `plugin.py:36-45` | `StereoMerge` |
| requests of many calls over data and rights others change, calls that take effect and lose their answer, folders of a type the code does not know | `http.py:169-240`, `voicemail.py:107-129` | `VoiceMessages` |
| links under one spelling, rules under two, one place for keys and actions, keys built as texts and parsed again | `routes.py:29-81`, `xml.py:39-44`, `voicemail.py:71-85` | `XsiRoutes` |
| endpoint, line and user read one after the other, a header in which two texts are joined by a colon | `auth.py:92-144` | `PhoneCredentials` |
| members and feeds read one after the other, two limits, a fallback | `http.py:84-125`, `queues.py:74-92` | `CallLogs` |

`PROJECT.json` lists the hazards one by one, at their lines, with the properties
that cover them.

What makes each component correct:

* breaker: its two fields agree; an outage costs a bounded number of calls;
  probes are a cooldown apart; it recovers and never shuts for good.
* cache: bounded, one entry for a key, answers like a map, gives up only what
  expired or was used least recently.
* engine: what is cached is what a reply said, no longer than its ttl; each
  allowed request is reported at most once; each lookup returns.
* identity provider: fail-closed; the directory decides; what opens the breaker is
  failures of OptimoGo, and never the bad tokens or unknown emails of users.
* recording: the recording is never destroyed; the exit status tells the truth;
  nothing lingers; the merge ends.
* voicemail: the links of a list lead back to its messages, a list is complete, an
  answered mark has been applied, an existing message is not denied, nothing else
  changes, and nothing of a box the user could not read is seen.
* credentials: a phone is served as a user its credential led to, in that user's
  tenant, and a good credential whose password holds no colon is not refused.
* call logs: a miss of the reception shows on every member's phone as far as the
  limits let it, nobody sees a call of somebody they share no queue with, and a
  plain desk phone keeps its own list.

## 2. Modules

| Module | Models | State |
|---|---|---|
| `CircuitBreaker` | `breaker.py`, one action for each outcome of each method | `failures`, `openedAt` (`_opened_at`), the clock, `wire`: the callers between `allow() = True` and their report |
| `BreakerTimer` | abstract: a streak and a timer instead of a flag and a clock; unbounded time, finite states | `streak`, `elapsed`, `wire` |
| `BreakerRecovery` | the timer with a server behind it that goes down and comes up, and calls that meet it down | `streak`, `elapsed`, `wire`, `up`, `risky` |
| `BreakerHistory` | `CircuitBreaker` with an observer of probes and outages | `probing`, `probedAt`, `openSince`, `probes` |
| `TTLCache` | `cache.py`, two steps for each method: the clock, then the lock | `data` as a sequence of entries, `call`: what a thread carries from one step to the other |
| `BoundedMap` | abstract: a bounded map that chooses its victim freely | `stored`, `call` |
| `CacheHistory` | `TTLCache` with an observer of the order of uses | `since` |
| `LookupEngine` | composes a `TTLCache` and a `CircuitBreaker` with the control of `engine.py`, `http_client.py` and `plugin.py` | theirs, and for each thread `pc`, `job`, `answer`, `reply` |
| `OptimoGoIDP` | composes a `CircuitBreaker` with the control of `idp.py` and its client | the breaker's, `pc`, `email`, `outcome`, the usable accounts |
| `StereoMerge` | the patches of both daemons, `record_start` and `merge`, one step for each file operation | `patched`, the four files, and for each recording `dual`, `pc`, `answer`, `exit` |
| `XsiRoutes` | `routes.py`, the keys in a URL as they are built and parsed, the actions, the links of `xml.py` | none |
| `VoiceMessages` | the voicemail resources of `http.py`, one step for each call to another daemon; takes its requests from `XsiRoutes` | `folder`, `personal`, `shared`, and for each phone `request`, `pc`, `left`, `seen`, `todo` |
| `PhoneCredentials` | `auth.py`, one step for each read of wazo-confd | `auth`, `lineOf`, `userOf`, and for each phone `pc`, `header`, `at`, `line`, `user`, `tenant` |
| `CallLogs` | the call-log resources of `http.py`, `call_logs.py`, `queues.py`, one step for each call to another daemon | `log`, `queues`, and for each phone `pc`, `own`, `scan`, `comembers`, `left`, `heard`, `missed` |

`MCBreaker`, `MCBreakerRecovery`, `MCCache`, `MCCallLogs`, `MCCredentials`,
`MCEngine`, `MCIDP`, `MCStereo` and `MCVoice` instantiate them for TLC.
`BreakerProofs`, `CacheProofs`, `CallLogProofs`, `CredentialProofs`,
`EngineProofs`, `IDPProofs`, `StereoProofs` and `VoiceProofs` hold the theorems.

Notes on the abstraction:

* `LookupEngine` and `OptimoGoIDP` take the breaker's and the cache's actions
  by `INSTANCE`; `wire` is the set of threads that are on the wire. So whatever
  is proved of the two objects applies to their use, by `UsesBreaker` and
  `UsesCache`; `EngineProofs` and `IDPProofs` draw the consequences. The engine's
  two are checked and proved. The provider's `UsesBreaker` is proved only: the
  breaker takes any report of a call, so it cannot say which outcome has to be
  reported, which is what the run checks (`OnlyOutagesLockOut`).
* `reverse` and `search` are one operation, as they take the same steps and
  their keys differ in the tag. A skipped input returns at once and is no step.
* A reply and the report that follows it in the same thread are one step:
  nothing shared is read or written between them.
* `allow()` reads the clock twice in one critical section; the model reads it
  once, at the second reading, when the test of the first still holds.
* A read timeout of `requests` is per socket read, so a call stays on the wire
  for any time.
* `StereoMerge` lets sox write in two pieces, so that half a file exists, and a
  merge be killed before and after every file operation.
* `StereoMerge` lets a daemon restart, patched or not, at any time, and a
  recording be started by either; the agid shim's start answers nobody, which is
  the case `answer = "started"`.
* In `BreakerRecovery` a call may fail or go unreported if it met the server while
  it was down, however long ago that was, and else ends in an answer. So the end of
  an outage can be said without saying how calls end.
* A voicemail message is a pair of a box and an id, as ids are unique only in a
  box (`voicemail.py:71-85`). A folder is of type `new`, `urgent`, `old` or
  `other`, which stands for every type the code does not know: it counts as read,
  but is neither what a mark moves to nor where a caller's message arrives. A box
  may lack any of them. A call that moves or deletes may fail, with its effect
  (`AnswerLost`) or without (`BackendFails`).
* A path of `XsiRoutes` is a sequence of segments after the user's, and a segment
  a sequence of pieces between dots. A key is such a segment, built of a box and of
  an id, which may hold dots of its own, and split again at the first dot; one
  that does not split into the number of a box and a rest asks for a message that is
  not there, a 404 before anything is read. Names of actions come in the two
  capitalisations phones and documents use. `VoiceMessages` begins only requests
  some such path asks for. Its requests begin when the user is known: a request
  that is refused a user changes nothing.
* In `PhoneCredentials` a password, and what is sent before it, are sequences of
  words between colons, and the code takes the last word of the whole for the
  password. The name of an endpoint is one of its settings, and changes with them.
  An administrator's step changes one endpoint, one line or
  one user, within the rules wazo-confd keeps (`DirectoryOK`). That the user a
  call-log or voicemail request is served as is a constant of `CallLogs` and
  `VoiceMessages` is what `ServedByItsLine` stands behind.
* `CallLogs` follows the Missed list. Placed and Received are the rest of the
  user's own feed. A call has two times: `start`, by which wazo-call-logd cuts a
  feed, and `Wall`, what the timestamp reads, by which the code sorts. The two
  disagree when the clocks go back. Summaries of queues that carry the members
  are the case in which all `ReadQueue` steps follow each other.
* `BreakerHistory` and `CacheHistory` are conjunctions: a step of the object, and
  `Watch`, which writes down what that step shows.
* History variables (in those two, and `answered`,
  `evidence`, `unanswered`, `ever`, `always`, `steady`, `valid`, `linked`, `stuck`,
  `before`, `scanned`, `mates`) only watch.
* Definitions commented "mutated" stand for plausible bugs and are not part of
  any specification; each property has one that breaks it.

## 3. Runs

| Run | Module, configuration | Question | Distinct states |
|---|---|---|---|
| `breaker_outage` | `MCBreaker`, `MCBreakerOutage.cfg` | Do the fields agree, is the traffic of an outage bounded, and is the timer implemented, when calls overlap? | 43 244 |
| `breaker_recovery` | `MCBreakerRecovery`, `MCBreakerRecovery.cfg` | Does it recover once the server is back, whatever late calls of the outage still bring, and does it ever shut for good? | 776 |
| `cache` | `MCCache`, `MCCache.cfg` | Is the cache a bounded map, and does it keep what is in use? | 115 579 |
| `engine` | `MCEngine`, `MCEngine.cfg` | Does the engine use both objects by their protocol and store only what replies said? | 372 381 |
| `engine_returns` | `MCEngine`, `MCEngineReturns.cfg` | Does each lookup return? | 6 344 |
| `engine_broken_read` (fails) | `MCEngine`, `MCEngineBrokenRead.cfg` | Does a read timeout feed the breaker? | |
| `call_logs` | `MCCallLogs`, `MCCallLogs.cfg` | Is the shared Missed list what it promises to be, and the personal one kept, while calls and queues change? | 889 580 |
| `voice` | `MCVoice`, `MCVoice.cfg` | Do links, lists, marks, deletions and 404s tell the truth while others act and rights change, and is nobody else's box seen? | 952 464 |
| `credentials` | `MCCredentials`, `MCCredentials.cfg` | Is a phone served as a user its credential led to, and a good one whose password holds no colon never refused, while the directory changes? | 258 294 |
| `stereo` | `MCStereo`, `MCStereo.cfg` | Is the recording whole at each step, the exit status true, and does everything end and go, whoever started it? | 1 996 |
| `idp` | `MCIDP`, `MCIDP.cfg` | Does the directory decide, is the login fail-closed, and is the breaker open only for outages? | 267 000 |
| `idp_unparsable` (fails) | `MCIDP`, `MCIDPUnparsable.cfg` | Are all refusals `InvalidBridgeToken`? | |

### Bounds, and why they are enough

* **breaker**: three callers, so that a probe, a late success and a late failure
  may overlap; threshold 2, so that one failure is not yet an outage; a cooldown
  of 3 ticks, so that there are moments at, inside and beyond it; 12 ticks, time
  for four probes or for two outages. `failures` needs no bound: beyond the
  threshold each needs a probe, and probes need time. The theorems lift the
  bounds.
* **recovery**: four callers, so that three late failures can follow a success;
  threshold 3, cooldown 4, a server that goes down and up as often as it likes, and
  no bound on time, which appears only as the timer; so liveness is checked on
  infinite behaviours.
* **cache**: two threads, three keys and room for two, so that a store of a
  third key evicts while the other thread is between its clock and the lock;
  ttls 0, 1 and 2; clock up to 3, beyond every expiry that matters.
* **engine**: two threads and two keys in a cache of one entry, so that lookups
  evict each other; both ttls; threshold 2 and a cooldown of 1, so that an
  outage, its probe and an expiry fit within three ticks. `engine_returns` needs
  less: one key, a negative ttl of 0 (the step that does not store) and one tick.
* **voice**: three boxes, one with a folder of every type, `other` included, one
  with a `new` folder only (the 503) and one of another tenant, which may be shared
  there; four messages, two of them in one box, so that a mark-all is half done at
  some moment, and two of one id in different boxes, an id that holds a dot; two
  of them arrive in a behaviour. The phone's user
  may have any box of its tenant or none, and each box may be shared or not. One
  phone: what another does to a message is `MarkedElsewhere` and
  `DeletedElsewhere`. The theorems cover any number of phones.
* **credentials**: a name which an endpoint in each of two tenants may have, one
  after the other, so that what is read may be another's than what was listed, and
  a second name, so that an endpoint is renamed, and its authentication name is not
  always its own; a password, one with a colon whose end is the first, one that is
  not ASCII, and none; two lines and three users, two of them for one line and
  symmetric; headers with no, one and two words before the password, each of the
  passwords, without a name, and of another scheme. One phone, as phones change
  nothing here.
* **call_logs**: one phone (a request changes nothing another could see), two
  users, three queues of which two are looked at, so that each user may be in
  none, one or the one that is cut off; three calls and lists of two, so that a
  feed and the list can both be cut; the clocks go back between the second and
  the third call. Calls are from outside to one or both users, answered or not,
  and between the two; they are logged in any order.
* **stereo**: one recording, as recordings share no file (their names are
  uuids); all outcomes of all operations.
* **idp**: two threads, two emails, and two accounts of one email, of which one
  is of another tenant; three ticks of the clock.

Symmetry is used in safety runs only, over model values the specification treats
alike. `CHECK_DEADLOCK FALSE` stands in the configuration of `CircuitBreaker`,
where an open breaker may wait for the end of a cooldown that the bounded clock
does not reach, and in that of `StereoMerge`, where a recording is simply over.

### Fairness

* `BreakerRecovery!FairSpec`: time passes, a call ends (by its timeout), and every
  worker keeps asking. Nothing is assumed of the server: `NeverShutForGood` holds
  whatever it does, and `Recovers` asks only that it is up from some moment on,
  which fair behaviours can be; calls it failed before may still come in late.
* `LookupEngine!FairSpec`: a thread in a lookup goes on; none has to begin. A
  step on the wire is fair as each read has a timeout and a body is read up to a
  cap (`http_client.py:31-56`). The clock is not fair: no lookup waits for it.
* `StereoMerge!Spec`: a merge goes on; sox itself may hang, and only the timeout
  (`stereo_merge.py:36, 99`) gets out of that. Neither kills nor deletions are
  fair.
* Voicemail, call logs, credentials and the identity provider promise no more than
  safety here.

## 4. Where the code and its documentation disagree

Two runs check a sentence of the documentation and fail.

* `engine_broken_read`: `exceptions.py:10` says a read timeout feeds the breaker.
  A timeout of the body is urllib3's (`http_client.py:56`), is translated by
  nobody, and reaches only the safety catch of `plugin.py`: the breaker never
  hears of a server that sends headers and stalls.
* `idp_unparsable`: `idp.py:71-74` says `verify_auth` raises
  `InvalidBridgeToken`. A 200 of type JSON whose body is none raises
  `JSONDecodeError` out of it (`http_client.py:70-72`), unreported.

Smaller ones that no run is spent on: the design specification (line 178) says a
200 of unexpected shape is not cached and counts toward the breaker, while a body
that is JSON but no object resets the breaker and is cached as a negative answer
(`engine.py:43`, `WrongShape`); `exceptions.py:6-11` and `http.py:18-20` of phoned
say that whatever keeps a phone from its user is a 401, while a password that is not
ASCII raises `TypeError` in `hmac.compare_digest` (`auth.py:151`, `Incomparable`)
and an endpoint deleted between its listing and its reading an `HTTPError`
(`EndpointGone`), both a 500; `http.py:172-175` says the boxes are read by
wazo-calld's rule, while one that turns from shared to personal between the two
reads of the rights is in neither (`ListIsComplete` asks for the boxes that one
right covered all the while); `inputs.py:17-22` says the key of a number only
collapses formatting, while a plus that is not in front is lost, so that
`(+61) 3` and `61 3` share an entry though the request carries what was typed;
`breaker.py:8-10` says an open breaker
refuses for the whole cooldown, while a success of a call that was on the wire
before it opened closes it at once (what holds is `ProbeRate`, `OutageBudget`,
`ProbesAreSpaced`); `http.py:89-90` says an unanswered call shows on every
member's phone, while a feed is cut to 50 calls of all kinds before its misses
are picked; `call_logs.py:158` says newest-first, while timestamps of different
offsets are compared as strings (`SharedMissesAppear` states how far the shared
list can be relied on); `breaker.py:11` says a failure of a probe
restarts the cooldown, while the cooldown is counted from when the probe went
out (`ProbesAreSpaced` states what holds); the repository's README says the
engine "never raises", while `mapping.py` and a broken read raise through it to
the safety catch; a voicemail message that goes between the reading of its box
and the action on it is answered 500 (`WentMeanwhile`), as nothing catches the
client's `HTTPError`; a recording deleted while it is merged comes back, as
`os.replace` creates the name again; `auth.py:19-20` says the pair a phone sends is
the one it registers with over SIP, while of a password that holds a colon only
what follows the last colon is compared (`auth.py:92-97`: the comment there thinks
of colons in the name before it), so that the right password is answered 401
(`NeverFalselyRefused` is about the others, and `ServedByItsLine` counts as good
every reading of what was sent); a key is read back more freely than it is built, as
`int()` takes other spellings of the number of a box (`voicemail.py:78-85`).

## 5. Proofs

Assumptions are those the modules name, as weak as the code and its schemas
justify: a threshold, a cooldown and a cache bound of at least 1
(`schema.py:25-27`), ttls of at least 0, finitely many threads, keys, boxes and accounts,
folders of the four types, keys that are pairs of boxes and ids, ids and passwords
that are nonempty sequences of pieces, settings and headers made of the given names
and words, and markers (`Idle`, `Batch`, `NoMatch`, `None`) that are not
values. The provider's threshold and cooldown are constants of the code
(`idp.py:21-22`). The bound on the clock, `MaxTime`, may be any number, so every theorem of safety is
one about behaviours of any length.

* **`BreakerProofs`.** `Inv`, types with `OpenIffThresholdReached`, is inductive
  as it stands. It makes the refinement to `BreakerTimer` go through: the
  streak is `failures` cut at the threshold, and only with `Inv` do the flag and
  the streak say the same. `OutageInv` adds that a closed breaker has counted no
  probe and an open one knows since when; with it a probe pays for itself with
  the cooldown that has passed (`ProbeRate`), and each report takes from the
  wire what it adds to the failures (`OutageBudget`). `ProbeInv` adds that no
  probe is younger than `openedAt`, which is what keeps probes apart across a
  late success and a new outage. The observer of `BreakerHistory` only watches:
  a behaviour of the breaker with anybody who writes down what `Watching` says is
  one of `HSpec` (`WatchedBreaker`), so the three hold of a breaker that is part of
  something larger.
* **`CacheProofs`.** `CacheInv`: the sequence is a dictionary (one entry for a
  key), within its bound, and the calls carry typed readings. The lemmas say
  what removing, appending, and dropping the oldest entry do to the keys and the
  entries of a dictionary, and that it has as many keys as entries; from them
  each step maps to one of `BoundedMap`, where an eviction names its victim.
  `UseInv` adds, for the observer of `CacheHistory`, that whatever comes later in
  the sequence was used since whatever comes before it: so the victim, which comes
  first, has seen all the others and the new key used (`KeepsWhatIsInUse`), and an
  entry a get takes for expired has expired, as its reading of the clock is old.
  `WatchedCache` says of this observer what `WatchedBreaker` says of the other.
* **`EngineProofs`.** `LocalInv` (where threads are, and that what is stored has
  a key) is enough for `UsesBreaker` and `UsesCache`: every step is one of the
  objects' steps or leaves them alone. The cache's types are then not proved
  again: `CacheProofs` is instantiated, and its theorems cited, once
  `CacheAssumptionsHold`. `AccountInv` follows an answer from the reply through
  the thread and the set in progress into the cache, which is why
  `CacheProvenance` and `TtlRespected` hold though overlapping lookups store
  over each other. What was proved of the two objects alone is then carried over:
  `SameBreaker` and `SameCache` show that the engine's part of them is what
  `BreakerProofs` and `CacheProofs` speak of, with `At("wire")` for the callers on
  the wire, and their theorems are cited (`EngineBreakerAgrees`,
  `EngineImplementsTimer`, `EngineOutages`, `EngineCacheIsMap`,
  `EngineKeepsWhatIsInUse`). So whatever lookups, batches, refused keys and broken
  reads do, an outage costs the plugin a bounded number of calls.
* **`IDPProofs`.** `IdpInv` says what evidence a call has at each step;
  `DirectoryDecides` needs that a cardinality of one is a singleton. The breaker's
  guarantees are carried over as in `EngineProofs` (`ProviderBreakerAgrees`,
  `ProviderImplementsTimer`, `ProviderOutages`), unparsable replies included, as
  every step of the provider is one of the breaker's (`ProviderUsesBreaker`).
  `LockOutsAreOutages` says what those steps report: the counter of the breaker is
  the length of the run of failures of OptimoGo since it last answered
  (`unanswered`), whatever the tokens and the directory were.
* **`StereoProofs`.** `MergeInv` says which outcome is decided at which step,
  what `out.wav` is by then, that both feeds are whole from the check to the
  replacement, which files the finally clause has dealt with, and that a
  recording that was started the stock way never gets there.
* **`VoiceProofs`.** `VoiceInv` follows one phone's request: `Course` (where it
  is and what it may act on), `Owns` (what is still to be read was readable at
  some moment, in the user's tenant, and so was the box of what has been seen)
  and `Knows` (each undisputed message is still to be read, still to be moved, or
  has been seen or moved). That the others leave this alone is one lemma
  (`UndisturbedKeeps`): whoever touches a message takes it out of the phone's
  `steady` set in the same step, and while the rights are read a right that goes
  takes its box out of `always` (`RightsKept`). The section on routes lists the
  rules and what their paths look like (`RulesListed`, `RuleShapes`), and a key that
  was built is parsed to the message it was built for (`KeyParsed`); as a key has
  at least two pieces and a word one, no path fits two rules that ask for different things
  (`RequestsMeanOneThing`), both spellings of the collection serve the same
  (`SpellingsAgree`), every request of the resources has a path that asks for it
  (`EverythingCanBeAsked`), and so the links of a list lead back to its messages
  (`LinksHold`). `EveryRequestIsShort` counts the calls a request may still make:
  a box that has been read is not read again, the messages to act on are of boxes
  that have been read, and each of its steps lowers the count, which is at most
  two more than there are boxes and messages. That is the part of its ending that
  needs no fairness.
* **`CallLogProofs`.** `CallInv` follows one request for call logs: `Course`,
  `Concerned` (who has been found in a queue shares one with the user, by
  `mates`, and what has been heard is of them) and `Keeps` (each miss of
  the own feed is in the personal list unless the feed's limit cut it, and only a
  user with queue mates is shown the other list). `CutStays` says that a feed that
  has cut a call goes on cutting it as calls are logged. `Gathers` follows a miss
  that is to be shared: a colleague who is in a queue with the user all the while is
  in a queue still to be looked at or has been found, and a call for the colleague
  is in a feed still to be read, or has been heard, or was cut. That the sorted
  list, cut again, leaves out only calls with a full list of later ones before them
  (`CutForLater`) is shown from the least of the times among the later calls that
  were cut, as everything later than that one is shown. `ListsAreCut` needs that no
  two logged calls are of one time (`FitsInv`), by which the order is total.
* **`CredentialProofs`.** The invariant says of a request past a read that the
  link it has read is in the history (`valid`, `linked`), and that a chain that
  has held all the while (`steady`) is the one it follows; wazo-confd's rule that
  a name has one endpoint is what makes the listing find it. For a password
  of one word, what follows the last colon is the password that was typed in, and
  this is where `GoodCredentialsPass` needs that it holds no colon.

What stays with TLC: liveness (`Recovers`, `NeverShutForGood`,
`EveryLookupReturns`, `MergeEnds`), which rests on fairness and so is outside
what TLAPS is used for here, and the two properties that fail. Every other
property of a run is a theorem.

## 6. What is not modelled

* **Input normalisation** (`inputs.py`): pure functions on strings. The engine
  takes a key as given, and a key is a model value.
* **Power loss**: `StereoMerge` lets processes be killed. Nothing is flushed before
  `os.replace` (`stereo_merge.py:95-118`), so what a disk holds after the machine
  went down is the file system's business. So is the exit with 2 for wrong
  arguments, before anything is touched (`stereo_merge.py:147-152`), left out.
* **Calls without a time of their own**: no two calls of `CallLogs` begin at one
  moment, and each has a start. The code takes an empty text for a missing one,
  which sorts last, and keeps calls of one time in the order of the feeds
  (`call_logs.py:167`).
* **Base64, the syntax of the Authorization header and of URLs**: a header is the
  values it holds, garbled or missing ones included; a URL is its segments.
* **Contents of mapped answers**: who is named, and how; an answer is a model
  value that names somebody or nobody.
* **`load`, `unload`, schemas**: configuration; the ranges are the assumptions.
* **XML (but for the links), wiring of phoned, dird view, admin form,
  packaging**: formatting and registration, without state. The service token of
  phoned's clients is renewed by phoned itself.

## 7. Plan

Done: the breaker, the cache, the engine that joins them, the identity provider,
the recordings with both patches, and of phoned the routes, the credentials, the
voicemail and the call logs, with their runs and theorems.

To come, in this order:

1. An abstract specification of a request over data that changes, which
   `VoiceMessages`, `CallLogs` and `PhoneCredentials` implement: each answer is
   a state between the one it began in and the one it ended in.
2. `inputs.py` and `classify` as operators, checked against reference
   definitions over small inputs.

## 8. Running it

    tlc -config MCCache.cfg MCCache.tla      # any run: its module and configuration
    tlapm CacheProofs.tla                    # any proof module

A run takes from a second to about three minutes with two workers, and a proof module
up to two minutes.
