# Verification of the POS event system

A point-of-sale dashboard, an API, Kafka, PostgreSQL and two consumers (one in
Python, one in Node.js) that run configurable plugins on every event. This
directory holds TLA+ models of the parts whose behaviour depends on the order of
steps, on failures and on restarts, the TLC configurations that check them on
small instances, and TLAPS proofs for every instance. Paths are relative to the
repository.

## Inventory

| part | state | operations | interacts by |
|---|---|---|---|
| plugin table and management API (`api/routes.py`, `api/database.py`, `db/init.sql`) | rows of `plugins`, `event_log` | `GET`/`PUT /plugins`, `GET`/`DELETE /events` | SQL, HTTP |
| configuration stores (`consumer-node/src/configStore.js`, `consumer-python/config_store.py`) | a cache of one consumer's rows, a timer or a thread | start, poll, install, stop | SQL; read by the plugin loop in between |
| Node.js consumer (`consumer-node/src/index.js`) | loop position, kafkajs's resolved and committed offsets | deliver, plugin loop with retries, dead letter, execution log, shutdown | Kafka, SQL, the store |
| Python consumer (`consumer-python/main.py`) | the same, and two producer queues | the same, with auto-commit | Kafka, SQL, the store |
| plugin loaders, bundled plugins | the list of plugins | `handle`, `matches` | called by the loop |
| API authentication (`api/auth*.py`, `api/middleware.py`) | `refresh_tokens` | login, refresh, logout | HTTP, SQL, Kafka |
| dashboard session (`frontend/src/api.js`, `context/AuthContext.jsx`) | tokens in memory and in browser storage, a queue of waiting requests | interceptors, refresh, forced and automatic logout | HTTP, browser events |
| POS terminal and its API routes (`PosTerminal.jsx`, `api/event_routes.py`) | step, cart, totals, receipt | one request per step, each publishing one event | HTTP, Kafka |
| dashboard pages (`App.jsx`, `PluginCard.jsx`, `SettingsEditor.jsx`, `EventLog.jsx`) | polled copies, a settings draft | toggle, save, clear | HTTP |
| time tracker (`timeTracker.js`) | session start and total in browser storage | start, end, summary | called by the session |
| generator (`generator/`) | none that lasts | burst, continuous | Kafka |
| health servers, deployment | a flag; static | none | none |

What is hard here, and what must hold:

* **Delivery.** A consumer may die, be stopped, lose its group membership or have
  a dead letter refused between any two steps. The Node.js consumer promises
  at-least-once, in-order delivery to every plugin. The Python consumer
  acknowledges before it works: what it may lose has to be pinned down.
* **Retries and dead letters.** Attempts are counted, end, and are followed by a
  dead letter of the right plugin and event. A failing plugin must not stop a
  partition.
* **Configuration.** Rows change, fetches overlap or fail, PostgreSQL comes and
  goes; the cache should follow the table and never move back.
* **Session.** Several tabs share one local storage and keep their tokens in module
  variables. All requests of a page that meet a 401 wait for one refresh; the
  server rotates refresh tokens without a lock. Nobody may be left waiting, and a
  user may not vanish without a reason.
* **Terminal.** A request that timed out may still be handled, and the clerk may press
  the button again; rules change under a sale. Events, feed, totals and receipt
  must belong to the sale in hand.
* **Administration.** Polls overlap, saves are made from stale lists, drafts are
  overwritten by polls, several admins write at once.
* **Event flow.** What order a consumer sees depends on the keys the producers choose.

`PROJECT.json` lists each hazard at its line with the properties that cover it, or the
reason why none does.

## Modules

| module | models | extends |
|---|---|---|
| `PluginTable` | the rows, `PUT /plugins/{id}`, database outages | |
| `ConfigStore` | `configStore.js` and `config_store.py`: one reply in flight per fetcher | `PluginTable` |
| `Consumer` | what `index.js` and `main.py` have in common, composed with the store, the table and Kafka | `ConfigStore` |
| `OrderedDelivery` | abstract: what a consumer promises that acknowledges what it has done | |
| `EagerDelivery` | abstract: what a consumer promises that acknowledges what it has taken | |
| `ConsumerNode` | `index.js`: when an offset counts as consumed, the awaited dead letter | `Consumer` |
| `ConsumerPython` | `main.py`: auto-commit, the producers' queues, the fatal error | `Consumer` |
| `TokenService` | `auth_routes.py`, `auth.py`: access tokens and rows of `refresh_tokens` | |
| `SessionClient` | `api.js`, `AuthContext.jsx`, `Login.jsx`: tabs and their requests, composed with the token service | `TokenService` |
| `EventRoutes` | `event_routes.py`: the routes of a sale and the producer they share | |
| `PosTerminal` | `PosTerminal.jsx`, `PosTerminalContext.jsx`, `RulesPanel.jsx`, composed with the routes | `EventRoutes` |
| `PluginAdmin` | `App.jsx`, `PluginCard.jsx`, `SettingsEditor.jsx` over the table | `PluginTable` |
| `EventFlow` | `generator/`, the partitions of `pos-events` | |
| `Pipeline` | the generator, the topic and a consumer of which only `OrderedDelivery` is known | `EventFlow` |
| `ConfigStore_proofs`, `Consumer_proofs` | theorems and lemmas about the shared modules | |
| `ConsumerNode_proofs`, `ConsumerPython_proofs` | theorems about the two consumers | `Consumer_proofs` |
| `SessionClient_proofs`, `PosTerminal_proofs`, `PluginAdmin_proofs` | theorems about the module of that name | that module |
| `EventFlow_proofs` | theorems about the generator and the pipeline | `Pipeline` |
| `MC...` | instances for TLC: the seeds of `db/init.sql` cut down | |

**Table.** `table` is the committed rows with a version that counts commits, so
that copies can be compared by age; the version is not in the code. An update
replaces the parts the request names (`Patched`, `database.py:51`). `dbUp` is
whether PostgreSQL accepts connections; every reader and writer asks it.

**Stores.** `cache` is the map the plugin loop reads. `Select(c)` is the database
evaluating a SELECT, `Install(c)` the callback (Node.js) or thread (Python) going on
and replacing the map with the rows, `FetchFails(c)` its error handler. The two
stores do the same and differ in who may be fetching: `setInterval` does not wait
for the fetch before, so `Fetcher` is the set of pool connections, each of which
may hold a reply; the Python store has one thread, so `Fetcher` has one element.
`map` gives the lines of `configStore.js`; `ConsumerPython!Poller` names those of
`config_store.py`.

**Consumers.** `pc` follows the one message in hand: `idle` between messages,
`plugins` at the top of the plugin loop, `attempt` inside `handle()`, `dlq`
before the dead letter, `record` before the INSERT. `Deliver`, `Skip`,
`Dispatch`, `HandleOk`, `HandleFail`, `SendToDlq`, `LogPluginExecution` and
`ResolveMessage` (Python: `EndOfLoop` alone) are the loop, one action between two
awaits or blocking calls. The loops of the two programs are the same statement by
statement, so they are one module, mapped to `index.js`; the lines of `main.py` are
given for the actions of `ConsumerPython` that use it. A unit of *work* is a plugin's duty towards one message; the sets
`skipped`, `failed`, `handled`, `dlq`, `eventLog` record what became of it. All
of them but `dlq` and `eventLog` are observations for the properties, and no
guard reads any of them.

* Kafka is external. A partition is a sequence, `position` is the client's
  offset, `committed` the group's. kafkajs resolves an offset when `eachMessage`
  returns and commits resolved offsets between messages; librdkafka, with
  `enable.auto.commit`, stores it when `poll()` returns and commits from a thread
  of its own at any time. That one difference makes the two consumers' guarantees
  different.
* A Python `produce()` puts the message in `outbox`; from there the broker takes
  it (`OutboxDelivers`) or librdkafka gives it up (`OutboxExpires`).
  `flush(timeout=5)` only waits, and its result is ignored, so the loop goes on in
  either case.
* What each of them promises is a module of its own. `ConsumerNode` implements
  `OrderedDelivery`, where work is settled in order and then acknowledged.
  `ConsumerPython` implements `EagerDelivery`, where an event is taken, then worked
  on, and what is in hand or with a sender at the end is lost.
* `Crash` may come at any step and keeps only what the broker and the database
  have. `Rejoin` is a lost membership: positions fall back to the commits.
  `Exit` is the signal handler's shutdown, with its last commit made or not.
  `SendToDlqRaises` leaves the Python loop through its `except` clause, and
  closing the consumer commits.

**Session.** A call is one request of `apiClient`, from its start to its end in the
page. Its `pc` says where it is: `sent`, `queued` in `failedQueue`, or refreshing
(`posted`, `selected`, `rotated`); all callbacks of one answer are one action,
because nothing else runs in the page meanwhile. `memory[t]` and `refreshing[t]`
are the module variables of the page in tab `t`, `storage` the local storage of all
tabs. `POST /auth/refresh` is two actions, `SelectRow` and `RotateRow`, because the
row is read without a lock; the second is carried out even if the page has gone
(`orphan`). `Unauthorized` is the 401: the token is refused, or the password was
wrong, which the interceptor treats alike. `Close` and `Open` are a tab's reload,
with the restore effect. `logout` is modelled as it runs: its `endSession` branch
tests the user of the first render, null (`AuthContext.jsx:19`), and is never taken.
`excused` and `holders` are history: why a page may lose its user, and which page
loads got tokens of a sign-in.

**Terminal.** `call` is the one request a page awaits, which is its loading flag;
`Handle` is the route building the event and calling `produce()`, `Answered` the end of
`flush(timeout=5)`, whatever is left in the queue. Each handler is an action up to
its await and an action after it. `Abandoned` is the 8-second limit of `apiClient`:
the request moves to `late` and is handled at any later time, or was already. A
handler goes on with the rules it was rendered with (`seen`). A transaction's id is
the place of its first event. Prices are cents; the sums are folds over the cart.
`SignOut` unmounts the provider. `watched` is history: the fraud rule has been on,
unchanged, since the start of the sale.

**Administration.** A slot is a request for the list in flight: `App.jsx` asks every 5
seconds and after each save without waiting for the answer before, and answers are
shown in the order they come. `Loaded` includes the effect of each editor, which
overwrites its text since every list brings new settings objects. `saving[p]` is the
card's flag with the request it waits for; `SaveFails` is the alert, after which the
request may still be handled (`late`). `OtherAdmin` writes through the same route.
`wanted` is history: the rows as the requests of all admins ask for them.

**Event flow.** A transaction is its seven kinds of events in the order they are made
up, each under its key (`Key`); the producer's queue keeps the order of a partition
(`Foremost`), an event may expire, and `flush()` has no limit. A signal clears
`running`, which continuous mode reads between transactions and a burst never.
`Pipeline` puts a consumer behind the topic, by an instance of `OrderedDelivery` over
the lengths of the partitions: `settled` and `acked` are its state, `Read` its steps.
That is all the properties need to know of a consumer, and `ConsumerNode` implements
it, so they hold of the Node.js consumer behind the generator, whatever restarts,
redeliveries, retries and dead letters it has.

**Variants.** An operator commented "Variant" is a plausible wrong version of the
one after it, used by nothing. Putting it in the other's place makes the property
`PROJECT.json` names for it fail: that is how each property is known to depend
on the code.

## Runs

| run | instance | checks |
|---|---|---|
| `node_delivery` | 2 partitions, 2 plugins, 2 events in total, 2 boots, 1 fault, 2 attempts, outages, rules fixed | `TypeOK`, `NoLostWork`, `InOrder`, `DeadLetterJustified`, `OnceWithoutTrouble`, `ImplementsDelivery`, `MessageEnds` |
| `node_progress` | 1 partition, a failing plugin, 2 events, 1 boot, 1 fault, 2 connections of the store, one update of the rules | `CatchesUp`, `CacheConverges` |
| `node_config_order` | the store alone, 2 connections | `CacheNeverRegresses`, violated |
| `node_writer` | the writer alone, rules fixed | `WriterPersistsAll`, violated |
| `python_restarts` | 1 partition, writer and publisher, 2 events, 2 boots | `TypeOK`, `DeadLetterJustified`, `LossIsConfined`, `FirstMetInOrder`, `ImplementsEagerDelivery`, `MessageEnds` |
| `python_progress` | a failing plugin, 2 events, 1 boot, 1 fault, one update | `ImplementsEagerDelivery`, `CatchesUp`, `CacheConverges`, `CacheNeverRegresses` |
| `python_dead_letters` | a failing plugin | `ExhaustedReachesDlq`, violated |
| `terminal_sale` | 2 items, 3 in a cart, 6 events, a broker lapse, a refused or abandoned request, 3 changes of the rules | `TypeOK`, `StepsArePrepared`, `FeedIsFaithful`, `ChargedForTheCart`, `ReceiptIsBacked`, `SpikesAreAlerted`, `AlertsAreJustified`, `SuggestionsFollowTheCart` |
| `session` | 2 tabs, one with 2 requests in flight, 3 token pairs, a reload of each tab, a lost answer, an expired token | `TypeOK`, `WaitersHaveALeader`, `ForksNeedTwoPages`, `OwnTokenIsGood`, `SignInLasts` |
| `dashboard` | 1 card, 2 requests for the list in flight, 3 versions, one request given up, outages | `TypeOK`, `EditorFollowsTheList`, `OtherColumnIsKept`, `ListConverges`, `SavingEnds` |
| `generator_keys` | 2 transactions, 2 partitions, continuous, at most one event lost, 1 plugin | `KeyedEventsInOrder`, `FinishesUp` |
| `generator_order` | 1 transaction, 2 partitions, a burst | `TransactionsInOrder`, violated |

What they show:

* `NoLostWork`: the group's commits never run past an event some plugin has not
  handled, dead-lettered or passed over. `InOrder`: no plugin is started on an
  event of a partition before every plugin is done with the earlier ones, which
  is the ordering the README promises for a transaction. `OnceWithoutTrouble`: a
  duplicate has a cause (restart, refused dead letter, lost membership).
  `ImplementsDelivery` is the same as a refinement of `OrderedDelivery`.
* `LossIsConfined`: acknowledging first costs the Python consumer at most the rest
  of the one event in hand and the messages in its producers' queues, never
  another event. `FirstMetInOrder` is the order that survives of it.
  `ImplementsEagerDelivery` is the whole of what it promises, as a refinement.
* `MessageEnds`: every step on the message in hand leaves less to do on it
  (`StepsLeft`), whatever fails and however the rules change meanwhile.
* `CatchesUp`: retries end and dead letters let the partition go on.
* `CacheConverges`: overlap and failures do no lasting harm.
* `StepsArePrepared`, `FeedIsFaithful`, `ChargedForTheCart`: a request that is given up,
  handled late or repeated never puts an event before every event of the kind it builds
  on, never makes the feed show another sale's events, and never charges for another
  cart. That is not the order of the steps; see below. `ReceiptIsBacked` holds as long
  as the broker does not lapse.
* `SpikesAreAlerted`: exactly the items above the threshold have alerts, as long as no
  request is lost and the rule is left alone. `AlertsAreJustified` has no such
  condition: whatever the rules do while a handler waits, an alert counts no more of an
  item than its transaction has.
* `SuggestionsFollowTheCart`: the add-ons are those of the last item in the cart, even if
  its fraud alert fails. While that alert is awaited the new line is on the screen
  already (`PosTerminal.jsx:142`) and the add-ons are still those of the line before it
  (line 177); the property says so instead of leaving the moment out.
* `WaitersHaveALeader`: whichever way a refresh ends, nobody waits in `failedQueue`
  without one request of the page refreshing. `ForksNeedTwoPages`: the unlocked
  rotation gives two good tokens to one sign-in only if two page loads held it.
  `OwnTokenIsGood`: a page left alone never keeps a worthless refresh token.
  `SignInLasts`: no user is signed out without a logout or a failed refresh.
* `OtherColumnIsKept`: `PUT` patches one column, so saves from stale lists do no harm
  to the other; `ListConverges`: overlapping answers do no lasting harm;
  `SavingEnds`: no card stays disabled.
* `KeyedEventsInOrder`: the plugins are done with the events that carry a transaction's
  id in their order, whatever is not delivered and however the partitions interleave.
  `FinishesUp`: the generator exits with nothing queued and no burst cut short, whenever
  it is signalled.

**Bounds and why they are enough.** Two events put a next event behind the one in
hand, and two partitions add one that interleaves with it. `MAX_RETRIES` is 2
where the code has 3: the first attempt, the last, and the step between. Two
boots give one restart at every step of the first life; one fault, at every place
a fault can be. `node_progress` and `python_progress` have one boot: their properties
are about a life that lasts, and a later one starts as the first, with less to do. Two plugins make work that comes before and work that comes after
in the same message, one of which cannot fail. Symmetry is used for partitions
only, and only in `node_delivery`, which has no liveness property. The counters
`boots`, `faults` and `table.ver` are capped in guards by `MaxBoots`,
`MaxFaults`, `MaxVersion`, and the topic by `MaxEvents`. `CHECK_DEADLOCK FALSE`
stands in the consumer configurations because a process that has used up its
boots really stops.

`terminal_sale`: two items are one with add-ons and one without, three lines in a cart
are a line with add-ons followed by two of another item, the second of which is above
the fraud threshold of 1, so that an alert is awaited while older add-ons are shown; six
events are one sale of five steps with a line or request more, or the beginnings of two
sales. Three changes of the rules switch both rules on and one of them off again, or off
and on. The age rule is not switched: it only keeps an item from being clicked. One
request in trouble can be any of them. `session`: two calls in one tab are a leader and a
waiter, a third in the other tab a rival over the same storage; three pairs are a
sign-in, its rotation and a fork of it or a second sign-in. Its two calls of one tab
are interchangeable, and the run has no liveness property. `dashboard`: two requests for
the list are enough for answers to overtake each other, two updates for a stale list
to meet a save. `generator_keys`: one transaction's keys are at home on the partition of
its employee, the other's on the other one; the events of two transactions can be on one
partition at once, and one undelivered event can be any of them (the constraint
`AtMostOneLost` of `MCPipeline`, a cut of the state space and no part of the model).
`terminal_sale`, `session`, `generator_keys` and `generator_order` do not check for
deadlock, because a used-up budget of events, reloads or transactions, or the
generator's exit, really stops them; `dashboard` does, because its interval goes on.

**Fairness.** Weak fairness of the process's own step (`Consume`), of each reply
of the Node.js store (`Store(c)`), of the Python poller (`Poller`), of librdkafka's
commit thread and of its sender: an event loop and operating-system threads that
keep running. Nothing is assumed of producers, API, database, signals, crashes or
restarts. A plugin is not assumed to succeed. `CatchesUp` is therefore about a
consumer that stays up (`<>[]Up`), and cache convergence about a database that
stays up. In `dashboard`, weak fairness of `Poll` and `PollStep` of each request for the
list (the browser's interval goes on, and a request is answered, fails or is given up
after 8 seconds) and of a card's `SaveStep`; nothing is assumed of the admins or the
database, and `ListConverges` is about a tab left open over a database that stays up.
The session and the terminal have no fairness: a refresh is posted with bare `axios`,
without a timeout (`api.js:75`), so nothing entitles a page to an answer, and a clerk may
walk away.

## Where documentation and code differ

* `node_config_order`. `docs/architecture.md:182` says the store refreshes within
  about five seconds and "next events use new config". Two fetches may overlap
  (`configStore.js:46`); if the older reply resolves last, settings that were
  already in use are replaced by the ones before them until the next fetch.
* `node_writer`. `db/init.sql:103` says the writer "Persists ALL events into the
  event_log table". A consumer that starts while PostgreSQL is away has an empty
  map, passes over every plugin (`index.js:150`) and commits the event; a failed
  INSERT is swallowed as well (`index.js:42`).
* `generator_order`. `README.md:103` says of seven kinds of events that "All events
  within a transaction share the same `transaction_id` as the Kafka partition key".
  `employee.login` and `employee.logout` carry none and are keyed by the employee
  (`generator/main.py:64`, `events.py`), so that they may be on another partition: the
  plugins may be done with a transaction's start before its login. For the events that
  do carry it the order is proved.
* `python_dead_letters`. `README.md:108` says the event "is published to
  `pos-events-dlq`" after retry exhaustion. `flush(timeout=5)` may return with the
  dead letter still queued (`main.py:111`) and no callback tells of its expiry.

Behaviour the models have and no property denies, for the reader of the code:

* A 401 without a refresh token clears the tokens and forces a logout, which posts
  `/auth/logout` without a token, which is answered with 401 again, and so on for as
  long as the page is open (`api.js:69`, `AuthContext.jsx:82`).
* A wrong password is a 401, too: with a refresh token in storage the sign-in form
  triggers a refresh and its request is repeated.
* A sign-out while a refresh is under way is undone by it: `Refreshed` stores the new
  tokens again, and may overwrite those of a newer sign-in. The other way round, a
  logout that is under way when a sign-in is answered takes the new session with it;
  that is the exception `SignInLasts` makes.
* A page that is opened at `/login` shows the form although it has restored its user
  (`App.jsx:123`), and takes a second sign-in.
* `endSession` is never called: `logout` is memoised with the user of the first render,
  null (`AuthContext.jsx:13-29`). A session once started runs on, although
  `RulesPanel.jsx:194-195` says that the time counts "from the moment they log in until
  they log out". The branch cannot run in any order of steps, so the time tracker is not
  modelled.
* `docs/architecture.md:181` gives the order Start, Customer, Items, Subtotal, Pay. The
  routes never look at the transaction, so a late `item.added` may be published after
  `payment.completed`, and a late payment after a second one, with a receipt number of
  its own (`event_routes.py:199`). `StepsArePrepared` is what is left of the order; the
  order itself is not a property of the code.
* "All 5 events have been published" (`PosTerminal.jsx:354`) is not true after a broker
  lapse: the routes ignore what `flush()` leaves in the queue. `ReceiptIsBacked` has
  `lapses = 0` for that reason.
* "Based on the last item added" (`PosTerminal.jsx:295`) is not true while a fraud alert
  is awaited: the add-ons are those of the line before.
* A save of plugin settings that was given up may be handled after the next one and
  overwrite it.
* `docs/architecture.md:137` has `employee.logout` from the generator only; the API
  publishes it as well (`auth_routes.py:223`).

## Proofs

The theorems hold for any finite or infinite sets of partitions, plugins and
fetchers, any non-empty retry budget and any value of the bounds. The assumptions
are `PluginTableAssumption`, `ConfigStoreAssumption`, `ConsumerAssumption`,
`PublisherAssumption`, `TokenServiceAssumption`, `SessionAssumption`,
`EventRoutesAssumption`, `PosTerminalAssumption`, `PluginAdminAssumption` and
`EventFlowAssumption`: the seeds
are rows of plugins, every plugin is in the list, the marker values are not data, the
numbers are naturals, every key has a partition. TLC evaluates them in each run. One
more is a hypothesis of the theorem that needs it, `DistinctPlugins` in
`ConsumerNode_proofs`: no slug is loaded from two files, which holds of the
repository's plugins and is checked by neither loader.

*Both consumers.* `TypeOK` is not inductive: typing the work sets needs that the
index points into the list while a plugin runs and that a message is in hand
(`LoopLocalsInv`). `Consumer_proofs` shows that each shared action keeps both; the
`TypeCorrect` of each consumer adds its own actions. `DeadLettersAreJustified`
needs `AttemptsInv`: while an attempt is under way, the ones before it failed, and
before a dead letter all of them. `MessagesEnd` counts what the plugins behind the
index and the attempts of the one in hand can still take (`StepsLeft`), and shows that
each action of the loop lowers it (`LoopAdvances`) and each way of leaving the message
ends it (`LeavingAdvances`). It is the safety half of `CatchesUp`, for every number of
plugins and attempts; the other half, that the process is scheduled, is fairness.

*The store.* `OneFetcherNeverRegresses`: with one fetcher the version only grows on
its way from the table through the reply into the cache (`AgesInOrder`). It is not
true of two, which is what `node_config_order` shows. `ConfigNeverRegresses` carries
it over to the Python consumer, whose steps are steps of the store or leave it alone
(`StoreIsAStore`), because the poller runs exactly as long as the process
(`PollingInv`).

*The Node.js consumer.* `NoLostWork` speaks of committed offsets only and is not
inductive. `DeliveryInv` is: commits do not pass positions and positions not the
log (`OffsetsInv`); what lies before the positions is settled (`ConsumedInv`); the
loop has settled what it left behind in the message in hand (`LoopInv`); and nothing
is touched before everything earlier is settled (`InOrder`). The last one is what
lets positions fall back: a message that is delivered again has all its predecessors
settled, whatever of itself was done the first time. The steps fall in two kinds,
those that touch the duty in hand (`TouchingTheDuty`) and those that touch nothing
and move no position forward (`TouchingNothing`). `NothingIsLost` and `OrderIsKept`
follow. `DeliveryIsImplemented` maps producing, settling the duty in hand and
committing to `Produce`, `Settle` and `Acknowledge`; all other steps stutter. In the
runs the rules are fixed where `NoLostWork` is checked; the theorem has no such
limit.
`ExactlyOnceWithoutTrouble` needs that, until something goes wrong, work is handled only
before the positions and, of the message in hand, before the loop's index (`OnceInv`);
with a slug loaded twice it would not be true.

*The Python consumer.* `FirstMeetingsInOrder` and `LossesAreConfined` are about
steps. Behind the first is `MetInv`: whatever was taken since the last commit has
been met by every plugin except perhaps the message in hand (`TakenMet`, `LoopMet`);
there is no gap between the commits and a message that was met (`NoGap`); and a
message in hand for a second time, with later ones met before it, was met by all
(`AgainMet`). Going back to the commits keeps this, and a first meeting out of order
would contradict `NoGap` or `AgainMet`. The second needs only that commits do not
pass positions: each step of the loop passes a duty from `Ahead` to `Done` or
`Queued`, and only the end of the process drops `Ahead`. `EagerDeliveryIsImplemented`
maps the same sets to the work in hand, done and with the sender of `EagerDelivery`
(`DutyAhead`: the duty leaves `Ahead` unless its slug comes again), and positions to
what is taken, counting a process that is down as back at its commits.

*The session.* `NobodyIsForgotten` needs `OneLeader`, which names the leader where the
invariant counts it: a step in another tab leaves it alone (`OtherLeaders`), and only
`Lead`, `Refreshed`, `RefreshFailed` and `Close` change it. `UsersStay` is about steps and
rests on `Excusable` (a user has a refresh token in memory or an excuse, and a logout
under way is one) with `Paired` (access and refresh token come and go together, so a
restored page has both) and `Shut` (no request comes back to a closed tab, so a
reloaded page starts without an excuse).

`ForksAreBetweenPages` and `OwnTokensAreGood` rest on a second invariant, `Held`. Every
row descends from a sign-in with a holder (`Descent`). Whoever has a refresh token, or
exchanges one, is among the holders of its sign-in; a page that was reloaded while the
API exchanged its token is there under the number it had then, so it counts as another
(`Known`). So two exchanges of one sign-in are of two page loads (`TwoAreTwoLoads`; the
leaders of `OneLeader` are in different tabs), and for a sign-in with one holder
`Unforked` holds: it is exchanged once at a time, it has at most one good row, that row
is the one in the exchange, and the page has it in memory whenever it does not refresh.
A page that takes over tokens from storage makes two holders of one, and nothing is
claimed any more.

*The terminal.* `StepsArePrepared` is not inductive: a late request must not become the
first of its kind. `LatePrepared` says that what it rests on has been published before,
`CallFits` that the request awaited belongs to the step shown, `CallPublished` and
`Numbered` that a new transaction's id is fresh, `Progress` that each step passed
left its event. `ReceiptsAreBacked` follows from `Progress`. `CartsAreCharged` adds
`Paid` and a count of lines in which an answer still awaited is not counted (`LinesOK`);
`FeedsAreFaithful` the same for the feed (`FeedOK`). `TypeCorrect` needs that the totals of a cart are
numbers. `Total` is a fold, and the library's induction takes an operator; so
`Subtotals` is proved from the least counterexample, a set of natural numbers having a
smallest one (`Induction`): a sequence of partial sums exists for each cart, and the
fold is its last. `SpikesAlerted` needs `Watching` (the count of a watched sale is that
of its lines, and what is beyond the threshold has been alerted or is about to be) and
`CountsOK` (no count runs ahead of its lines). `AlertsJustified` carries the same bound to
an alert still awaited or handled late (`AlertsOK`): when it is made its count is bounded
by the lines of the cart, those by their events (`LinesOK`), and events only get more.

*The dashboard.* The list always has the rows of the seeds (`SameRows`), and a save
that is not handled is all a row lacks of what was asked for (`SavesAreKept`);
`ColumnsAreKept` follows.

*The event flow.* Only the transaction in hand is queued (`InHand`), events with one
key are at one home (`AtHome`), a partition is in the order the events were made up in
and what is queued for it belongs behind (`LogInOrder`), and the consumer
settles a partition in its order (`ReadInOrder`). Hence
`TransactionIdKeepsOrder`: two events with one transaction's id are on one partition, in
their order. `FlushedBetween` (outside of a flush nothing is queued) gives
`GeneratorFinishesUp`.

Every invariant and action property of a passing run is a theorem. Only model-checked is
the liveness (`CatchesUp`, `CacheConverges`, `ListConverges`, `SavingEnds`), which, with
fairness and ENABLED, is beyond the prover.

## Not modelled

Log lines, JSON and HTTP payloads, the health servers and flags, deployment and layout.
Messages that are valid JSON but not objects: none of the repository's producers sends
one. Topic retention (one hour). kafkajs's own decision to stop for good. Several
instances of one consumer in the same group: the compose file starts one of each.

The Events tab and `DELETE /events`: it polls as the Plugins tab does, and nothing
reads `event_log` back into the system. The time tracker, whose sessions never end.
Settings whose `event_types` is no list, which the settings editor lets through: `matches()`
runs outside the retry loop (`index.js:152`, `main.py:196`), so it would throw out of
`eachMessage`, which delivers the message again until the settings are mended, or end the
Python loop. The age of a row of `refresh_tokens` (`expires_at`, seven days), which outlives
a page; rows are refused for it only at the bound `MaxPairs`. `/auth/me`, which the dashboard does not use. A fraud alert posted by a handler
that outlives a sign-out, which would be answered with 401. Reordering by retries
inside librdkafka. Progress of the session's calls: a refresh has no timeout.

## Plan

What is left: a measure such as `StepsLeft` for the other waits that end (a card's
`saving`, the queues of the Python producers); an abstract session of one user, which the
tabs implement as long as no refresh fails; the Events tab, if anything comes to depend
on what it shows.
