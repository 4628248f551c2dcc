# A TLA+ development of yaad-grove

yaad-grove is a community bot: it answers questions about a Markdown vault in group
chats, only for members who opted in, within a spend ceiling, and remembers them only
for as long as they consent. This directory models its core, checks the models with TLC
and proves the most important results with TLAPS. All names below are those of the
source; `PROJECT.json` maps each definition to the lines it models.

## 1. The system

### Components, their state and operations

| Component | State | Operations | What makes it correct |
|---|---|---|---|
| consent gate (`internal/acl`) | a persistent record per user (tier, consent, query count, start of the rate window); an in-memory map of last nudges | `Check`, `SetConsent`, `SetTier`, `Authorize`, `ConsentOf` | nothing is served or logged without an opt-in; a user who answered is not nudged; at most one nudge per cooldown; the rate limit; concurrent writers do not clobber one another |
| message handler (`internal/runtime/handler.go`, `consent.go`, `memory.go`) | none of its own; a goroutine per update | group message, admin DM, `/consent`, `/consent remove`, status | no trace without consent; every message answered; a withdrawal takes effect on turns under way |
| conversation buffer (`internal/memory`) | the last turns of each conversation, in memory | `Append`, `Recent`, `Select`, `Purge`, `PurgeUser` | bounded; holds nothing of a user who withdrew; a question is asked with the newest and the most relevant turns |
| long-term memory (`internal/core/longmemory.go`), eraser (`internal/runtime/erase.go`) | withdrawal counts in memory; the records of a memory service, by namespace | `Withdrawals`, `turn.keep`, `Withdraw`, `Erase` | what a withdrawal erased stays erased; the reply says the truth |
| namespace record and retention (`internal/namespaces`, `internal/runtime/purge.go`) | a file of namespaces and when each was dropped | `Configured`, `Dropped`, `Forget`, `RunPurge` | every namespace that holds something is purged and erased from |
| spend meter (`internal/budget`, `metered.go`) | start of the period and tokens spent, in memory and persisted | `Allow`, `Record`, `Remaining` | the overspend is bounded; refusals are justified; a restart gives nothing back |
| callback tokens and actions (`internal/pending`, `proposer.go`, `verbs.go`, `registry.go`) | a persistent record per token | `Put`, `Resolve`, `Sweep`; propose, authorize, execute | an action runs once; authority is checked when the button is clicked; clicks learn the truth; the store stays bounded |
| engine (`internal/core/engine.go`, `prompt.go`) | none | retrieve, cap the context, tool loop, refuse or answer | the model is never asked with nothing to answer from; a question always ends |
| tool registry (`internal/tools/registry.go`, `agent.go`) | the sessions of the MCP servers, the routes of their tools, in memory | `Connect`, `Close`, `Definitions`, `Call` | a call reaches only a server the operator lets serve the tool; no session is left open |
| retrieval planner (`internal/retrieval/planner.go`) | none | `Retrieve` in one of three modes | a leg that fails is made up for; a query that found nothing is not one that failed |
| retrieval store (`internal/store`), reindex loop (`main.go`) | the indexed vault, in memory or in an embedded graph database with its search indexes | `Index`, `Semantic`, `Keyword`, `Enumerate`, `Dimensions`, `Ordered` | the database stays whole over failures, deadlines and restarts; what was signalled is served; the backends agree |
| structured lookup (`internal/tools/enumerate.go`, `dimensions.go`) | none | `kb_enumerate`, `kb_dimensions` | an answer is complete, and to the question that was asked |
| transport (`internal/transport/telegram`) | none; Telegram holds the queue of updates | dispatch, send with fallbacks, buttons, edits | a message is sent at most twice, and raw only when rejected |
| logs (`internal/quarantine`, `internal/transcript`) | append-only files | append | only consented content |
| the rest | | metrics, telemetry export, language packs, configuration, replay tool, model and embedding clients | |

### How they interact

The Telegram library calls the handler in a **goroutine of its own for every update**.
The handler calls, in order: the eraser (to read the withdrawal count), the gate (store
read, then nudge map or store write), the logs, the buffer, the engine (which calls the
metered model and, at the end, long-term memory), the buffer again, the gate's store
(the consent check after the answer), the transcript. A withdrawal, in another
goroutine, writes the store, purges the buffer, counts under long-term memory's write
lock, and deletes from each namespace. The engine asks the planner, which calls the store
once or twice, and its tools ask the store once for each filter and order, while the
reindex loop, a goroutine of its own, may index the vault anew. Buttons go through the token store, then the
gate's store twice. The program connects the tool servers one after the other before it
serves, drops what was queued meanwhile, and may be started again after a crash or a
failed start. The sweeper and the purger are goroutines of their own. What is
shared: the access-control store, the buffer, the nudge map, the withdrawal counts and
their lock, the memory service, the meter, the token store, the retrieval store with its
one database connection.

### What is hard

* a `Check` reads a record and later writes the whole of it back, while others change it;
* a withdrawal may fall between any two steps of an answer, which takes minutes;
* the process may die between any two transactions: the stores survive, the buffer, the
  nudge map, the withdrawal counts and everything under way do not;
* every call to a store, a log or the memory service may fail, alone;
* the budget is checked before a call and charged after it, across periods;
* clicks race with one another, with the sweeper, with changes of authority;
* an index is committed, then its search indexes are built; the write may hang, and goes
  on after the deadline that gave it up; the next start finds what was left;
* one question is several calls of a store that is reindexed in between;
* the model, a tool and a tool server are somebody else's: they may fail, never return, or
  offer and ask for what nobody expects;
* a send that failed may have arrived.

`PROJECT.json` lists these as hazards, each at its line and with the properties that
cover it.

## 2. Modules

    Members            the users, messages and senders everything else talks about
      Gate             acl: the gate and its store
      Buffer           memory: the conversation buffer
      LongMemory       core.Memory and runtime.Eraser
        Handler        runtime.NewHandler and dmConsentFlow over the three above
      Toolset          tools.Registry and the program's own tools
        Engine         core.Engine.Answer over it
      Transport        telegram.Adapter: updates in, replies out
        Bot            ServeCmd.Run: Handler, Engine and Transport composed
      Service          what the bot promises of a message; Bot implements it
    Selection          memory.Buffer.Select
    Fusion             retrieval.rrfFuse
      Callbacks        pending, proposals, clicks and verbs over Gate
    Budget             budget.Meter and runtime.meteredChat
    Retention          namespaces.Record, newLongMemory, runtime.RunPurge
    GraphStore         store.Ladybug and the reindex loop of the program
      Retrieval        retrieval.Planner over it
    Lookup             VaultDocs, the structured indexes of both stores, kb_enumerate
    X_proofs           the theorems about X
    MCX                the instances of X for TLC

A component's module has one action per step that is atomic in the code: a store
transaction, a critical section, or a call to a service. `Handler`, `Callbacks` and `Bot`
compose by conjoining an action of the component they call with their own control
state (`AtGate` is `CheckGet`, `CheckNudge` or `CheckPut` of `Gate`), so that they
interleave exactly where the code holds no lock.

* **Gate.** `store[u]` is the `Record` of the store and `call[m]` the stack of the
  `Check` of message `m`: `CheckGet` is `store.Get` and the switch on consent,
  `CheckNudge` is `Gate.nudge` under its mutex, `CheckPut` the rate window and
  `store.Put`. `SetConsent` and `SetTier` are one `store.Update` each. Get and Put may
  fail, which refuses. Time is a clock of ticks. The variables from `wanted` on are
  history: what was last set, who opted in at some time, whose consent a stale Put
  replaced, who had overlapping Checks, the true last nudge, the queries served by tick.
* **Buffer.** `convos[c]` is the deque of a conversation.
* **LongMemory.** `withdrawn` are the counts, `turn[m]` and `seen[m]` a turn and the
  count it read, `erase[m]`, `next[m]` and `failed[m]` the loop of `Eraser.Erase`, `ltm`
  the memory service, which is external: an append or a `DeleteSubject` is atomic and
  may fail. `turn.keep` holds the read half of the lock over its two appends, so
  `Withdraw` is enabled only when no turn is being kept. Go's `RWMutex` also makes new
  readers wait for a waiting writer; letting them in, as `KeepBegin` does, allows more
  behaviours than the code. `epoch`, `born` and `since` are history: withdrawals
  counted over every run of the bot, which the code's own counts do not survive.
* **Handler.** `pc[m]` is where the handler of `m` stands. `Receive` starts it with one of
  six kinds of message; `Proceed` is one step of it. `Restart` ends every handler under
  way and clears what is only in memory.
* **Toolset.** `sessions` counts the servers the registry has connected, in the order of the
  configuration, `dialed` is the session `Connect` holds while it lists a server's tools,
  `routes` the registry's map of names. What a server advertises is up to it; `Permits` is
  the allow- and deny-list. `Close` leaves the routes, as the code does.
* **Engine.** `run[m]` is where `Answer` stands for message `m`: retrieval, the cap on the
  material (`Capped` is `capContext`), then a loop of model calls and tool calls. The meter
  may refuse a call, the model may ask for any name, neither it nor a tool need ever return;
  the deadline covers both. The loop itself belongs to a library, of which the model has what
  the engine asks of it. `steps[m]` is bounded by `MaxSteps`, the code's own limit.
* **Transport.** `update[m]` is a message on its way in: queued whether or not the bot runs,
  dropped with the backlog or by `toInbound`, or taken. `sending[m]` is the form `sendTo`
  tries next, `copies[m]` how often the reply has arrived. A failed send may have arrived;
  a rejected one has not.
* **Bot.** `life` is the process: connecting, serving or down. The handler's place `"engine"`
  is refined into the engine's steps, its end into the sends. `Crash` may come at any step
  and stands for a stop by signal too, as the Telegram library joins no handler.
* **Service.** The abstract specification: a message is missed or taken; one that is taken is
  answered, declined or passed over in silence, once; its reply is shown at most twice;
  memory holds only messages that are answered, and loses any of them at any time; a crash
  ends what is under way; what was taken ends.
* **Selection, Fusion.** Pure algorithms without state, as operators. Of a turn `Selection`
  has whether the asker said it, whether it is within the window and how many terms it
  shares with the question. `Fusion` adds fractions over a common denominator where the
  code adds floating-point numbers.
* **Budget.** `Begin`, `Finish` and `Fail` are `meteredChat.Chat` up to the model call,
  from its return, and when it fails; the meter's mutex covers each, not the call
  between. Every operation rolls the period first. A save may fail (`disk' = disk`).
* **Callbacks.** A token's record is absent, fresh or consumed. `Resolve`, `Authorize`
  and `Execute` are the three transactions of a click; the gate's steps, the sweeper and
  a restart may come between them. The bot may start on a store of an earlier build,
  whose buttons name a verb or a tier that is gone.
* **Retention.** `file` and `rec` are the namespace record on disk and in memory, `purger`
  the purgers `newLongMemory` made, `due` and `forget` how far a pass of `RunPurge` has
  come, `wake` its timer, `turn[t]` a turn and, once kept, its records in the memory
  service. `Start` is `Open` and `Configured`; `Drop` is `Dropped` for one namespace;
  `Purge` is `NamespacePurge.Purge` up to the end of `DeleteBefore`; `Forget` is the rest,
  whose failed save is undone in memory but may have reached the file. A process that
  fails to start may be followed by one with another configuration; the erase command
  starts in the same way. A purge takes less than a tick, and reads a clock that may be
  `Behind` the timer. A crash takes the clock to the next tick, so that a record of the
  service is older than any later start. That a machine crash may take back a rename that
  was not yet synced is left out. `missed` and `gone` are history.
* **GraphStore.** A note is a file of the vault with its content and stands for the chunk it
  holds: an edited file is another note. `table`, `chunks`, `embedded`, `graph`, `fts` and
  `vec` are the database, which is external: a transaction is atomic and an index lists what
  was stored when it was built. `job` is the reindex loop (or the index at the start),
  `writer` the goroutine of `runWriteWithDeadline`, which `Deadline` leaves at work. The
  vault is read file by file (`ReadNote`) while the operator may `Edit` it; that it is read
  before the store is opened makes no difference to what the store holds. A signal before
  the bot serves ends the process (`Dies`), as nothing listens for it yet.
  `Findable` is what `chunkTableExists` may answer at the start: what there is, or, when its
  query fails, that there is nothing, which `loadDim` takes for an empty database. Its two
  later callers can be wrong in the same way: `Deltas` has what `storedHashes` makes of it
  (everything is new), `BeginWrite` what `ensureChunkTable` does (it creates a table `IF NOT
  EXISTS`, which leaves the one there is). `fts` only says that there is a full-text index.
  `edited`, `last`, `missed` (whether this process overlooked the table) and `bare` (the chunks
  such a process stored without an embedding) are history.
* **Retrieval.** `plan[c]` is the leg a query is at and whether one succeeded. Which chunks a
  leg finds is not modelled, only whether it answered; how two lists are fused is `Fusion`.
* **Lookup.** What a note says in its frontmatter is one of a set of records; `Key` is
  `normalizeKey`, given as a table of spellings; a path is a number in the order of the
  strings, and `Walk` the order the vault is read in, which differs from it. `memory` and
  `graph` are the indexes of both backends, over the same vault. `Call`, `Filter` and `Sort`
  are a call of `kb_enumerate` between its calls of the store, asked of the memory backend;
  `BackendsAgree` makes it one of the graph too, up to the order of an answer that is not
  sorted. The key of an orderable field is a `float64`, of which the model has the order: an
  integer from `-Infinity` to `Infinity`, or `NaN`. YAML's `.nan` and `.inf` are numbers to
  `ParseOrderedValue`, which refuses only the quoted spellings of them. `Same` and `Below` are
  the comparisons of floats. A `NaN` among the entries leaves `sort.Slice` without an order to
  sort by, and `Sorts` lets any permutation come out, which is more than the library's sort
  does on a given slice, and no less than it promises. `key:NaN` and `key:+Inf` do not parse, so an index of a vault
  with either fails (`Writable`) and its transaction is rolled back: the graph stays what it
  was, or the start fails. That the statement does not parse is read off the literal, as
  the database is external. A reindex of the model goes on for both backends, as if side by
  side. `stood` is history: the vaults whose index stood during the call. The lookups of
  the graph do not fail here; what a store call that fails does is in `GraphStore` and
  `Retrieval`, and `kb_enumerate` passes it on as an error without an answer. The reference
  (`Canon`, `Matches`, `Carries`, `Precedes`) says of the notes alone what an index should
  answer.

## 3. What TLC checks

| Run | Instance | Shows |
|---|---|---|
| `gate` | two users, alike with their messages (`SYMMETRY`), a message each, allowances 1 and 2, rate window 2, cooldown 2, clock to 3 | `ConsentNeverInferred`, `NeverNudgedOnceAnswered`, `RateBound`, `NudgeOncePerCooldown` |
| `gate_lost_update` | one user, two messages | **violated:** `UpdatesSurvive` |
| `handler` | the whole program: one user, an admin; a message of any kind and an opt-in or withdrawal; two tool servers, one with an allow-list and one with a deny-list, that may offer the same name; two model calls per question; clock to 2 | `NoTraceWithoutConsent`, `ToolCallsPermitted`, `NeverAskedBare`, `NoSessionLeft`; `KeepsPromise`, the refinement of `Service` with its liveness |
| `handler_withdrawal` | a group message, a withdrawal and a message of any kind of one user, two namespaces, writes of the quarantine log that may fail | `BufferForgets`, `ErasedMeansGone`, `ErasedReplyHolds` |
| `budget` | two agent runs, ceiling 2, period 2, usages -1, 1, 2, clock to 4 | `OverspendBound`, `WindowBound`, `RefusedOnlyWhenSpent`, `RestartKeepsSpend` |
| `callbacks` | an admin and another user, a click each, two tokens, lifetime 1, clock to 3, proposals to promote and demote, buttons of an earlier build | `RunsOnce`, `AuthorityFromAdmins`, `ButtonTellsTruth`; under fairness `StaleTokensGo` |
| `retention` | two namespaces, one of which comes and goes, a turn, window 2, retention 2, delay 1, clock behind by 1, clock to 11 | `HeldIsOnRecord`, `ExpiredGoesInTime`, `DroppedIsForgotten` |
| `retrieval` | two notes, alike (`SYMMETRY`), one caller, keyword mode without an embedder, semantic and hybrid with one, starts that find the table or miss it | `OneCallOnConnection`, `EveryChunkHasVector`, `SilentOnlyWhenEmpty`, `SignalledIsServed`, `FailsIffAllDo` |
| `retrieval_hang` | one note, one caller | under fairness `QueriesEnd` |
| `retrieval_no_embedder` | as `retrieval` | **violated:** `VectorsForAllOrNone` |
| `lookup` | two files, any of six notes each, one with an infinite value and one with `NaN`, two dimensions, one orderable field, 196 ways to call, one reindex during a call | `BackendsAgree`, `ListedMatches`, `NothingLeftOut`, `InOneOrder` |
| `lookup_listed` | the same | **violated:** `ListedIsEnumerable` |

The type invariants are checked too, `BotTypeOK` for the handler. Every property has a *variant*: a definition named
`<of>_<bug>` just above the one it varies, which TLC finds out by that property.

**Pure algorithms** are compared with a reference in assumptions of the MC modules, which
TLC evaluates before a run. `SelectionIsBest` (in `MCHandler`) says that on every buffer of
up to five turns, with every score from 0 to 2 and every limit, exactly one set of turns is what
the comment of `Select` describes (`IsBestSelection`), and `Select` returns it;
`SelectionNeedsFollowUp` says when nothing is injected. `FusionIsByScore` (in `MCRetrieval`) takes all pairs of legs over three
chunks and every cap: the fused list is in the order of the sums of `1/(60 + rank)`, ties by
first sight, each chunk once, the cap cutting the worst; `FusionKeepsALeg` that a leg alone
keeps its order.

**Bounds.** The clock bound (`MaxClock`) leaves room for one whole rate window, cooldown,
period or token lifetime and the boundary after it. Two messages of different users are
enough for what users do to each other through the nudge map's sweep; two of one user
(`gate_lost_update`, `handler_withdrawal`) for a stale write. Three messages of one user
are a turn, a withdrawal and whatever comes between. Two tokens are a proposal and its
dismissal, or a button reused after a sweep; two clicks make a race. Two namespaces let an
erase succeed in one and fail in the other. In `handler` two messages of one user are what
can go wrong between a withdrawal and anything else; a second user adds nothing that the
run `gate` and the proofs do not cover, and one namespace is enough for a promise about
messages. Two steps of the model let a tool call return to another call and the last step
refuse; findings of no chunk, one that fits and one that does not are the three cases of the
cap. What `Retention` says of turns it says of each
alone, so one is enough, and the clock runs for a retention period, the bound
`Retain + Late` and a start in between; with `Late` a tick shorter, `ExpiredGoesInTime`
fails. The users of `gate` differ in nothing but their name (their allowances come from
tiers), so states that swap them with their messages are one.
Two notes make a torn read of the vault, a delta that is part of it, and a chunk that is
pruned; a second caller adds only one more that waits for the mutex (`Retrieval_proofs`
covers any number). The six notes of `lookup` are a note with an alias, two that name each
other, values in several spellings or in none, equal values, an infinite one, one that is
no number, dates among numbers and an
unreadable one; two files make ties, a limit that cuts, an alias that is overwritten and
an order of the walk that is not that of the paths; one reindex (`MaxReindexes`) falls
between any two steps of a call. States of `lookup` that differ only in a graph which
the last index failed to replace are one (`VIEW Seen`): no property asks such a graph anything,
and the rebuild that ends it deletes all it holds first, so what follows is the same. `MaxCharged` in `Budget` caps the tokens
recorded in one tick so that the state space is finite. Deadlock is checked in `handler`,
where `AllSaid` stands for the end, in `handler_withdrawal`, where `AllDone` does, and in
`retention`, where `TheEnd` stands for the bound of the clock; elsewhere the clock's end is no deadlock, as calls and clicks may
always return or restart, the vault may always be edited or indexed anew.

**Fairness.** The liveness of `KeepsPromise` assumes weak fairness of `GoesOn(m)`, the steps
of each message's goroutine that wait for nobody outside: goroutines are scheduled,
calls to the stores, the retriever and Telegram end, in success or failure, and the deadline of an answer
(`answerDeadline`) is a timer. Nothing is assumed of the model's replies or a tool's return,
of the operator starting the program, of a server that lists its tools, of updates being
taken, of the clock or of crashes. `StaleTokensGo` assumes weak fairness of `Sweep`: the store owns its
sweeper from `OpenBolt` to `Close`, and a pass that fails is followed by another, so a
sweep comes through in the end unless every pass fails for ever. `QueriesEnd` assumes weak
fairness of the index until it writes (embedding has a timeout), of its end and of the
deadline, which is a timer, and of a query's steps; strong fairness of taking the mutex,
which Go's mutex hands to a goroutine that has waited. Nothing is assumed of the goroutine
that writes, which may hang for ever. That a read of the database returns is assumed.

### What the violated runs show

* **`UpdatesSurvive`.** `Check` does `Get` … `Put` outside one transaction, against what
  `Store.Update` and `SetTier` say of themselves: a decline, or an admin's demotion, set
  in between is undone.
  A withdrawn user can so be on record as granted again; their next message then reads
  the new count and is kept in long-term memory. `ErasedReplyHolds` therefore speaks of the
  withdrawals that are still `standing`: one that a stale write undid is not, from that write on.
* **`VectorsForAllOrNone`.** A database with embeddings that is opened in keyword mode, with
  no embedder, knows a dimension and has no vectors, so the first new chunk panics in the
  goroutine that writes, at every start. The model goes on with `Panic`, and everything
  else is proved with it.
* **`ListedIsEnumerable`.** Only what is asked for goes through the aliases, not what is
  stored. A note that spells a value like another note's alias, of whatever dimension, is
  listed by `kb_dimensions` under a value that `kb_enumerate` finds nothing for.

### The refinement

`Bot` implements `Service` by the mapping `Promise`: the status of a message is read off the
transport and the handler's reply, what is shown is `copies`, what is remembered is what the
memory service holds of a message. `KeepsPromise` is checked with its liveness on the
instance of `handler`; its safety half, `Promise!ServiceRuns`, is proved for all constants.
It is what the fallbacks of a send, the deadline, the lock of long-term memory and the
crashes are for: a third form after a failure that may have arrived shows a reply three
times, a deadline that forgets the tools or a withdrawal that waits for a lock it holds up
leaves a message without an end, a turn kept for a question that is then declined breaks
`Settle`.

### What does not hold besides

What follows does not hold either, and no run is spent on it. A token is consumed before
its click is authorized and executed, so "already completed" is also said of actions that
were denied or failed. A session is named when its turn starts and dated when it is kept,
so it may lie on both sides of a cut. A reindex that fails late leaves the vector index
dropped or the store poisoned, so the search is not what it was. An embedder with a vault
that is empty at the first start makes a table without a column for embeddings, after
which no note can be indexed until the operator deletes the database. A call of `kb_enumerate`
that sorts drops the filters in `and` when it has no other. A call during a reindex joins
filters over two indexes, so what it lists may have matched them all in neither;
`ListedMatches` and `NothingLeftOut` say what remains true.

Two errors that the code takes for something else have their cost in the model, and the
properties except it openly, since they do not hold of it:

* **A table that is missed.** `chunkTableExists` answers *no* when its query fails
  (`ladybug_ops.go:22-40`), so `loadDim` succeeds with no dimension on a table full of
  embeddings. With an embedder and a vault that has not changed, the semantic search then
  answers every question with nothing (`SilentOnlyWhenEmpty` excepts the processes that
  `missed`); without one, what is written is stored without embeddings in a table that has a
  column for them, and later processes never make up for it, as its hash is stored
  (`EveryChunkHasVector` excepts what is `bare`, `SignalledIsServed` what the vector index
  then lacks). Nothing more comes of it than that: a process that found its table never
  adds to `bare`, and one that embeds a bare chunk again takes it out.
* **A value without a place in the order.** The comment of `ParseOrderedValue` says that an
  unorderable value is treated as no value (`store.go:106-109`), and a test says it of the
  string `"NaN"`; the `float64` that `.nan` or `.inf` decodes to passes. With a `NaN` among the
  values of a field the memory backend's order is none, and the latest of them, asked for with
  a limit, may be any: `MemoryAnswers`, `NothingLeftOut` and `InOneOrder` promise an order where
  the values are `Comparable`, and the documents themselves always. With a `NaN` or an
  infinite value the graph cannot be written: the bot goes on with the last graph, or does not
  start, and `BackendsAgree` speaks of the vaults that are `Writable`. Without either exception
  TLC finds the property violated.

The comment of `PurgeCut` says that a record goes at most one window after it expires
(`purge.go:60-61`); as a purge comes `purgeDelay` after its boundary, it may be a window and
the delay, and the clock's error, which is the bound `Late` of `ExpiredGoesInTime`. Most of
these are hazards in
`PROJECT.json`, with their line.

`BufferForgets` speaks of users whose consent is withdrawn *now*: one who opts in again
before an answer's consent check finds a turn from before the withdrawal in the buffer,
which the code's comments do not rule out.

## 4. What TLAPS proves

For every value of the constants, under the named assumptions of the modules (types of
the constants; `RateWindow`, `Period`, `TTL` positive; finitely many callers):

* `Gate_proofs`: `GateTypeCorrect`, `ConsentNotInferred`, `AnsweredNotNudged`,
  `NudgedOncePerCooldown`, `RateLimited`. The
  strengthening of consent says that the copy of the record a `Check` holds was granted
  only if its user had opted in; that of the nudge says that a store that still says
  *unknown* belongs to a user who has not answered, which stale writes keep, because only
  a granted record is ever written back. `NudgeInv` says that the nudge map holds a user's
  last nudge, or nothing once a cooldown has passed since. `RateInv` follows the windows of a
  user whose Checks never overlapped (`WindowHolds`): in the one that is open at most its
  count and an allowance was served, in the `RateWindow` ticks before it at most an allowance,
  and nothing after its end; a stretch of one window's length meets at most two such. It also
  says that such a user has one Check at most that is about to write back, with the count and
  the window of the store, and that a tier anywhere is one a user can come to have, so that
  the largest allowance (`TopIsLargest`) covers it.
* `Handler_proofs`: first of `LongMemory`, `MemTypeCorrect` and `ErasedStaysGone`: `MemInv` says
  that the code's count and the true number of withdrawals move together within a run of the
  bot, so that a turn under the lock is one of the current epoch, and that an erase under way
  was counted before it deleted. Then `HandlerImplements`: the handler refines `GateSpec` and `MemSpec`
  (the identity mapping, step by step), hence `HandlerNeverInfers` and
  `HandlerErasesForGood` without a new induction. `HandlerTypeCorrect` covers all the types,
  the bound of the buffer among them: what `Without` keeps of a sequence is a sequence of
  members of it, no longer than it, by induction along the sequence (`UpFromZero`, from the
  least counterexample). `NoConsentNoTrace` rests on `TraceInv`, what a handler may have left
  behind at each of its places; `WithdrawnLeavesBuffer` on `BufferInv`, that whoever has turns
  in the buffer has consented, could not be checked, or has a purge ahead (`PurgeAhead`);
  `ErasedSaysTheTruth` on `PlaceInv` and `StandInv`, that a withdrawal that stands finds its
  user declined, and an erase of it has left nothing older behind in the namespaces it has
  been through, and on `Timely`, that nothing in long-term memory is ahead of its user's
  withdrawals. `SelectsTheBest` is about `Selection`, for every buffer and limit: of related
  turns in a strict order, those with fewer than `room` ahead of them number `room`, or are
  all of them, and are ahead of the rest (`RoomIsFilled`), and of two selections of the best
  neither has a turn that the other has not (`OneBestSelection`).
* `Bot_proofs`: `BotImplementsHandler` (the program over the handler, again step by step),
  hence `BotNeverInfers`, `BotErasesForGood` and `BotKeepsConsent`, the three theorems above
  for the whole program. `PromiseKept` is the refinement of `Service`:
  `PromiseInv` says that the handler is at work exactly on what was taken (`TakenIsHandled`),
  that a reply is sent only when the handler is done (`SentWhenDone`), how many copies each
  form of it may have left (`ShownBound`), and that what is kept of a message that is settled
  was answered (`KeptIsAnswered`). `OnlyPermittedCalls`, `NotAskedBare` and `SessionsClosed`
  rest on `ToolInv`: the types, every route being permitted (`RoutesPermitted`), the engine
  being at work only while the program serves, with all servers connected (`LifeInOrder`).
  `BotTypeCorrect` needs that a run that may call the model again has calls left
  (`StepsLeft`), and that the cap keeps a number of chunks (`CappedIsCount`, from the largest
  member of a bounded set). `BotGateHolds` carries the cooldown and the rate limit over.
* `Budget_proofs`: `TypeCorrect`, `OverspendBounded`, `SpendSurvivesRestart`,
  `SpendRateBounded`, `RefusalsAreEarned`. The strengthening `RoomForFlight` trades tokens
  spent for calls under way: what is spent
  plus what the calls under way can still use stays within the bound. It needs the
  cardinality of the set of calling runs. `OnDisk` says that what is on disk is the
  meter's state unless a save has failed. `Ledger` sets the meter against the true charges:
  what a state says is spent was charged since its period started (`Backed`, from which
  refusals are earned), what was charged since is in the meter unless it was lost, with no
  more than a period's worth in the `Period` ticks before (`Covered`), and the disk holds the
  current period or one that was over before it (`Behind`), which is what a restart needs.
* `Retention_proofs`: `RetentionTypeCorrect`, `HeldStaysOnRecord`. `RecordInv` says that
  what is on disk covers what is in memory while the process runs, that a record was kept
  at a time before which its namespace cannot have been dropped, that every namespace on
  record has a purger once the bot serves, and that a namespace being forgotten holds
  nothing: the cut is past its drop time, and nothing was kept there after that.
  `ExpiredGoes` and `DroppedGoes` are about time. `TimeInv` says that the next purge is due
  before anything it should delete is too old, and, while a purge is under way, that what it
  has been through is as fresh as the earliest reading of its clock asks; it needs that
  windows follow one another (`WindowStartGrows`, `PurgeTimes`). `DropInv` says that a
  record's and a purger's drop time is no later than when the namespace was found missing.
* `Callbacks_proofs`: `ButtonsTypeCorrect`, `ActionsRunOnce` (a token is fresh, held by one
  click, or spent, and never fresh again after it was minted), `AuthorityHandedOn` (a
  stale record with admin authority belongs to somebody who had it), `ButtonsImplementGate`,
  `ButtonsNeverInfer`, and `ButtonsTellTruth`, which rests on `HonestInv`: a stored record
  expires when its token does, a token without one has expired, and one that is consumed was
  consumed by a click that was told of no other outcome.
* `Retrieval_proofs`: `RetrievalImplementsStore` (the planner over the store is a behaviour of
  `StoreSpec`), `RetrievalTypeCorrect`, `OneCallAtATime`, `VectorsForEveryChunk`,
  `SilenceIsEmptiness`, `SignalledServed`, `RetrievalFailsWhole`. `ConnInv` says that the
  mutex covers the writer until the deadline and that the store is poisoned after it;
  `VectorInv` that what a write brings is what the table lacks, with a vector for each, since
  the store knows its dimension whenever the table has embeddings and was not missed, and that
  all that lacks one is `bare`; `ReadInv` that the files
  read so far are those of the vault, unless it was edited since the signal.
* `Lookup_proofs`: `MemoryIsRight`, that the memory backend answers a single lookup over any
  vault as its notes say (`MemoryAnswers`); `BackendsAreAlike`, that the graph answers alike
  (`BackendsAgree`); from the first, of calls that ask several times while the vault is
  reindexed, `AnswersMatch`, `AnswersAreComplete`, `AnswersAreOrdered` and
  `LookupTypeCorrect`. The first two are about loops, sorts and queries, not steps:
  `Indexed` says that the index is that of the vault, and the rest is what its definitions
  compute. A loop is a recursive function of the round it is in, which exists
  (`LoopRuns`, `RegisterRuns`, `DescendRuns`) and makes of each round what the code does
  (`CollectedRounds`, ...); what it has made after the last is then an induction over the
  rounds (`UpTo`, from the least counterexample, as the library's theorem of induction is out
  of reach). So what a filter collects is a subsequence (`AmongIsSubsequence`); an alias leads
  to the title of the last note that declares it (`AliasIsCanon`, one loop over the documents
  set beside the reference's); finitely many entries whose keys are numbers have an ascending sequence, by the
  largest of them (`SortExists`), which is what the sort makes of them, and any entries some
  sequence of each once (`SortedOnce`); the walk backwards over groups of equal keys keeps its
  members, whatever the keys (`Distinct`), and falls by key, ties by path, where they are numbers
  (`InOrder`; both in `DescendSorts`). `GraphIsOfVault` says that a vault that can be written is the one the graph
  shows, and such a vault has an order (`WritableIsComparable`). `Graphed` says the same of the
  graph, whose nodes were all deleted before it was written (`RebuildGraphs`): the last row
  with an alias names what the loop over the documents ends with (`GraphAliasIsCanon`), the
  edges of a value are its matches (`GraphFinds`), and as the order of a query, key and then
  path, never holds both ways, there is one sequence of the documents in it, whichever
  backend sorts them (`QuerySorts`, `SameInOrder`). The invariant of a call,
  `IndInv`, says that what is left after n filters matched each of the n in some vault that
  stood, and that what is not left failed one of them in some vault that stood
  (`Narrowed`), the whole with the filters that are still to come (`Narrowing`).

Only model-checked:

* liveness (the half of `KeepsPromise` that says messages end, `StaleTokensGo`,
  `QueriesEnd`), which TLAPS cannot do;
* `Fusion`, which folds over data, and `SelectionNeedsFollowUp`: assumptions that TLC
  evaluates on small inputs.

## 5. Not modelled

Metrics, telemetry export, wording, formatting, prompt text, the parsing of Markdown and
YAML, configuration files and the clients of remote services hold no state the rest reads
back, or are pure text or I/O. Of the transport, which group messages are directed at the
bot, mentions and reactions are inputs of the model: any message may be any kind. The
rankings of the searches inside the stores are those of their engines. The metered model is
`Budget`; `Engine` only knows that a call may be refused. The replay tool answers a file of
questions one after the other with the engine of the program and compares two such runs; it
shares no state with the bot. BoltDB is taken at its word: a transaction is atomic and
durable. The clock does not go back. A user id names one user for ever.

## 6. Plan

Done: `Members`, `Gate`, `Buffer`, `LongMemory`, `Handler`, `Budget`, `Callbacks`,
`Retention`, `GraphStore`, `Retrieval`, `Lookup`, `Toolset`, `Engine`, `Transport`, `Bot`,
`Service`, `Selection`, `Fusion`, and the proofs above. To come, in this order:

1. `Engine` composed with `Budget`, whose runs it would take over.
2. Which messages are directed at the bot (`toInbound`), with the identity that may be
   missing; editing a button's message after a click.
