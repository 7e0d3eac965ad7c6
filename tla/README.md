# AIone in TLA+

AIone answers a question in Korean by routing it to one or all of three tools (document search,
SQL generated by a language model, a knowledge graph), and lets its web screen switch the running
process to another server. This directory models those two activities and the parts they rest on
(the three tools, the router, the password store, the bridges to child processes), checks them with
TLC and proves their safety properties with TLAPS, for every value of the constants. Paths below are
relative to the repository; Python code is under `src/`.

## 1. The system

| Component | State | Operations | Talks to |
|---|---|---|---|
| Server switch: `adapters/http_server.py` (`Runtime`, `/api/connections`), `serverconf/service.py` | the bound `Settings` and what was built from them, the profile shown | create, update, delete, test, activate (probe, record, rebind, roll back), deactivate, start | connection store; probes servers |
| Connection store: `serverconf/repository.py`, `sql/06-server-connections.sh` | table `server_connections`, at most one row active | one SQL statement per step, autocommit; migration of passwords | Postgres |
| Password cipher: `serverconf/secrets.py` | a key | encrypt, decrypt, needs_migration | connection store |
| Orchestrator: `router/orchestrator.py` | none between questions | route, call the tools in a pool, rank, word the answer | router, tools, model |
| Rule router: `router/stages.py`, `router/domain/rules.py`, `scope.py` | registered modules | score, decide stage A (one tool) or C (all) | resolvers |
| nl2sql: `nl2sql/` | a call's prompt and attempt | generate, two guards, execute, one retry | model, Postgres |
| vector: `vector/` | a call's filter and rankings | embed, two rankings, fusion, release of the filter, hydrate | model, Postgres |
| kg: `kg/` | none (a child process in `client.py`) | resolve, plan, traverse, rank | Postgres, Java runner |
| Ingestion: `ingest.py` | tables of chunks, nodes and edges | one transaction | Postgres, model |
| Air bridge: `mcp-air/src/python-worker.ts`, `adapters/air_worker.py` | pending calls, a child process | call, answer, timeout, exit, restart, close | its child over JSONL |
| MCP server: `adapters/mcp_sdk_server.py` | none | one tool call | tools |
| Infrastructure: `infra/db.py`, `infra/llm.py` | pool of ten connections; think flag | statement, embed, generate | Postgres, Ollama |
| Java ontology: `java/companyx-ontology` | a graph built from source rows | load, project, query, validate, compare | files, stdio |

What is hard: handlers of the switch run on threads of FastAPI's pool with no lock, and change a
table and a shared object in several steps that can fail or be cut off; the tools of a question run
in parallel, retry, degrade and fail in their own ways while documents are ingested; the two bridges
to child processes correlate answers, timeouts and exits; the router decides on floating point
thresholds. `PROJECT.json` lists every hazard at its line.

What makes each component correct:

* switch and store: one active profile at most; nothing unprobed serves; a failed switch keeps the
  earlier server; record, screen and serving settings agree and survive a restart;
* orchestrator: each question gets one answer; a failure hides nothing;
* nl2sql: each retry asks something new; the loop ends;
* vector: what both rankings found is not cut off for what one found; widening and degrading are
  disclosed; empty means nothing was there;
* bridges: every call settles exactly once, an answer goes to its own call, no child process is left
  behind;
* password cipher: no password is lost by migration, restart or repetition, or left in plaintext;
* router: one tool alone only on a keyword of its own; a named entity keeps its weight;
* kg: an unknown identifier is not replaced by a known one; a traversal finds what is within reach;
* ingestion: repeating it converges to the dataset.

## 2. Modules

| Module | Models | State and actions |
|---|---|---|
| `ConnectionStore` | the table and its statements | `rows`, `server`, `active`, `issued`; one operator per statement, with the effect on the table and nothing else |
| `ProfileSwitch` | the handlers of the web application over that table | `live` and `label` are the two assignments of `Runtime.rebind`; `pc`, `arg`, `previous`, `target` are a request's program counter and locals; one action per statement, probe or assignment |
| `ServingContract` | what `Runtime`'s class comment promises, without profiles or requests | `up`, `serving`, `wish`; `Ask`, `Switch`, `GiveUp`, `Revert`, `Stop`, `Start` |
| `ProfileSwitchProofs` | theorems about `ProfileSwitch` | |
| `ToolResult` | `contracts/tool.py` | statuses and results, rows as a number |
| `SqlTool` | one call of nl2sql | `prompt` is the sequence of corrections, a generated text is what the guards say of it |
| `VectorTool` | one call of the document search, under ingestion | one action per statement; a ranking may be any order of its candidates |
| `RankFusion` | `vector/domain/rrf.py` | pure: scores as fractions, the set of chunks kept |
| `AnswerPipeline` | a question: route, calls in parallel, ranking, wording | composes `SqlTool` and `VectorTool` (EXTENDS, actions conjoined) with a knowledge graph tool known by its results |
| `RuleRouter` | `router/stages.py`, `router/domain/rules.py`, `scope.py` | pure: evidence, ranking (the foremost of what is left, three times) and decision over the keywords of a question |
| `KnowledgeGraph` | `kg/domain/`, `kg/repository.py` | pure: ontology, plans, traversal by paths, ranking, and `Within`, a reference without paths |
| `GraphTool` | a question from `find_all()` over the route and `build_params()` to the tool's answer | composes the two above; one action per lookup or statement, under ingestion |
| `CallContract` | what `PythonWorker.call()` promises | `outcome`, `answer`; `Make`, `GetAnswer`, `Fail` |
| `AirWorker` | the child processes of the bridge, `adapters/air_worker.py` | per process: lines in its stdin, the request it serves, lines in its stdout |
| `PythonWorker` | `mcp-air/src/python-worker.ts` over those processes | one action per callback; implements `CallContract` |
| `JenaClient` | `kg/client.py`, `kg/wire.py` | per thread: program counter, local process, request; the runner is external |
| `PasswordVault` | `serverconf/secrets.py` and the column of passwords | a value with its prefix and key; one action per statement of the migration and the handlers |
| `RankFusionProofs`, `KnowledgeGraphProofs` | lemmas and theorems about the pure operators | |
| `AnswerPipelineProofs`, `GraphToolProofs`, `PythonWorkerProofs`, `JenaClientProofs`, `PasswordVaultProofs` | theorems about the module each is named for | |
| `MC...` | instances for TLC | |

Operators whose comment starts with `Variant:` stand before the definition they are a wrong form of.
No specification uses them: they record the mistake each property is there to catch.

### How ProfileSwitch follows the code

* A client has one request in flight; the handlers are plain functions, so requests of different
  clients run on different threads. A step is one statement (Postgres runs each atomically under
  autocommit), one probe, or one assignment. `runtime.rebind` assigns twice (`http_server.py:51`,
  `:52`); the actions `Swap` and `Label` separate them because a thread may be preempted there. The
  tuple read at line 166 is one step: reading between the two assignments of another thread is the
  interleaving it adds to, and that one is there.
* `activate` is `ActivateGet`, `Probe`, `Remember`, `ClearOthers`, `Mark` (or `MarkRefused`), `Fetch`,
  `Swap`, `Label`, and its except clause `Undo`, `Rebuild`, `Swap`, `Label`. Only `settings_for` and
  `rebind` are inside the try block, so a failure before it answers 4xx or 500 without a rollback.
* `deactivate` binds first and clears the table afterwards; `delete` compares first and deletes
  afterwards.
* A failing statement either did not run or committed with its answer lost (`StatementFails`). The
  factory may raise (`BuildFails`); in `deactivate` that changes nothing, so it is not a step. `Crash`
  loses the process and its requests and keeps the table; `Boot` is `build()`, including a store that
  cannot be opened and a read that fails.
* A row is reduced to the server it names. `Reachable` says which servers answer a probe, and does not
  change: a server that goes down after its probe is the environment's doing, not the code's.
* Reads that change nothing (lists, health, testing a payload), the uniqueness of names (a failing
  statement without effect) and validation errors are left out.
* `probed`, `clean` and `edited` are history: no action's guard reads them. `edited` says that the bound
  profile's row was changed by PUT since it was bound. `Update` never touches the Runtime, so a restart
  then binds the edited row, unprobed; `RecordAgrees` compares the bound server with the row's only
  while this has not happened.

### How AnswerPipeline follows the code

* `Routes` are the outcomes `route()` can have: no tool, one tool (stage A), or all three in the order
  of their scores (stage C). Which one a question gets is left open, so every property holds for every
  scoring.
* `CallSql`, `CallSearch` and `CallGraph` are steps of the pool's threads and interleave freely;
  `Compose` waits for all of them, as leaving the pool does, and picks what a stable sort by (failed,
  most rows) puts first. A call's locals and results are cleared when they are out of scope.
* `SqlService.answer`'s three failures (guard, semantic guard, database) share one budget; the model's
  timeout and error, and the database's timeout, end the call without a retry.
* `SearchService.search` is modelled with its nested second search; `Ingest` may add chunks between
  any two of its statements. Chunks are never deleted by any code of the repository. A ranking by
  embedding with a filter goes through an HNSW index (`sql/03-extend-vector.sql:6`), which may hand
  over few or none of the matching chunks: `VectorRanked` ranks any part of them, and the filter may
  be released although matching chunks exist. Without a filter every chunk is a candidate.
  `RankFusion` compares exact fractions; for ranks up to 20 the floating point sums compare the same
  (every pair was enumerated).
* `Word` ends in the model's text, in `fallback_table`, or in status 500 for a reply that raises
  something other than `LlmError`.
* A question shares no state with another one in flight (the tools and the orchestrator keep none), so
  one at a time is asked; what they do share, the pool of connections and the think flag, is listed
  among the hazards.

### How GraphTool follows the code

* `find_all()` is a statement at a time: `FindExact` (by name, then by compact name; the two are one
  step, since a node only ever appears), `FindSimilar`, `FindNames`, `FindWords`. An exception in any
  of them leaves no entity (`FindFails`), which `CompositeResolver` swallows. `names_in_text` orders by
  length and stops after five names: `Rows` are any of the names, `NameLimit` at most.
* The graph may be empty. An identifier then has no candidates to be compared with (`bare`), and
  `CompositeResolver` drops it, where it otherwise reports it as an entity that was named.
* Text is data: which texts have the form of an identifier, are names, contain names, or resemble
  them, are constants. A question has at most one identifier and one Korean word that is no name. The
  resolver's aliases are never given by `provide()`, so that branch is left out.
* `Route` takes any set of keywords closed under containment, and `BuildParams` any of the relations,
  types and triggers that words may select. Where the decision is forgotten (`FollowDecision`) is the
  model's choice: nothing reads it again.
* The tool resolves the name it is given once more (`ToolExact`, `ToolSimilar`) and walks (`Walk`) or
  ranks (`Rank`). A ranking that asks for more than its limit cannot arise among six nodes.
* Scores are shares of one total, so comparing evidence compares scores. `RuleRouter` counts in tenths
  and multiplies out the divisions; for up to eight keywords of each module the floating point
  comparisons of the code give the same (every combination was enumerated).

### How PythonWorker and AirWorker follow the code

* The event loop runs one callback at a time: `Call`, the timer (`TimeOut`), the callback of a failed
  write (`WriteFails`), a line (`OnLine`), an exit (`OnExit`), and `RestartOnce` and `Close`, which the
  bridge offers its owner. A process that has ended stays the current one until its exit event, and a
  closed readline interface (`muted`) delivers no more lines.
* `proc.killed` is true once a signal was sent, not once the process is gone.
* A worker may end anywhere, in the middle of a line too (`Torn`). `AnswerUnprintable` is `json.dumps`
  outside the try statements.
* Not in the model: an `error` event of the process or its stdin, for which nobody listens; it ends
  the host.
* `sentTo` and `retired` are history.

### How JenaClient follows the code

* A thread's call is `EnsureStarted`, `FirstSpawn`, `Write`, on failure `CheckRestart`, `ClaimRestart`,
  `KillRunner`, `Respawn` and `Rewrite`, and `ReadLine` or `ReadEof`. Threads interleave between
  statements, since the client has no lock; the threads that use the client are chosen at the start. A
  test of `self._proc` with `poll()` is one step, and so is the assignment of a new process with the
  `return` after it.
* `Write` fails for a process that is gone, and may fail for one that runs: the code catches every
  exception and then kills and replaces a runner that may be healthy.
* A response and an exception end a call alike (`Return`): which of them the caller gets depends on the
  line alone, by the comparison of two ids in `JenaResponse.from_json`.
* A time limit that is only read after `readline()` returned changes the class of an error and
  nothing else (`JenaTimeout` is a `ProcessError`), so it is no action. `close()` is `Close`,
  `CloseWaits` and `CloseForgets`; any thread may take it, whatever the others are doing.
* The runner is external: it prints a line for a request (a response, or one that the protocol
  refuses), prints lines nobody asked for, or ends.

### How PasswordVault follows the code

* A value is null, plain, encrypted under a key, or a password that happens to start with the prefix
  (`Forged`). The last is stored as it was given (`secrets.py:23`): `InPlaintext` counts it, and
  `NoneInPlaintext` excepts the rows whose password was given so. Fernet is taken at its word: another
  key does not decrypt.
* `Start` reads the rows, `Migrate` handles one row (rotate, verify, or give the store up),
  `MigrationFails` is a failing statement, and `Crash` may come anywhere; the next start may have
  another key or none. Then `Create`, `Update` and `Delete` as `validate()` and COALESCE make them.
* The rest of the row, and which rows are active, is `ConnectionStore`'s.

## 3. Runs

| Run | Instance | Shows |
|---|---|---|
| `one_client` | 1 client, 3 ids, 2 servers of which one answers, all failures; 77 thousand states | `TypeOK`, `BoundProfileExists`, `RecordAgrees`, `ActivatedServerAnswers`, `CompletedActivationHeals`, `ServingKept` |
| `two_clients` | 2 clients, 2 ids, all failures, ids symmetric; 2.4 million states | `OneActiveProfile`, `OnlyProbedProfilesServe` |
| `questions` | 3 texts (vetted, rejected by either guard), 1 retry, 2 chunks of 2 types, up to 2 rows; 437 thousand states | `TypeOK`, `AsksAnew`, `AgreementWins`, `ReleaseIsTold`, `EmptyMeansNothing`, `FailureHidesNothing`, `EveryQuestionAnswered` |
| `delete_races_activate` | 2 clients, no failures | violates `BoundProfileExists` |
| `unreachable_activated` | 2 clients, no failures | violates `ActivatedServerAnswers` |
| `rollback_forgets_record` | 1 client, failing builds | violates `RollbackRestoresRecord` |
| `bridge` | 3 calls, 3 processes; 530 thousand states | `TypeOK`, `NoProcessLeftBehind`, `KeepsContract` (refinement with liveness), `OnlyNewProcessRestoresBudget`, `ExitFailsOwnCalls` |
| `worker_dies` | 3 calls, 2 processes | violates `ServingKeepsWorkerAlive` |
| `jena` | 1 or 2 threads, 3 processes, 2 calls, 1 line nobody asked for; 270 thousand states | `TypeOK`, `CallerInStep`, `OneRunner`, `EveryCallEnds` |
| `vault` | 3 rows, 2 passwords, 2 keys; 13 thousand states | `TypeOK`, `OpenStoreReadsEveryRow`, `NoneInPlaintext`, `PasswordsKept`, `SameKeyReopens` |
| `graph` | 6 nodes of 5 types, 64 questions, 12 sets of relations, 4 keywords; 249 thousand states | `TypeOK`, `DecisiveHasKeyword`, `IdentifierKeepsGraphAhead`, `ReplacementIsTold`, `RanksWhatIsAsked`, `NothingMissed` |
| `fuzzy_untold` | as `graph` | violates `FuzzyIsTold` |

The bounds. Ids are never reused, so `Ids` bounds the profiles ever created; two overlapping requests
touch at most two profiles, and a third id gives one client a profile to delete, one that is bound and
one to switch to. Two servers give every outcome of a probe. The theorems remove these bounds. Two
chunks of two types give a filter that matches nothing, something and everything; three texts give
every verdict of the guards; one retry is `MAX_RETRY`. `TopK` is 1, so that fusion leaves something
out, and two chunks are the fewest of which one may be found by both rankings and the other by one; the
ranks up to the code's `Limit` of 20 are the theorem's. Two rows let two tools find a different number.

Three processes let one be retired, one be current and one follow; three calls let one be pending
with each of two processes and one time out. Two threads are the least that interleave; with two calls
one of them follows another, or both are in flight, and `close()` and `health()` come as often as there
are processes left. (A third call gives a million states and no other outcome.) Three rows
let a start be cut off with a row rotated, a row not reached and a row added later; two keys are a
right and a wrong one. The graph has a second client, so that a path of two hops can lead back to a
type and, in a wrong model, to its start; it starts whole, without that client and the project, or empty,
so that an ingestion changes what is found. `NameLimit` is 1, so that the names in a question may exceed
it. Its questions have an identifier that exists, one that contains a
name, one that differs from a name in a letter, or none; a word that resembles a name, or none.

The five violations are disagreements between the code and what the repository says of it:

* `rollback_forgets_record`: the comment at `http_server.py:170` says that both the record and the
  binding are reverted; `current.deactivate()` leaves no profile recorded, although the earlier one is
  bound again. After a restart the environment's server is bound.
* `delete_races_activate`: a bound profile "cannot be deleted" (`:142`), but the comparison is not
  atomic with the statement, and an activation in another thread binds what is being deleted.
* `unreachable_activated`: `tests/test_server_connections.py:3-4` calls it a core invariant that a
  server that cannot be reached does not become active; the row is read again after the probe, and may
  have been edited meanwhile.

* `worker_dies`: `air_worker.py:34` and `:52` say that no exception ends the worker, but the answer is
  serialised outside the try statements, and a date or a decimal in a row cannot be serialised.
* `fuzzy_untold`: `kg/service.py:28-29` says that looking up another entity by similarity must be
  disclosed; a name corrected in the question reaches the tool as an exact one. `ReplacementIsTold`,
  which holds, is the same with that exception.

`delete_races_activate` and `unreachable_activated` need overlapping requests: `one_client` shows
that the same properties hold without.

Fairness. `ProfileSwitch` has none: it states safety only, and a client may walk away at any step.
`AnswerPipeline` assumes that some thread of a question moves on as long as one can, whichever the
scheduler picks: every external call has a time limit (90 s for a generation, 30 s for an embedding,
5 s for a statement), after which it fails. It does not assume that each thread gets its turn; since
every call takes boundedly many steps, that is not needed. Nobody is assumed to ask or to ingest.
`PythonWorker` assumes that a timer that is set and not cleared fires, and nothing of the child.
`JenaClient` assumes that threads are scheduled and, for `EveryCallEnds` only, that the runner
serves what it has read or ends, and that a killed process ends: the client has no limit of its own
on a read, so a runner that hangs holds its caller for ever, and the property says how much rests on
the runner. `PasswordVault` and `GraphTool` state safety only.

## 4. Proofs

Every invariant and every action property of the passing runs is also a theorem of the
specification, for every value of the constants that the named assumptions allow. Each proof has one
step per action; the last step combines them with temporal logic.

| Module | Theorems (and the property each states) |
|---|---|
| `ProfileSwitchProofs` | `TypeCorrect` (`TypeOK`), `NeverTwoActive` (`OneActiveProfile`), `OnlyProbedServe` (`OnlyProbedProfilesServe`); for one client `BoundExists` (`BoundProfileExists`), `RecordKept` (`RecordAgrees`), `ActivationReaches` (`ActivatedServerAnswers`), `ActivationHeals` (`CompletedActivationHeals`), `ServingImplemented` (`ServingKept`) |
| `PasswordVaultProofs` | `TypeCorrect`, `OpenReads` (`OpenStoreReadsEveryRow`), `NothingPlain` (`NoneInPlaintext`), `NoneLost` (`PasswordsKept`), `SameKey` (`SameKeyReopens`) |
| `AnswerPipelineProofs` | `TypeCorrect`, `EachAttemptAnew` (`AsksAnew`), `TwoRankingsWin` (`AgreementWins`), `ReleaseNoted` (`ReleaseIsTold`), `EmptyIsNothing` (`EmptyMeansNothing`), `FailuresHideNothing` (`FailureHidesNothing`) |
| `RankFusionProofs` | `FuseKeeps`, `TwoBeatOne`, `AgreementKept` |
| `PythonWorkerProofs` | `TypeCorrect`, `NothingLeftBehind` (`NoProcessLeftBehind`), `NewProcessRestores` (`OnlyNewProcessRestoresBudget`), `ExitFailsOwn` (`ExitFailsOwnCalls`), `ContractImplemented` (the safety half of `KeepsContract`) |
| `JenaClientProofs` | `TypeCorrect`, `OneCallerInStep` (`CallerInStep`), `OneCallerOneRunner` (`OneRunner`) |
| `KnowledgeGraphProofs` | `PathsReach`, `TraverseFinds`, `RefusedMeansNone`, `RankedType` |
| `GraphToolProofs` | `TypeCorrect`, `KeywordDecides` (`DecisiveHasKeyword`), `IdentifierCounts` (`IdentifierKeepsGraphAhead`), `ReplacementDisclosed` (`ReplacementIsTold`), `RankingsFit` (`RanksWhatIsAsked`), `TraversalComplete` (`NothingMissed`) |

### ProfileSwitch

For every number of clients, ids and servers and every set of failures:

* `TypeCorrect`: `TypeOK` is inductive by itself.
* `NeverTwoActive`: `OneActiveProfile` is inductive relative to types; the step that matters is
  `SetActive`, which the unique index guards.
* `OnlyProbedServe`: not inductive alone, since a profile travels from the probe to the table through
  a request's locals. `ProbedInv` adds `LocalsProbed`: the argument of a request past its probe, and
  whatever `previous` and `target` hold, has been probed.

and, under the hypothesis `OneClient` (requests do not overlap):

* `BoundExists`, `RecordKept`, `ActivationReaches`, `ActivationHeals` and `ServingImplemented`, all from
  `OneClientInv`: `RequestInv` says what the only request knows at each of its steps (for instance that
  between `Mark` and `Label` its profile is the only active one and exists), and `AgreeInv` extends the
  agreement to the steps before the first statement. `ServingImplemented` is the refinement, with
  `serving` mapped to the bound settings and `wish` to what the only request still owes its client
  (`Pending`, a function of its step): a request that begins maps to `Ask`; `Swap` maps to `Switch` or
  `Revert` by the value of `target`; a step that gives `activate` up before `Swap` maps to `GiveUp`, and
  what a failed activation does from there on (`Undo`, `Rebuild`, `Swap` back) to stutters, because it
  brings back the settings that were bound all along; `Crash` and `Boot` map to `Stop` and `Start`.

That `OneClient` is needed is what the two interleaving runs show.

### PasswordVault

`OpenReads` and `NothingPlain` speak of an open store only, and what makes them true happens before it
opens, a row at a time. `PassedInv` says it of the rows a running migration has passed; a start that is
cut off or given up makes no such claim, so nothing has to be carried over a crash. `NoneLost` is
inductive given `KeyInv` (the key of a migration or an open store is one a start was configured with):
a value is encrypted at most once, and with that key. `SameKey` needs to know where unreadable values
come from (`OriginInv`): written under another configured key, or given with the prefix; the latter is
also what `NothingPlain` excepts.

### AnswerPipeline

`PipelineInv` has one part per actor, because a step of one call changes nothing of the others:

* `SqlInv`: a text that is vetted or run was generated; with it `AsksAnew` is inductive.
* `FilterInv`: the filter is the one asked for, or its release is noted. It gives `ReleaseNoted`
  together with `RankingInv`, by which the rankings hold what passes the filter and nothing is left of
  them at other steps.
* `NothingInv`: when an unfiltered ranking by embedding came back empty there was nothing when the call
  began. The corpus only grows; that is why this survives an ingestion between any two statements.
* `PhaseInv`: outside `running` no call is under way. `FailuresHideNothing` needs it, and that a failed
  call returns no rows.

`TypeCorrect` needs `FuseKeeps`: the rows of a result are at most `TopK` because `fuse()` keeps that
many at most. That some ranked chunk comes last would be an induction over the size of a set;
`Smallest` gets it instead from the library's theorem that strict inclusion of finite sets is
well-founded. `AgreementKept` says of `fuse()` what `AgreementWins` says of a search: of the first
`TopK` by score none has been passed over for a chunk that only one ranking found (`TwoBeatOne`, for
rankings up to `RRF_K` long). `TwoRankingsWin` therefore has `Limit <= RRF_K` as a hypothesis, and
the rest is that no ranking is longer than `Limit`.

### PythonWorker

`TypeCorrect` is inductive by itself. The others rest on `BridgeInv`:

* `PendingInv`: whoever waits has an entry in the map;
* `ProcsInv`: the current process was not killed, and any other was killed or its exit handled. This
  is `NothingLeftBehind`;
* `LinesInv`: a process reads and prints only what was sent to it, so that an answer is the call's own;
* `SentInv`: a pending call was sent to the current process or to a killed one.

`ContractImplemented` shows step by step that the bridge implements `CallContract`: `Call` maps to
`Make`, a line with a known id to `GetAnswer`, a timeout, a failed write, an exit and `Close` to
`Fail` of the calls they reject, everything else, `RestartOnce` included, to a stutter. A late
answer finds no entry and is a stutter too.

### JenaClient

`OneCallerInStep` and `OneCallerOneRunner` hold for one caller only, through its calls, `health()`
and `close()` in any order and whatever fails in them. `PipesInv` says what may be in the pipes at
each step of its call: nothing, its request, or the line that answers it, as long as the runner
prints nothing it was not asked for. `RunnerInv` says that only the current process runs without
having been killed, and that it does not when the caller is about to spawn another or to forget it.
Both need that nobody else is in a call (`OthersIdle`). The properties themselves carry the
hypothesis of one caller; the runs have instances with two.

### KnowledgeGraph and GraphTool

`MaxHops` is 2 in the code, and no plan has more (`HopsBound`), so the recursive functions are unrolled
twice: `PathsReach` says that the paths of `Paths` end where `Within` reaches, `RefusedMeansNone` that
a plan is refused only if none of the wanted types is within reach in any dataset of the ontology.
`TraversalComplete` follows: whatever is ingested, the answer holds all that is wanted within reach.

The router's lemmas order the modules by evidence and name (`ForemostIsAhead`, `RankedOrders`),
bound what a question without keywords can reach (`DecidedByKeyword`) and compare the graph with the
others when an entity was named (`EntityKeepsAhead`). `IdentifierCounts` states its exceptions: a
period in the question (its 3.0 for nl2sql beat the entity's 2.0, so that the graph needs more
keywords than nl2sql), a lookup that failed, and an empty graph. In each of them the code lets the
question drift, which `resolvers.py:38-40` wants to avoid. `GraphInv` is what the question knows of
itself: `FoundInv`, that the first node is one the question names or a guess and that an identifier
that was looked up was found or is missed, and `ParamsInv`, that the name the tool starts from is
that of this node, or the whole question. `ReplacementDisclosed` follows from both, since the tool
resolves the name a second time.

### Assumptions

`NoIdAssumption`, `NoKey`, `NoText`, `NoNode`, `NoProc` and the like say that a value standing for
"none" is none of the others. `ProfileAssumption`: there is a server, and the reachable ones are
servers. `VectorAssumption`: finitely many chunks, told apart by their ids; `TopK` is at least 1 and
at most the rows of a result, the statements' `LIMIT` at least 1 (only `TwoRankingsWin` asks that it
be at most `RRF_K`; the code has 20 and 60). `JenaAssumption`: finitely many threads.
`WorkerAssumption`: there is a first process. `RouterAssumption`: finitely many keywords. Two are
about the dataset, and `ingest.py` checks neither: `GraphAssumption`, that edges join the types the
ontology declares for their relation (the Java program's `OfficialGraphSourceValidator` checks it),
and `TextAssumption`, that a node's name leads back to that node. TLC evaluates all of them on the
instances.

### What is only model-checked

* Liveness: `EveryQuestionAnswered`, `EveryCallEnds`, and the part of `KeepsContract` beyond
  `ContractImplemented`. Liveness under fairness, and ENABLED with it, is out of the prover's reach.
* That the strengthened invariants hold on the instances was checked with TLC before they were proved;
  no run keeps doing it, as the proofs now do.
* What `Paths` and `Within` compute for more hops than two would be an induction over data, which
  cannot be carried out here. No module has a RECURSIVE operator; recursion is written as functions.
* The five violations are counterexamples and need no proof.

## 5. Plan

What is left:

1. An abstract specification of a question (what `respond()` promises its client) that
   `AnswerPipeline` implements, and one of the vault as a store of passwords, each with its refinement
   proved.
2. `CallContract` for `JenaClient` with one caller.
3. Hazards without a property, as listed in `PROJECT.json`: the pool of connections, which questions
   share, and repeated ingestion of a dataset that changed.

## 6. Not modelled

Regular expressions, prompts, tables and the wording of answers; the parsing of the SQL guards, whose
verdicts `SqlTool` takes as given; the text of chunks and the order of the rows found; the size of
the pool of connections and the think flag, which questions share; repeated ingestion of a dataset
that changed; HTTP and MCP framing; settings, tracing, the schema and its data; the setup and
evaluation scripts; the two Java programs, which run on their own. `PROJECT.json` names each part with
its reason.
