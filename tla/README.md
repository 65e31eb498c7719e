# MemoryEngine in TLA+

A verification project for MemoryEngine (`src/src/memory_engine`), a service that
remembers things about the users of other applications. It holds TLA+ models of the
parts whose correctness depends on order, interleaving, failure or long histories, the
TLC configurations that check them, and TLAPS proofs of what matters most. Paths below
are relative to the repository root `src/`; `control/service.py` stands for
`src/memory_engine/control/service.py`, and so on.

## 1. The system

Operators edit **configuration documents** of three kinds (API ontology, memory
ontology, policy profile), validate, approve and publish them as a **snapshot**.
Applications send **events** to the API. The **decision policy** turns each event, under
the active snapshot, into a verdict (block, observe, keep for the session, upsert,
forget), and the event, its decision and a **job** are stored in one transaction. A
single **worker** process takes jobs from the table, persists **memories**, relations,
evidence and embeddings, and resolves conflicts between values. Applications query and
forget memories over the API. Everything is in one PostgreSQL database, used through
SQLAlchemy sessions with autoflush and expire-on-commit off, at READ COMMITTED. Operators
work in a **web console** (`apps/web`), whose pages keep what they last fetched in React
state, call the API with `fetch`, and share one session in the browser's storage between
tabs.

| component | state | operations | talks to | what is hard | correct when |
|---|---|---|---|---|---|
| Control plane (`control/service.py`) | `config_documents`, `config_publications` | create, edit, revise, validate, approve, archive, publish, roll back, resolve | API routes; worker and ingest call `resolve_snapshot` | long legal sequences; requests that overlap; two commits in one request; no locks | a snapshot in force denotes exactly what was approved and validated, one per slot, and tenants do not disturb each other |
| Validation rules, API package compiler (`control/service.py:197-369`, `control/api_package.py`) | none | definition -> issues | control plane | case analysis | total and deterministic |
| Ingest and decision (`runtime/policy.py`) | none of its own; reads `signal_counters` | `evaluate_event` | control plane, extractors, model gate | order of the rules; switches; untrusted model output | nothing blocked persists; the model only narrows |
| Model gate (`runtime/inference.py`) | none | order the providers, prompt, call, retry, parse, select | external providers over HTTP | timeouts, bad answers, the next provider | no answer can widen what the rules allow; the first valid answer decides |
| Repeat signals (`runtime/service.py`) | `signal_observations`, `signal_counters` | observe, recount | policy reads, worker writes | lagging counters, windows | one-off events do not persist |
| Job ledger and worker (`runtime/service.py:792-929`, `worker/main.py`) | `ops.jobs`, `api_events.status` | enqueue, take, complete, fail | API threads, worker | overlapping commits, crashes, a commit in the middle of a job | FIFO, at most once, the rows tell the truth, nothing starves |
| Memory persistence (`runtime/service.py:314-697`) | `memories`, `relations`, `entities`, evidence, embeddings | `persist_event_job` | worker; embedding provider over HTTP | queries on unflushed rows; failures half way; sources of different standing | one value per slot, lineage and evidence kept, the stronger source wins |
| Forget (`runtime/service.py:932-973`) | the same tables | by user, type, key, relation | API thread beside the worker; FORGET events | races with a job in flight | what was forgotten stays forgotten |
| Maintenance (`runtime/service.py:808-886`) | the same tables | ttl_cleanup, recompute_conflicts, embedding_backfill, replay_snapshot | worker | they ignore the types' rules | they revive nothing |
| Retrieval (`runtime/service.py:976-`) | reads all of the above | `query_memories` | API | ranking, visibility | only active rows of the right user |
| Console: session (`lib/api/client.ts:321-364, 757-860`, `components/console-shell.tsx`, `login-form.tsx`) | the stored session, what each tab shows, requests under way | log in, open a page, me, retry, sign out, 401 | API over HTTP; other tabs through the storage | answers that come after their tab went on; tokens that expire | a token is never shown as another operator's; checking and signing out end |
| Console: configuration workspace (`workspace-sections.tsx:1473-2333`) | documents last fetched, selection, source text, dialogs, handlers under way | load, edit, save, validate, approve, archive, publish, import, starter, switch, discard, reset | API over HTTP; colleagues on the same documents | handlers that go on with old variables after an await; overlapping refreshes; refused and lost answers | what is validated is what was saved; bundles are of one family; unsaved changes are asked about |
| Console: API package editor (`workspace-sections.tsx:404-1362, 1655-1672`, `lib/config-editor.ts`) | the package as text, three selections | add, remove, rename, edit, select, save, reset | workspace | every edit goes through text and a parser that drops what it cannot read; references between parts | what is selected is shown; a removal leaves no reference |
| Console: the other pages (`workspace-sections.tsx:2335-3503`) | rows last fetched, filters, selection, run or simulation on display | load, filter, select, validate, simulate, roll back | API over HTTP | answers out of order; state set in three places | rows answer the filters; the run shown is the selected document's |
| Payload protection, embeddings, metrics, settings, migrations, the console's presentation and demo store | mostly none | | | | |

The hazards of this code are listed, each at its line, in `PROJECT.json` under
"hazards"; the properties below are chosen from that list.

## 2. Modules

| module | models | kind |
|---|---|---|
| `ConfigStore` | the two control tables and the queries on them | data and operators |
| `ConfigControl` | every handler of the control plane, one request at a time | specification |
| `SnapshotRegistry` | what the control plane promises: a register per slot that serves a released snapshot | abstract specification |
| `ConfigRequests` | the same handlers cut at their reads, flushes and commits, several at a time | specification |
| `ConfigControlProofs` | theorems about `ConfigControl`, the refinement of `SnapshotRegistry` included | proofs |
| `ConfigRequestsProofs` | theorems about `ConfigRequests` | proofs |
| `SerialQueue` | what the job table promises: real-time order, nobody served twice | abstract specification |
| `JobLedger` | API requests, the worker process, crashes and restarts | specification |
| `JobLedgerProofs` | theorems about `JobLedger`, the refinement included | proofs |
| `MemoryStore` | the worker's session, the memory tables, concurrent forgets, maintenance | specification |
| `MemoryStoreProofs` | theorems about `MemoryStore` | proofs |
| `Decision` | `evaluate_event` as operators | data and operators |
| `PolicyGate` | verdicts over freely chosen inputs, providers asked in turn | specification |
| `RepeatSignals` | repeat signals: ingest, recount by the worker, the score and its rule | specification |
| `VerdictProofs` | theorems about `RepeatSignals`, `Decision` and `PolicyGate` | proofs |
| `OperatorSession` | the stored session, the shells and login forms of several tabs, requests and late answers | specification |
| `ConfigWorkspace` | the configuration page, its handlers cut at their awaits, over a server that others use | specification |
| `ConfigWorkspaceProofs` | theorems about `ConfigWorkspace` | proofs |
| `PackageEditor` | the structured editor of an API package over its text | specification |
| `OperatorProofs` | theorems about `OperatorSession` and `PackageEditor` | proofs |
| `ConsolePages` | the seven other pages, their handlers cut at their awaits | specification |
| `ConsolePagesProofs` | theorems about `ConsolePages` | proofs |
| `MC*` | the instances for TLC | model checking |

A definition whose comment starts with "Slip:" is a plausible mistake in the definition
after it. It is used by no specification. Each property of a passing run is paired with
one: with the slip in place of the definition TLC finds the property violated
("mutants" in `PROJECT.json`).

The runtime's state machines meet in the database. `ConfigControl` gives the runtime its
snapshot; `Decision` gives `MemoryStore` its `Decisions`; `JobLedger` gives it the
order in which jobs run and the fact that one runs at a time. `MemoryStore` therefore
starts jobs in any order and lets any of them fail or die, which covers every order the
ledger allows; `RepeatSignals` does the same, and gives `Decision` the score it takes freely.

The console's four modules meet the others at the API: `OperatorSession` says whose token a
request carries; `PackageEditor` produces the text that `ConfigWorkspace` saves as an opaque
value; `ConfigWorkspace` and `ConsolePages` contain the control plane's handlers in one step
each, reduced to what a page can see of them. That requests overlap on the server is the
subject of `ConfigRequests`; that answers overlap on the page is the subject here.

### Control plane

`docs` and `pubs` are the tables. A definition is an opaque value; what
`validate_definition` says about it is the parameter `HasError(kind, definitions)`, and
`Raises` stands for a policy definition that does not parse, which ends validation with
an exception. `hash` is the tuple of definitions it was computed from (checksums do not
collide). Rows of `pubs` are in the order of `published_at`.

| action | code |
|---|---|
| `CreateDocument`, `EditDocument`, `ReviseDocument` | `save_document` 401-520: a new row, an edit in place (back to draft), a new draft of an approved or published document |
| `ValidateDocuments` | `validate_documents` 585-708, with the completion of a partial selection from the active snapshot and its status writes, also to approved documents |
| `ApproveDocument`, `ArchiveDocument` | 523-582 |
| `PublishDocuments`, `PublishRejected` | `publish_documents` 813-888: validation and its commit, then activation; a failing publish leaves the writes of the first commit |
| `RollbackPublication` | 891-943: a new row that copies an older one |

In `ConfigRequests` each request has a `session`. It loads copies (`Begin...`), commits
what it derived from them (`Commit...`), and other requests come in between. The last
commit of publish and rollback is split again: the flush stamps `published_at` and locks
the rows it updates (`RespectsLocks`: another request's write to them waits), then the
commit makes everything visible. `unseen` holds rows that are flushed and not committed,
or rolled back. `Abort` is a lost connection or a killed process.

### Job ledger

`request` is the client's side of a request, `status`, `stamp`, `attempts` and `event` are
columns, `effects` says how much of the job's work is committed. `Flush` stamps
`created_at`; `Commit` makes the row visible, possibly after a row with a later stamp.
`Refuse` covers every rollback of an ingest, among them the colliding first insert of a
metric row (`ops/metrics.py:26-49`). `Take` is the first commit of `process_next_job`.
`CommitForget` is the commit inside `forget_memories`, in the middle of the job.
`Complete` and `Fail` are the two ends; `Fail` may leave part of the work, because its
branch commits without a rollback. `Die` and `Restart` are the process. `before` and
`abandoned` are history variables.

### Memory store

One worker session (`rows`, `links`, `objects`) over the committed tables. `DbState` and
`Visible` say what a query of that session returns: committed rows and flushed changes,
not assigned ones. `moved` are rows whose state it assigned, `pending` those of them not
flushed yet. `ResolveCandidate` is one round of the loop over candidates, `PersistIntent`
the workflow memory after it, `CommitJob` the commit, with or without an exception. The
commit writes the state column only where the session assigned it (`Written`), which is
why a forget that commits meanwhile survives. `ReadForget` and `WriteForget` are the API's
forget; it waits for rows the worker has flushed. `up` and `recent` choose once per job
whether the embedding provider answers and whether the typo window is open. A relation has the
type that the API entry's first template gives all candidates of a decision, or else the
memory type of its candidate (`LinkType`); a template also makes an entity for values whose
type has none (`HasObject`). Memory types have entity types of their own here.

### Decision policy

`Decide` is the chain of `evaluate_event`: forget, hard block, blocked candidates, explicit
write, model, repeat rule. An input is a policy (its switches and thresholds), an
ontology (enabled types and their ceilings), an API entry, an event (fields with the level
their extractor assigns, the level of the classifier, the tenant's override), a repeat
score and the model's answer, which may be `Silence`. Levels are ranks 0 to 4.

`ProviderIds` is `select_inference_provider_ids`: the providers of every gate rule that fits the
entry and the candidates, then the default, each once. `PolicyGate` is the loop over them, one
request at a time. `Evaluate` is everything before it; `turn` is the provider whose turn it is,
`again` whether its request is the repeated one, `requests` what was sent so far. `PassOver` is
a provider that is not to be had, `Fail` a request that fails (ollama's is repeated once, unless
the failure is of another kind than `infer` catches), `Reply` a valid answer, which ends the loop,
and `Exhaust` the end of the order with no answer.

### Repeat signals

`observations` and `counter` are the two tables, `stage` is where an event is between its
decision and its recount. `Judge` is `evaluate_event` as far as repetition goes (`Judged`
reads the counter of the first candidate), `Enqueue` the commit of event and job, `Count` the
job's `_record_signal_observation` for each candidate, `Miss` a job that fails before it or a
worker that dies. `Counted` and `Score` are the arithmetic, in hundredths and days; an
exponential that halves by steps differs from the code's only where a sum is below one, which
it never is. `Apis` and `Entry` are what the ontology says of an API.

### Operator session

`stored` is the storage key all tabs share, `tab` what a tab shows (login form, or a shell
that is checking, failed or ready), `call` the requests under way with the session that was
stored when they were sent. `issuedTo` and `expired` are the server's side of tokens.
`ReceiveMe`, `ReceivePage`, `LoginAccepted`, `LoginRefused`, `ReceiveLogout` are the code
after the awaits of `client.auth.me`, any page request, `login` and `logout`
(`lib/api/client.ts:757-860`) with what the components do next; `live` is the flag that the
shell's effect clears when it unmounts (`console-shell.tsx:252-282`). An answer to a request
whose component is gone still writes the storage. `Expire` happens at any moment, `Reload`
drops a tab's requests.

### Configuration workspace

`allDocs`, `activeId`, `sourceText`, `loading`, `error` and `gate` are the React state;
`server` the documents of one environment. A `handler` is a press of a button from its first
await to its end: `op` is the request it awaits, `reply` the answer, `prefer`, `bundle` and
`text` the variables it closed over. `SaveDraft`, `ValidateDraft`, `ApproveDocument`,
`ConfirmPublish`, `ConfirmArchive`, `ImportDocument`, `CreateStarterDraft` and `Retry` start
one; `Serve` and `Fail` are the server and the network (a request may be refused, lost, or
served with its answer lost); `ReceiveWrite` and `ReceiveList` are the code after an await.
`Select` is the effect that follows every change of selection or list
(`workspace-sections.tsx:1542-1562`); React renders between two answers, so it is part of the
step. `Colleague` edits a document meanwhile. A definition is a text; the server takes any,
and finds the ones in `Invalid` wrong.

### Package editor

`source` is the text, as the package it parses to, `editor` the document last saved or
reset, `selected` the three selections. Each operation of the editor is one action and ends
in `Change`: the new text, what `parseApiOntologyPackage` makes of it, and the effect that
moves the selections (`Settled`, 496-535). Half-typed names matter: the parser drops a module,
entry or workflow whose name is empty (`NoName`). A name is a text with the numbers that the
editor's default names add to it, `module_2.entry_1` being `module` with 2 and 1. `Kept` is
`filter`, by the places that stay: a function rather than an operator that takes a predicate,
which no proof could use.

### Other pages

`page` is the page that is open; the others have no state. `calls` are its handlers as above.
`results`, `publications` and `log` are the server's rows. `Realigned` is the effect that puts
the run of the selected document on display (2371-2376). `FilteredByServer` and
`FilteredByClient` say which filters have an effect, as `client.ts` sends or applies them.

## 3. What is checked

All runs are exhaustive within their bounds. `-workers 2`, each within three minutes.

| run | bounds | shows |
|---|---|---|
| `ConfigLifecycle` | one slot, 4 documents of 3 kinds, 2 contents each (a cross-document error, a policy that does not parse), 3 publications | `OneActivePerSlot`, `SnapshotIntact`, `PublishedApprovedAndValid`, and `ImplementsRegistry`, the refinement of `SnapshotRegistry` |
| `ConfigScopes` | global, one tenant's override, another tenant's emergency override; 3 documents, 3 publications | `OverrideIsolation`, `NeverDark` |
| `ConfigRaces` | 2 requests, 2 documents, 2 publications | `HashValidated` and `NewestServes` under revisions, publishes and rollbacks that overlap |
| `JobQueue` | 3 requests, one of each kind | `AtMostOnce`, `LedgerMatchesEffects`, `RunningAccounted`, `ImplementsQueue` (refinement of `SerialQueue`), `EveryJobSettled` |
| `MemorySlots` | 2 users, 2 keys, 3 sources, 3 jobs, a decision with two candidates of one slot | `OneActive`, `SupersededHasHeir`, `TraceableUnlessFailed`, `NeverRevived`, `StrongestSourceWins` |
| `MemoryCollections` | 1 user, 2 keys, 2 sources, 3 types, 3 jobs, two candidates per decision, relations named by type and by template | `OnePerKey` and `RelationsSound` on unflushed rows, `ForgottenStaysGone` |
| `GateRules` | 15 policies, 3 ontologies, every kind of entry, field sets and levels, 4 scores, 4 answers; 3 gate rules with filters of different kinds, 3 providers of which one is not configured and one retries | `NothingBlockedPersists`, `ModelOnlyNarrows`, `RequiredModelConsents` |
| `RepeatedTopics` | 4 events, 2 APIs (a read judged by repetition, a write of two candidates), 2 sessions or none, days 0, 2 and 5 with a window of 3 | `CountersCount`, `OneOffsWait`, `RepeatedInterestPersists` |
| `OperatorSession` | 2 tabs, 2 operators, 2 tokens, 2 requests under way | `PairConsistent`; under fairness `LoadSettles`, `SignOutLeaves` |
| `ConfigWorkspace` | 2 families of documents, 2 texts (one invalid), 2 handlers at a time, 2 presses beside the first load | `RequestsOneFamily`, `ValidatesTheSaved`, `LoadingAwaited`, `UnsavedAskedAbout` |
| `PackageEditor` | 2 modules with entries, one of which states the key of the other module, a workflow that refers to them; 3 edits, each any operation with any name | `SelectionShown`, `RemovalCleans`, `NothingNewDangles` |
| `ConsolePages` | 7 pages, 5 documents, 2 handlers at a time, 3 publications and 2 rollbacks, a log of 3 rows that grows by one, 2 or 3 values per filter | `CurrentFollows`, `FiltersAnswered`, `LoadingAwaited` |

Why the bounds are enough. *Control*: a slot, the publication it replaces and the one it
rolls back to are three rows; a revision needs a second document of one kind; races here
are between two requests that both write the same row. *Ledger*: order is a property of
pairs; the third request arrives during it. *Memory*: a value, its displacement and a third
job that meets the result; two keys make a conflict, a typo and a repetition; sources above,
at and below each other. Two candidates in one decision are the smallest case of a query on
unflushed rows. *Policy*: a verdict is a function of its inputs; each switch is thrown by
itself, one level lies below all blocks, one at a ceiling, one above, and answers select
nothing, something offered, something not offered. An order of providers has one that is passed
over, one that may fail, fail twice or answer, and one after it. *Signals*: two repetitions and what they
decide are three events, a fourth is late, dilutes a burst or is missed; the three days make
pairs inside and outside the window; the policy is one in which two sessions suffice, where
the default needs three or four, with the same shape: neither one event nor one session reaches the
threshold. What that asks of a policy is stated (`OneSessionFallsShort`, `TwoSessionsSuffice`), checked
for the run's and a hypothesis of the theorems. *Console*: what goes wrong here is that
one answer meets the state another left, so two handlers are the interesting number; the
first load, a press, and a second press while the first is awaited are the longest such
story, and a third handler only repeats it. Two families make a bundle that could mix them.
Three edits are one that breaks something, one that moves the selection and one that meets
the result. Two tokens are an old and a new one.

Symmetry is used for documents, requests and sessions, which the specifications do not tell apart,
and in no run with a liveness property.

Deadlock is checked where the system goes on for ever (the control plane, the session, the
package editor, the other pages). `CHECK_DEADLOCK FALSE` stands where a bounded run ends: all
requests answered and served, all jobs used up, one verdict taken, all presses of the
workspace used while an error card stands.

Fairness is assumed in two places. In `JobLedger`: weak fairness of `Take`, because
`worker/main.py` polls in an endless loop, and of `Complete` or `Fail`, because a job consists
of database statements and HTTP calls with timeouts. Clients owe nothing. Restarts are not
assumed either, as the compose file has no restart policy: the first half of
`EveryJobSettled`, that acknowledged jobs are taken (`EveryJobTaken`), has "the worker stays up
from some time on" as its hypothesis, and the second half excepts the jobs the worker died
on. In `OperatorSession`: weak fairness of the receipt of each request's answer, because
`fetch` settles in the end, with an error if nothing else. The workspace and the other pages
assume nothing: that a page does not hang is the invariant `LoadingAwaited`, that something
is awaited which will end it.

### Where the code differs from what is said of it

The properties below are stated in the modules and fail. To see the trace, put the property
in place of those of the named configuration, as INVARIANT or, where the table says (P), as
PROPERTY.

| property | configuration | the code | what is said |
|---|---|---|---|
| `PublishedValid` | `ConfigRaces` | an edit commits between the two commits of a publish and goes live unvalidated (`control/service.py:829`) | "Invalid documents cannot be published." (`docs/specs/spec_1.0.md:1933`) |
| `PublishedImmutable` (P) | `ConfigRaces` | an edit that loaded a draft commits after it was published (`control/service.py:497`) | "`published` documents must be immutable." (`docs/specs/spec_1.0.md:201`) |
| `ArchivedImmutable` (P) | `ConfigRaces` | the same after an archive | "Archived documents are immutable" (`control/service.py:454`) |
| `OneActivePerSlot` | `ConfigRaces` | two publishes deactivate the same row (`control/service.py:832`) | `assert len(active_publications) == 1` (`tests/integration/test_control_lifecycle.py:367`) |
| `ActiveNotArchived` | `ConfigScopes` | a rollback does not look at the status of the documents (`control/service.py:891-924`) | "Active snapshot documents cannot be archived" (`control/service.py:564`) |
| `UntargetedUnaffected` | `ConfigScopes` | without a tenant the filter is dropped (`control/service.py:733`) | "Tenant overrides affect only the targeted tenant." (spec 1938) |
| `Traceable` | `MemorySlots` | a memory is flushed, its embedding fails, and the failure is committed (`runtime/service.py:686, 923-927`) | "all persisted memories are traceable to evidence records." (spec 1944) |
| `UpdateSupersedes` (P) | `MemorySlots` | after a weaker source repeated the stored address, an update has an equal score and a different key: both lose (`runtime/service.py:561`) | "`profile.updateAddress` supersedes the prior active address." (spec 1940) |
| `SupersededIsLinked` | `MemorySlots` with `Ontology <- LinkedGoals`, `Decisions <- GoalDecisions`, `ForgetRequests <- ForgetPlain` | a candidate of a relation type supersedes a workflow's memory by a relation, which the row does not name (`runtime/service.py:556-603`) | the column `supersedes` (spec 1482) |
| `PrecedenceDecides` (P) | `MemorySlots` | a repeated value keeps the higher score under the weaker source's key (`runtime/service.py:518-524, 553`) | precedence scores decide (spec 1205) |
| `ConflictsTypeSpecific` | `MemoryCollections` | `recompute_conflicts` ignores cardinality (`runtime/service.py:859`) | conflict resolution is "memory-type-specific, not universal" (spec 1203) |
| `EmbedModeRespected` | `MemoryCollections` | the backfill ignores `embed_mode` (`runtime/service.py:845`) | spec 2000 |
| `ForgetIsComplete` (P) | `MemoryCollections` | a FORGET event leaves relations (`runtime/service.py:951`) | `assert after_forget == []` (`tests/integration/test_synthetic_memory_flow.py:313`) |
| `UniqueByObject` | `MemoryCollections` with `Ontology <- Notes`, `Decisions <- NoteDecisions`, `ForgetRequests <- ForgetPlain` | only relations are kept unique (`runtime/service.py:571`) | same object is a duplicate (spec 1229) |
| `RepetitionIsRecent` (P) | `RepeatedTopics` | the stored score is not aged between the last recount and the event it decides (`runtime/policy.py:338`) | `unique_sessions_30d`, `unique_days_30d` (spec 1441-1442) |
| `EachCandidateRepeats` (P) | `RepeatedTopics` with `Apis = {openDocument, searchCustomers}` | the first candidate's counter decides for all (`runtime/policy.py:336`) | "Frequency must be calculated by **semantic signal key**" (spec 1147) |
| `TenantsApart` (P) | `RepeatedTopics` with `Tenants = {acme, globex}` | the key has no tenant (`runtime/service.py:83`) | "tenant isolation must be enforced throughout config and memory access." (spec 2001) |
| `RestrictedAlwaysBlocked` | `GateRules` | hangs on a configurable list and switch (`runtime/policy.py:423`) | "`S4_RESTRICTED` => always `BLOCK`" (spec 1186) |
| `PromptExcludesBlocked` | `GateRules` | candidates carry blocked values into the prompt (`runtime/inference.py:121`) | prompts "must exclude blocked field paths" (spec 1999) |

One more fact about repetition is part of `CountersCount`: a counter's decayed weight is never
below one, because each recount contains the event it is made for, and the score caps it at
one. The policy's `half_life_days` therefore changes no score. Nor does a forget: it deletes
memories and leaves the signals, so one later event persists the topic again.

What the console does with what its operator sees and types is written down nowhere as a
list of requirements; the following are what its dialogs, labels and buttons suggest. They
are stated in the modules as well, and fail.

| property | configuration | the code |
|---|---|---|
| `SignedOutStays` (P) | `OperatorSession` | an answer to `me` that was sent before a sign-out stores the session again (`lib/api/client.ts:845-847`) |
| `LoginKept` (P) | `OperatorSession` | a late 401 for an older token, or a wrong password typed in another tab, clears a newer session (`client.ts:770-771`) |
| `RefusalKeepsDraft` (P) | `ConfigWorkspace` | a refused save shows the error card, whose Retry loads everything anew; what is typed while a save is awaited is overwritten too (`workspace-sections.tsx:1717, 1881`) |
| `PublishesWhatIsShown` | `ConfigWorkspace` | the dialog names the selected document, the bundle takes the newest of its family (1573-1588, 1781-1792) |
| `EditorShown` | `ConfigWorkspace` | the discard dialog leads to a document that a refresh has since left out (2307-2314) |
| `AddedShown` (P) | `PackageEditor` | an entry is added with an empty API name, and the parser drops an entry without one at once (603-617, `lib/config-editor.ts:35-114`) |
| `EmptyingKeeps` (P) | `PackageEditor` | an API name emptied on the way to another one removes the entry (912-917) |
| `KeysUnique` (P) | `PackageEditor` | the name of a new module or workflow counts those that exist, also after one was removed (447-469) |
| `DoublesRemoved` (P) | `PackageEditor` | removing a module removes every module of its key and cleans the references to the entries of the shown one only (584-601) |
| `ParsedIntact` (P) | `PackageEditor` | an entry whose API name is emptied is dropped by the parser, the references to it stay (912-917, `lib/config-editor.ts:35-42`) |
| `RenameKeepsOthers` (P) | `PackageEditor` | an entry renamed to another's name takes over its references (543-558) |
| `ResetRestoresSaved` (P) | `PackageEditor` | the reset dialog promises the last saved body and restores the editor's copy, which the edits have changed (2316-2330) |
| `ActiveShownActive` | `ConsolePages` | a publication made by a rollback is shown as rolled back, never as active (`client.ts:626`) |
| `PublicationsFiltered` | `ConsolePages` | the client sends `tenant`, the server reads `tenant_id`; the status is never used (`client.ts:1008-1034`) |
| `AllBundlesKept` (P) | `ConsolePages` | each refresh selects the first document again (`workspace-sections.tsx:2856-2879`) |
| `RunStatusMatchesIssues` | `ConsolePages` | the run of one document has the status of everything judged with it and only its own issues (`client.ts:430-462`) |
| `RunNotTakenBack` (P) | `ConsolePages` | a list read before a run was stored arrives after it (2344-2364) |
| `SimulationMatchesSelection` | `ConsolePages` | the answer is shown whatever is selected by then (2710-2722) |
| `CandidateSimulated` | `ConsolePages` | the page shows the newest documents of the family as the candidate; the server simulates the selected one with the active snapshot's others (2660-2722) |
| `SampleSimulated` | `ConsolePages` | the sample list's texts contain a backslash and an n where the parser expects a line break (2753-2761, `client.ts:490-603`) |
| `DetailMatchesList` | `ConsolePages` | the details of a snapshot are a copy taken when it was chosen (3037-3055) |
| `RolledBackOnce` | `ConsolePages` | a rollback can be confirmed again while the first is awaited (3109-3112) |
| `MemoryBrowserRecoverable` | `ConsolePages` | without a tenant every Retry is refused, and the error card hides the input (3275-3313) |
| `MemoriesOfAllTenants` | `ConsolePages` | the page opens on tenant "all", which the server takes for a tenant's name (`client.ts:1082-1103`) |

Two more facts of this kind are in the modules without a property: the server ignores scope
and tenant on an update, which the page lets the operator type (`workspace-sections.tsx:2035`);
and an archived newest revision keeps its family from being published until a newer one is
made.

## 4. What is proved

With TLAPS, for all values of the constants, under the named assumptions of the modules
(TLC evaluates them in every run).

**`ConfigControlProofs`**: `TypeCorrect`, `SingleActive`, `PublicationsSound` and, taken from it,
`ServedIsApprovedAndValid`; `ControlImplementsRegistry`. No safety property of these is
inductive alone: a publication is sound at its birth, and stays so only
because nobody edits its documents. The invariant `IInv` therefore says of every
publication, active or not, that its documents exist, are of its kind and scope, are
published or archived, and have the content that was hashed and validates (`SoundIn`); and
of every document that the later statuses imply approval (`ApprovedStatus`). The lemma that
carries it is `SoundStable`: a step that keeps frozen documents unaltered (`KeepsFrozen`)
keeps every publication sound. Each document action is then shown to keep frozen documents,
and publish and rollback to insert a sound row. Validation is an arbitrary predicate.

The refinement maps the registry's value of a slot to the snapshot that `resolve_snapshot`'s
query finds there. The proof goes from the query to the row (`ActiveServes`: a slot serves the
hash of its one active row), so that a step that leaves a slot's rows alone leaves what it
serves alone (`ServesTheSame`), although documents may have changed. Writes to documents are
stutters; publish and rollback are `Serve` of one slot (`InsertionServes`). That the query
finds a row when one matches rests on `LatestIsGreatest`.

`OverridesAreIsolated` and `NeverDarkHolds` compare what one tenant is served before and after a
step. That is a hash, kept in the row, so a step that writes documents changes nothing
(`ServedIsHash`, `StepInserts`). An inserted publication leaves the answer of every query alone
that does not match its slot, because the row that makes room for it is of the same slot
(`QueryUnaffected`); and a query that found a row finds one afterwards (`QueryStaysFilled`).

**`ConfigRequestsProofs`**: `TypeCorrect`, `HashesValidated`, `NewestIsActive`. Here nothing can be
said of what a document is at the moment it is published (`PublishedValid` fails), so the
argument is about what a request holds: rows are never removed and a publication keeps its
slot, bundle and hash (`GrowsTo`), so what a request read stays true enough for the writes it
leads to (`Fit`). Its copies have passed validation before they are hashed (`Checked`), and
the row it clears is an older one of the same slot (`Aimed`), whoever commits in between.

**`MemoryStoreProofs`**: `Typed`, `OneActive`, `OnePerKey`, `SupersededHasHeir`,
`TraceableUnlessFailed`, `RelationsSound`, `ForgottenStaysGone`, `NeverRevived`,
`StrongestSourceWins` (the theorem of a property ends in `Holds`). None of the
invariants is inductive, because all speak of committed rows and the worker decides on what
its session sees. The proof therefore has three views of a row: the committed one, the one the
session's queries find (`Visible`), and the one that would be active if the session committed
now (`Alive`); `OneActive` is shown of the last. The worker's loop is proved by rounds: a
round displaces at most one row and adds at most one (`Step`), a value that is added has no
rival but the one it displaces (`FreePlace`), and a row that the session still finds has no
heir yet (`VisibleHeirless`). A forget may commit between any two rounds; it deletes rows the
session has read, and leaves the session `Sound` (`ForgetSound`), so that a later commit,
which writes only the columns it changed to the rows that still exist (`Written`), neither
brings a row back nor makes it active again. The first attempt at `SupersededHasHeir` failed for a
reason: a candidate of a relation type supersedes rows and stores none. The property now
excepts relation types and `SupersededIsLinked` states what is lost. `StrongestSourceWins` speaks of a
whole job, so its invariant follows one through the session (`ContestInv`): until the candidate
is resolved the session has the scores and sources of the committed rows (`Fresh`), afterwards
the candidate's value `Stands`: it will be active after the commit unless it was forgotten since.

**`JobLedgerProofs`**: `NoDoubleExecution`, `LedgerTruth`, `RunningIsAccounted`,
`LedgerImplementsQueue`. The refinement
needs a fact that no property names: `created_at` grows along the real-time order
(`Stamped`), since it is given between the sending of a request and its answer. A row that
was acknowledged before `r` was sent is then older than `r`, so the worker, which takes the
oldest, does not overtake it. Rows that overlap may be taken in either order, and the
abstract queue says no more.

**`VerdictProofs`**, about `RepeatSignals`: `TypeCorrect`, `CountersCountHolds`, `OneOffsWaitHolds`,
`RepeatedInterestPersistsHolds`. The invariant is that rows of observations belong to events that
were decided, one for each event and key (`Founded`), and that counters count them. What the two
action properties need of it is arithmetic over sums and cardinalities of sets of any size. The
sum of `MapThenSumSet` is recursive; its recursion is unrolled by a least counterexample
(`SumsUpTo`, `SumBounds`), with each weight between 0 and `Full` (`WeightBounds`). Counts become facts
about the rows (`CountedFacts`), rows and policy become bounds of the score (`OneSessionIsShort`,
`OneRowIsShort`, `SessionsSuffice`). The code leaves weights and thresholds to whoever writes the
policy, so each property is proved for the policies that satisfy `OneSessionFallsShort`, or
`TwoSessionsSuffice`.

About `PolicyGate`: `BlockedNeverPersists`, `ModelNarrows`, `RequiredModelsConsent`, `RulesComeFirst`,
`OneOffsNeedReason`. The state invariant of four of them is short (`Grounded`: a verdict is `Decide`
of inputs and an answer of the right types); the work is in constant-level lemmas: a candidate's
level is at least each level it is taken from (`LevelIsMaximum`), and a verdict is reached in one
of five ways (`Ways`, `VerdictWays`). `RequiredModelsConsent` also needs the history of the loop,
for any gate, any providers and any failures: `InOrder` says that every request but a last one
that was answered has failed, and that each configured provider before the one in turn has been
asked. What it says of an entry that requires the model is not that a model always decides: an
explicit write may bypass it, and a policy may switch inference off; both persist without one.

**`OperatorProofs`**, about `OperatorSession`: `TypeCorrect`, `PairsConsistent`. That a token is paired with the
operator it was issued to must also hold of what is on its way: the session a request to `me`
was sent with, which its answer stores and shows again. The strengthening `LoadSound` says
this of every such request, that it is fresh only if it carries a session, and that it is
live only while its tab is on the console. Tokens are counted up, so a token that was issued
keeps its operator (`GenuineStable`).

About `PackageEditor`: `EditorTypeCorrect`, `SelectionIsShown`, `RemovalsClean`, `NoReferenceLost`, for
any packages, those typed by hand included, any names and any number of edits. An entry may state
the key of a module it is not in, as the parser keeps it (`lib/config-editor.ts:49`) and the server
stores definitions as they come; keys and ids may occur twice, and workflows may refer to nothing.
The invariant, `EditorInv`, is types and `SelectionShown`, and inductive as it is; the work is about
the operators, on sequences of any length. The recursion of `Kept` is unrolled by a least
counterexample, which gives that what is left comes from the places that were kept and that
whatever was at such a place is left (`KeptFrom`). From there: the parser turns a package into a
package (`Parsed`), the selection stands for nothing only where there is nothing (`PickIn`), what
it is moved to is shown whatever was selected before (`SettledShown`), and a cleaned workflow refers
to nothing that is gone (`CleanedOfGone`). `NoReferenceLost` compares what workflows refer to with
what is there before and after each edit: a renaming moves every reference from the old id to the
new one, so that nothing is left that names the old one (`ReplacedReferences`, `UpdateEntryIdRefers`);
a removal takes away every reference to what it removes (`RemoveEntryRefers`, `RemoveModuleRefers`).
For a module this takes distinct keys (`KeysDistinct`); without them it fails (`DoublesRemoved`).

**`ConfigWorkspaceProofs`**: `LoadingIsAwaited`, `SavedIsValidated`, `UnsavedIsAskedAbout`,
`TypeCorrect`, `RequestsAreOfOneFamily`. The invariant of the first three is `Shaped` (a handler
is idle or has its fields), `LoadingAwaited`, and `Saved`: a handler in which the server has stored a text names that document and only saves, loads or
validates. Each step changes one handler; `OneHandler` says what that leaves. The last two have an
invariant of their own, `AimedInv`. A handler holds documents it was started with and asks for them
later, when the server has others. The server's documents only grow and keep their kind and
family (`Within`), so what a handler holds stays true (`AimedStays`); what it chose at its
start, the newest document of each kind in one family, exists because a nonempty set of
documents has a first one in the order of the page (`FirstExists`).

**`ConsolePagesProofs`**: `CurrentIsSelected`, `LoadingIsAwaited`, `FiltersAreAnswered`. The last
needs to know that a list page never has two loads under way, and that the one it has was sent
with the filters on screen (`OneLoad`): the filters stand above the rows, and while a page
loads or shows an error both are replaced by a card. What the proof adds to the run is that this
does not depend on how many records, fields and values there are.

Only model-checked: liveness (`EveryJobSettled`, `LoadSettles`, `SignOutLeaves`), because its proof
needs fairness and ENABLED, which the prover does not handle. Every other property that a run
checks is a theorem.

`PublishedFrozen` (a publication's documents are out of reach of edits), `ModelBypassed`,
`RepetitionRequired` and the type invariants of `ConfigControl`, `ConfigRequests`, `MemoryStore`,
`RepeatSignals`, `JobLedger`, `OperatorSession`, `PackageEditor` and `ConfigWorkspace` are proved for
all values of the constants and not run in addition. The other modules state theirs as well.

## 5. What is not modelled

- Contents: payloads, definitions, reason codes, texts, vectors, confidence and importance.
- Version numbers in the control plane: the server never compares two documents by them. The
  console does, and `ConfigWorkspace` and `ConsolePages` have them.
- The validation rules and the API package compiler: pure functions over documents.
- Payload protection, retrieval ranking, metrics counts.
- More than one worker: the deployment starts one process.
- Of the console: layout, formatting, the export download, the choice between JSON and YAML,
  the texts of starter drafts, the mobile menu, and the demo store (`lib/api/mock.ts`), which
  nothing imports. The switch of the source format saves without the page's role check; the
  server refuses viewers, so this is a save that fails.
- Signatures, password hashes and role checks of the API; settings, migrations and scripts: no
  state, or none that other parts depend on.

## 6. Plan

Written in this order: the control plane and its registry; its requests; the job ledger and
its queue; the memory store; the decision policy; the console's session, workspace, package
editor and other pages; repeat signals. What is left, by weight:

1. A job that runs under a later snapshot than its event was decided with
   (`worker/main.py:11-21`): `MemoryStore` with an ontology that changes between jobs, and what
   a type that became single-valued, or was disabled, does to the rows there are.
2. Retrieval over `MemoryStore`: which rows a query may show, to whom, beside the worker.
3. The validation rules and the API package compiler as operators, checked against a
   reference definition of a valid bundle.
