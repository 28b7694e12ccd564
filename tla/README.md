# Verification of the sandboxed Deep Agent runner

TLA+ specifications, TLC runs and TLAPS proofs for the program in `src/`: a parent
agent that delegates work to sandboxed Deep Agents, asks them for reviewed
artifacts, and lets only gated files out of the sandbox.

`PROJECT.json` ties the parts together: which definition stands for which lines,
what each run checks, which change of which definition breaks each property, the
hazards of the code and the theorems.

## 1. The system

The parent agent calls Deep Agent tools and gate tools; the calls of one message
run in parallel threads.  A Deep Agent attempt is an agent loop with its own tools;
its shell commands go to a backend, which runs them in containers, directly through
podman or through the controller's HTTP API.  Crawler and browser traffic of the
workers goes through the egress proxy with a short-lived token.  An attempt ends
with a review request; files reach the user only through the output gate.

| Part | Source | State it keeps | Operations |
|---|---|---|---|
| Graceful finalize middleware | `outputs/generic_parent_runner.py` | counters of model and tool calls, finalize turns, files of the attempt | `before_model`, `wrap_model_call`, `wrap_tool_call`, `request_parent_review` |
| Deep Agent attempts | same | `DEEP_AGENT_EVALUATIONS`, `DEEP_REVIEW_REQUESTS`, `DEEP_AGENT_TRACE`, `ACTIVE_DEEP_AGENT_*`, round files | `execute_deep_agent_task`, profile tools, salvage |
| Parent gate tools | same | `latest_gate_manifest.json` | `run_output_gate`, readers of manifest, exports and quarantine |
| Multi-subtask runner | `outputs/multi_deep_parent_runner.py` | `SUBTASK_CALLS`, `DEEP_CALL_LOCK`, self-check files | `run_deep_agent_subtask`, clear and archive of self-checks |
| Output gate | `sandbox_tool/output_gate.py` | raw, clean, quarantine and log directories | `process_artifact` per file, `run_output_gate`, sanitizers |
| Sandbox controller | `sandbox_tool/sandbox_controller.py` | run directories, hardened containers | gate, execute, cleanup, status |
| Sandbox backends | `outputs/podman_sandbox_backend.py`, `sandbox_tool/controller_sandbox_backend.py` | workspace, names of containers | execute, upload, download, cleanup, translation of paths |
| Egress proxy | `sandbox_tool/egress_proxy.py` | none but its secret; tokens carry the state | token create and verify, CONNECT, forwarded requests |
| Site crawler | `sandbox_tool/site_crawler.py` | crawl directories, robots cache | crawl, crawl of URLs, link extraction, search and read |
| Browser tool | `outputs/generic_parent_runner.py` | last finish time per set of domains, run directories | `run_playwright_task` |
| Corporate number search | `sandbox_tool/houjin_bangou.py` | lock, attempts, search directories | `run_houjin_bangou_search` |
| Profiles and staging | `outputs/generic_parent_runner.py` | run directories, staged inputs and skills, one input directory per profile | loading and validation, staging, `profile_input_dir` |
| Skill scripts | `outputs/skills/*/scripts` | none | image and HTML processing |

What is hard, and what makes each part correct:

- **Finalize middleware.**  Three counters move in callbacks of the agent loop, and
  the tool calls of one message are decided about in parallel.  The worker must be
  warned, then kept from exploring, then confined to the review, in that order, before
  the graph's hard limit; two independent checks of the same files, readiness and the
  review's preflight, must agree.
- **Attempts.**  Everything global (lists, round files, the active profile) is shared by
  the calls of one message.  Rounds must respect the profile's limit, numbers must name
  positions, and a review request must be reported by the attempt that made it.
- **Gate.**  Directories outlive the calls, agents may write while a gate call reads, and
  the controller's container may be killed between any two file operations.  What lies in
  the clean directory must have passed, and an answer must be about the call's own files.
- **Execution.**  A command's time can run out while its container is being made, at work
  or being removed, on the client's side, in the controller, or in a `podman` behind a
  killed `wsl` or `sudo`.  A container must not outlive its command.
- **Proxy.**  Host names are looked up twice, tokens expire between requests, clients go
  away.  Connections must lead to allowed public addresses only, and the tools' own
  requests must not be refused.
- **Crawl.**  Fetches fail, redirect, and robots.txt cannot always be read.  Limits must
  hold and nothing reachable be missed.
- **Results of network tools.**  Calls of one message write into directories named for the
  second, any file may fail, and later calls search and read what is there.  What they find must be
  one call's result; a site must be left alone between calls; an answer that keeps one of several
  responses must not contradict the others.
- **Inputs.**  Specs are staged over each other, and a call of a profile tool refills a directory
  that another attempt may have mounted.  An attempt must find what its profile grants.
- **Paths.**  A path is translated three times, by the tools, by the mounts and by the parent; all
  must mean one file.

## 2. Plan

The order is by importance: first what decides which files leave the sandbox and when
a worker stops, then the parts those rest on.

| # | Module | Models | State |
|---|---|---|---|
| 1 | `GracefulFinalize` | middleware, readiness, review request of one attempt | done, proved |
| 2 | `DeepAgentAttempts`, `ReviewLedger` (abstract) | attempts of parallel calls and their shared lists | done, proved |
| 3 | `OutputGate` | the gate, in process and behind the controller | done, proved |
| 4 | `SandboxExecution`, `EphemeralExecution` (abstract) | commands, containers and their end | done, proved |
| 5 | `EgressProxy` | a client connection of the proxy | done, proved |
| 6 | `SiteCrawl` | the loops of both crawls | done, proved |
| 7 | `SubtaskRunner` | self-check files across the subtasks of the multi runner, over attempts that review what they find | done, proved |
| 8 | `NetworkToolCalls`, `CrawlDirectories` | crawl ids, files of a crawl, latest crawl, search and link extraction | done, proved |
| 9 | `BrowserTool` | waits between browser calls of several threads, back-off, files of a call | done, proved |
| 10 | `CorporateSearch` | which answer of the name variants is kept | done, proved |
| 11 | `RunInputs` | staging, profiles and their input directories | done, proved |
| 12 | `BackendFiles` | translation of paths, file transfer | done, proved |

Modules 8 to 10 are of one kind, calls beside each other that leave files, and share
`NetworkToolCalls` and a run; so do 11 and 12, which share a run.  `Subsequences` holds what module 6
needs to say about lists.

Not written: the answers of `CrawlDirectories` for link extraction, and a refinement of the gate by an abstract "a passed
file is exported as it was checked", of which `PassIsCurrent`, `EvidenceMatches` and `ExportsAreVetted` are the parts.

## 3. The modules

Every model is one module with `Init`, one action per operation or step, `Next`, `Spec` and,
where liveness is checked, `FairSpec`; its properties stand at the end.  `MC…` modules only
define values of constants, and where a run covers several independent modules, the choice between them.
What a program is started with and keeps (`contract`, `setting`, `runner`, `backend`) is a variable that
no step changes, so that a run covers several and the theorems speak of them all.  Operators named as mutants are plausible slips of the definition
that follows them; no specification uses them.

### GracefulFinalize

One attempt under the middleware.  `before_model` counts a turn, decides the mode
(normal, warned, finalize, strict) and fixes the allowlist offered; the model answers with one call
in each of `Slots` or ends the turn; each call is counted, admitted or answered in place of the tool
(`wrap_tool_call`), and takes effect.  `files` holds what the checks tell apart about each
file: missing, empty, pending, passing, active content.  `request_parent_review` runs its
preflight on the files as they are when it runs.

`self.tool_calls += 1` is one step.  Every node of the graph that runs is a superstep, and the hooks of all
middleware are nodes: a turn costs `BeforeNodes` (this middleware's `before_model` is one of them), the model,
`AfterNodes` and the tools, `TurnNodes` together, and the limit may fall on any of them.  How many nodes there are is
Deep Agents' affair, so these are constants without a bound.  Messages are counted as the middleware counts them, so all three thresholds of each kind
are in play.  `contract` is what the profile asks of the attempt: artifacts under a policy, or a value of the answer
(inline); one run has both kinds.  The thresholds are constants, small ones of the kind a profile may set;
`Thresholds` computes those the code derives from a recursion limit when the profile sets none.

Properties: `ReadyMeansReviewable` (readiness implies the preflight under the script policy),
`StrictReviewIsReady`, `OfferIsHonoured` (what was offered is admitted when the call comes),
`NoLateExploration`, `ExplorationBudget`, `FinalizeBeforeHardLimit`, `WarnedBeforeRestricted`.
`StrictReviewIsReady` speaks of messages in which nothing but the review is called: another call may change
the files between the admission of the review and the review.  `WarnedBeforeRestricted` excepts an attempt in which
one message had more calls than lie between two thresholds (`widest`, `NoLeap`): nothing limits the calls of a message.
`FinalizeBeforeHardLimit` says what the limit must have room for: the nodes of the turns up to `FirstFinalize`.

### DeepAgentAttempts and ReviewLedger

`execute_deep_agent_task` by its reads and writes of global state: number taken, globals set,
agent loop with review requests, cleanup, record appended, globals reset.  A call may raise between any two of these
steps except inside the agent loop, whose exceptions the code catches: before it has a number, and also after its
evaluation is appended (`"answered"`: the round files of a missing image, and what the subtask tool still does under the
lock).  `Raising` are the calls that may raise, two of the run's three.  `Locked` is the multi runner's `DEEP_CALL_LOCK`; `Parallel` is how many
calls of a message run together; `Inline` are calls of inline profiles.  A review request lists any
subset of the artifacts, also none.

`Runners` has both programs in one specification: the multi runner with its lock and two calls in a
message, and the generic runner without a lock, one call at a time.

The parent is obedient in one respect only: it gates after it has read a result
(`ParentGates`).  It may start any call that is left.

`ReviewLedger` is what the lists promise: attempts in order, each with its own requests.
`LedgerSpec` says that attempts under the lock implement it.

### SubtaskRunner

`run_deep_agent_subtask` around an attempt: the path check, clearing of self-check files under the lock,
the attempt, then archiving, the record in `SUBTASK_CALLS` and the return as steps of their own, each of which may raise.
`local` holds the tool's local variables.  `check` holds who wrote the self-check files
in `/outputs` and in `/outputs/subtasks`, `archive` who wrote each archived copy.  `HistoryMatches` relates the
parent's history to the evaluations across refused and raising calls.  An evaluation has its record when its call
returned; one whose call raised after the append may have none.  `ArchivesAreOwn` and
`SelfChecksAreOwn` are about the files.

### OutputGate

`files` of the raw, clean and quarantine directories, the manifest in the log directory, and up to
`Gates` calls with a list each.  A call goes through its list with one step per file operation: open and
sanitize, hash of raw, write of clean, hash of clean, copy to quarantine; then it writes the manifest and
answers.  Contents are classes: packages no reader opens, contents a check refuses, contents a sanitizer
rewrites, and the rest.  Workbooks are read twice, as the code does.  `Stringify` is
`xlsx_dangerous_formula_action`.

Behind the controller (`Controller`) a call may be broken off at any step, when the container is killed
at its timeout; the answer is then read from what the log directory holds.  `setting` says which way a run takes.
`Parallel` says whether calls may overlap each other.  Agents write raw files between calls, at most `WriteBound` times.

Refusals of `run_output_gate` before any effect, the copy in `latest_gate_manifest.json`,
and the client's own timeout of 180 s are left out.

### SandboxExecution and EphemeralExecution

`execute()` of each backend, by the container: created, at work, settled, removed or gone.  The
podman backend is one process or one behind a prefix (`wsl`, or `sudo` on the way), whose death leaves
its podman at work; the controller runs a thread per request with create, start, wait, kill, logs and remove.
Faults (a refused removal, a dead controller) happen at most `FaultBound` times; how long a creation
takes and when the client gives up are free.

`EphemeralExecution` is the promise: a command runs in a container of its own that appears at most once, and
when its outcome is known the container is gone and cannot come back.  Only a command that is out of sight may
still have one: after a timeout behind a prefix or the controller, when `excused`, which is a refused removal or a dead
controller, and when it is among the `orphans`: `containers.create` (create, then inspect) raised for the controller, outside
of the `try` that removes the container, but the engine made one or still will.  The agent is told of an error
then and the container stays, though it never runs the command, which `ReturnedIsOver` adds.  `dry_run` is left out; file transfer is in `BackendFiles`.

### EgressProxy

A client connection with its requests, from the checks (port, pattern, token) through both lookups of the
host, the attempts over its addresses, to the relay and its end.  An origin may stall at any stage after that
(`stalled`).  Hosts and addresses are values;
`SubdomainOf` gives the matchers their meaning and `Global` the addresses the proxy may reach.  A
token is its grants and its expiry; `Forged` stands for every string that is no token.  The
deployment sets a signing secret; without one the proxy refuses tokens, which is left out.

The runner's own check of a URL (`allowed_domain_matches`) and the proxy's are two operators, and
`ToolRequestsPass` relates them.

### SiteCrawl

Both crawls, over every assignment of link lists to pages.  `RobotsCache` is the set of hosts whose file
was read, with a choice at each look-up whether the file can be read now.  What
`is_allowed_url` says is the set `Allowed`; limits are clamped as the code does; statuses of pages are free.
A redirect may lead anywhere; as in `fetch_limited`, only the domain of its target (`InDomain`) is checked.
`WithinLimits` and `RobotsRemembered` are therefore about the URLs a crawl requests, and the run has redirects
to an excluded, a forbidden and a foreign page.
Waiting between pages is left out.
`NewLinks` is the loop that passes over links already seen: the entries of a page's link list at the positions
kept, in their order (`Subsequences!EntriesAt`, a set with exactly one member).

### NetworkToolCalls, CrawlDirectories, BrowserTool and CorporateSearch

The network tools of one worker message.  `NetworkToolCalls` is what they share: a clock whose seconds
name directories, calls in threads, answers, and which calls were over when another one began.

`CrawlDirectories` has the files of crawls and link extractions, each written in a step of its own that
may fail, and the reading tools as operators over them (`Latest`, `Hits`, `Listed`).
Crawls of one host and second share a directory.  `SearchFindsOneCrawl` is about the one that started when the
others were over (`StartedLast`): nothing they left is found as part of it.  It says nothing of crawls that overlap, nor of
one that a later call of its second follows.  `LatestIsNewest` holds until a link extraction has made its directory;
one that then fails to write its links counts as well.

`BrowserTool` is `run_playwright_task` with its waits.  The last finish is read once before the sleep and
written when the browser is closed, so only calls that were over can be waited for: `RequestsSpaced` says
what the domain delay and the back-off amount to from the outside, and `ResultsKept` that spaced calls never
share a directory.

`CorporateSearch` tries name variants under the lock and keeps one response; `VerdictSumsUp` relates the
verdict on that one to all of them.  Responses are the six classes the
code's decisions can tell apart; one is a page with rows that also says that there are none.

### RunInputs and BackendFiles

`RunInputs` starts with the command line.  Directories are sets of files, each with the position of the
spec that staged it, so that what is copied over what can be seen.  After staging, profile calls prepare their input
directories in steps that interleave; `disturbed` marks a call whose directory another call has touched.
The first files of a directory, links and file modes are left out.

`BackendFiles` has the three translations of a path: `ToolPlace` (`_resolve_virtual_path`, the same in both
backends), `ShellPlace` (the longest mount above a path) and `ParentPlace`.  Attempts write through tools and
shells, and `SameFile` says that all who look find the same.  `Common` lists the paths for which the
code makes this true; the others are among the observations below.
`MCRunInputs` also evaluates `TranslationsAgree`, which the theorem about `SameFile` assumes, for its paths.

## 4. The runs

| Run | Shows | Bounds |
|---|---|---|
| `finalize` | readiness, preflight, offers, admission, budget, warning and hard limit in every interleaving of two calls, for script and inline profiles | two calls per message, one artifact, recursion limit 19 at five nodes a turn |
| `finalize_checklist` | *violated:* a rejection in strict mode can be repaired | one call per message, checklist policy, recursion limit 18 at three nodes a turn |
| `attempts` | under the lock everything belongs to its call; refinement of `ReviewLedger`; every call ends; without the lock but one call at a time no review is lost and what is gated is what was reviewed | three calls, one inline, two of which may raise, two in one message, two requests |
| `attempts_parallel_rounds` | *violated:* the limit on rounds, without the lock | as `attempts` |
| `subtask_self_checks` | *violated:* the self-checks a subtask reports are its own | as `attempts`, workers write to `/outputs/subtasks` |
| `gate` | exports, evidence, passes, quarantine and answers of two calls in a row, in process and behind a controller that kills the call anywhere | three files, four classes of contents, two writes |
| `gate_stale_export` | *violated:* a rejected file is not exported | as `gate`, in process |
| `sandbox_execution` | containers end with their commands, every `execute()` returns | two commands, two faults, all backends |
| `egress_proxy` | upstream connections are allowed ones, tools get through, gone clients are released unless the origin stalls | one connection of two requests, one token, one change of names |
| `site_crawl` | limits, depth, completeness and robots.txt | six pages, five in the domain, four allowed; four redirects |
| `network_tools` | what browser calls, crawls and company searches leave and what later calls find of it; waits between browser calls | two calls for one task, a third for another; two seconds, browser calls four ticks; one page, three variants |
| `run_inputs` | what is under `/input` and what attempts have mounted; one path, one file | two inputs, two skill sources, three profiles, two calls; two attempts, ten paths |

The type invariants of the execution and proxy modules are theorems and not checked again in runs.

Why the bounds are enough to be telling.  *Finalize:* the turns the limit allows
lead through every mode, past strict mode and to the limit itself; with two calls per message
the tool and message thresholds can be crossed in the middle of a message and before the one of model calls, and a
message of two calls takes the tool counter from below its warning past its finalize threshold.  *Attempts:* two calls
overlap, a third one finds the lists they left, and limits of one and of two rounds are both met; requests
beyond two add list entries, not cases.  *Gate:* a second call over the leftovers of the first is where
stale files matter; three files are one of each treatment (text, workbook, not allowed).  *Execution:*
commands share only the controller and the count of faults; two faults are one refused removal and one crash.
*Proxy:* connections share nothing but tokens and names; two requests on one connection with the token's
expiry between them are enough.  *Crawl:* five pages give duplicates in the queue, pages reached by
ways of different length, and more pages than the limit.  *Network tools:* two calls that
share a name, one that does not, and a clock of two seconds give every order of same and different stamps; a
page's files are written alike, so one page and none are the cases.  *Inputs:* a target above, below and
beside an earlier one; two calls of one profile or of two with one directory.  *Paths:* each root, a name that
normalization changes, one that leaves its directory, one below a file.

Bounds that are not in the code: `ReviewBound`, `Raising`, `WriteBound`, `FaultBound`, `TimeBound`,
`DnsBound`, `RequestBound`, the number of pages of a stored crawl, `Places`, and the number of calls, commands and connections.  Each is a guard of an action
of the environment and only there.
`RecursionLimit` and the thresholds are the program's own limits.

`CHECK_DEADLOCK` is on in every run: an end of the program is an explicit step that changes nothing.

### What was found

- **A worker confined to a review it cannot pass** (`finalize_checklist`).  Readiness does not look at
  everything the preflight rejects; in strict mode the only tool left is the review.
- **Rounds beyond the limit** (`attempts_parallel_rounds`).  Two profile calls in one message take the same number.
- **Exports of rejected files** (`gate_stale_export`).  A rejection leaves the clean file of an earlier pass, and the
  readers of exports do not look at the manifest.
- **Self-checks of another subtask** (`subtask_self_checks`).  The multi runner clears and archives self-check files in
  `/outputs`, but workers write them to `/outputs/subtasks` (`multi_deep_parent_runner.py:62`), where a later subtask finds them.

Observed while modelling, without a run of their own:

- With a small recursion limit the derived thresholds, never below six turns, lie beyond the hard limit, against
  `generic_parent_runner_usage.md:270`: at three nodes a turn up to a limit of 16, at five up to 28, and more by the nodes at the start.  From a limit of
  six turns on they do not, if a turn has at most six nodes (`DerivedThresholdsFit`); with eight nodes a turn even limits above 100 can be too small.
- Nothing limits the calls of one message.  With the default thresholds of small limits (4 and 6) a message of three calls takes the
  tool counter past the warning, so that calls are blocked without a warning before (`generic_parent_runner.py:346`).
- A script self-check that honestly reports a failure cannot request a review in strict mode.
- A gate call beside a running agent (`Parallel = TRUE`) may record hashes of two different contents (`output_gate.py:192`); `NoRace` of
  `OutputGateProofs` says between which two steps, and `EvidenceSound` that nothing else makes them differ.
- Each gate call replaces the manifest, clean files of earlier calls stay (`output_gate.py:962`).
- A `containers.create` that raises after the engine has made the container leaves it for ever (`sandbox_controller.py:175` is outside of the `try`).
- `sandbox_controller.py:309` relies on automatic removal, which `run_hardened_container` does not ask for: a crash leaves the container.
- Exit statuses of `podman rm` are ignored and the name is forgotten (`podman_sandbox_backend.py:244`).
- Once connected the upstream socket has no timeout (`egress_proxy.py:267`): a stalled origin keeps the handler for ever while it sends a request (284), relays a response (317) or sends into a tunnel (347), whose `select` only bounds the wait for something to read.
- An attempt whose log files cannot be written after its evaluation is appended, or a subtask whose copies or history file
  cannot, raises: the evaluation counts as a round but `SUBTASK_CALLS` may lack it (`generic_parent_runner.py:4255`, `multi_deep_parent_runner.py:114`).
- The target of a redirect is fetched, recorded and its links followed without a check of path prefixes, exclude
  patterns or `robots.txt`; only its domain is looked at, after the fetch
  (`site_crawler.py:310-314`).  Two pages that redirect to one are both recorded with it.
- A crawl that starts in the second in which another one of its host has ended overwrites the pages of that one and may fail before `pages.jsonl` and the manifest: a search then finds records of the first with texts of the second (`site_crawler.py:232`).
- `_link_extract` sorts after every crawl id: once links were extracted, or an extraction failed after making its directory (`site_crawler.py:834-855`), a search without an id finds no crawl (`site_crawler.py:869`). The limit on links applies before duplicates are dropped (`site_crawler.py:822`).
- Browser calls beside each other are not spaced: both read the last finish before either writes it (`generic_parent_runner.py:2596`).
- A company search whose page has a count but no rows is answered as `candidate_rows_found_without_exact_match`; one whose page has rows
  beside the message of no data, or a count that reads as 0, as `no_result`, even if another variant found rows (`houjin_bangou.py:446`). The digest in a search id leaves out whether variants are tried and how many results are wanted, so two searches of one second may share a directory.
- The source of a single skill is the directory above it. A profile that names one skill is granted every skill staged below `/input/skills`, also global ones with `include_global_skills: false` (`generic_parent_runner.py:930`).
- A later skill source with the default target `skills` removes the skills and inputs staged there before (`generic_parent_runner.py:928`).
- Two profile ids that `safe_tool_name` makes equal share one input directory, and a call that is then refused has already emptied it under a running attempt (`generic_parent_runner.py:1231`, `4162`).
- `generic_parent_runner_usage.md` says that `skills_only` mounts only skill directories under `/input`. That is what the backend is given, but the controller mounts the run's whole input for the shell (`sandbox_controller.py:288`).
- The copies in `profile_inputs` stay when the staged input is removed at the end; a start-up that fails leaves what it has staged.
- Paths that mean different files to the tools and the shell of one attempt: `/workspace/outputs/f` and `/workspace/input/f` with podman (mounts hide the tool's file), `outputs/f` and `input/f` without a slash behind the controller (the shell's is in the workspace), `workspace/f` and `/output/f` with both, and any other root, which the tools put into the workspace.
- Behind the controller all attempts of a run share one `/workspace`; with podman each has its own (`generic_parent_runner.py:1268`).
- `upload_files` raises, and answers for none of the files, when a directory would have to be made below a file (`podman_sandbox_backend.py:260`).
- The text sanitizers split with `splitlines()`; line breaks inside CSV fields can be lost with status `pass` (`output_gate.py:367`).

## 5. Fairness

- `DeepAgentAttempts`, `SubtaskRunner`: weak fairness of the calls' own steps taken together (some call that can go on
  does), less than what threads have and the recursion limit of the agent loop grants; taking the lock needs no more, since every call comes once.  Failing and reviewing are not fair.
- `OutputGate`: weak fairness of the gate's steps and of the answer.  `BreakOff` is not fair, so no call
  is answered only because it was killed.
- `SandboxExecution`: weak fairness of the engine's and the client's steps and of the containers' end within their
  time.  The client's timeout is not fair: what must end does so without it.
- `EgressProxy`: weak fairness of the handler's steps, except while it waits for what the code sets no timeout for (`Waits`): a
  client that is still there, and an origin that has stalled, at whatever stage it reads from it or sends to it.
- `GracefulFinalize`, `SiteCrawl`, the network tools, `RunInputs` and `BackendFiles` are checked for safety only: their
  loops are bounded by counters, and what they wait for is a sleep or a lock held for bounded work.

## 6. What is proved

All theorems hold for every value of the constants under the named assumptions of the modules.

| Module | Theorems | Invariant and argument |
|---|---|---|
| `GracefulFinalizeProofs` | `TypeCorrect`, `ExplorationBounded`, `ExplorationEnds`, `FinalizeComesFirst`, `ReadyIsReviewable`, `OffersAreHonoured`, `StrictReviewsAreReady`, `WarningsComeFirst`, `DerivedThresholdsFit`, `DerivedThresholdsSuffice`, `AttemptIsBounded` | below |
| `DeepAgentAttemptsProofs` | `TypeCorrect`, `RecordsAreOrdered`, `GlobalsAreOwn`, `ReviewsReported`, `GatesWhatWasReviewed`, `HistoryAgrees`, `HistoryIsKept`, `ArchivesStayOwn`, `ReportsAreInOrder`, `AttemptsKeepLedger`, `EveryCallGoesOn` | below |
| `OutputGateProofs` | `TypeCorrect`, `ExportsVetted`, `EvidenceSound`, `AnswersAreOwn`, `PassesAreCurrent`, `RejectedAreQuarantined`, `CallsGoOn` | `EvidenceSound` holds for any parent: beside agents and other calls the hashes of a passed entry belong together in every run in which nobody else writes a file between its two readings (`NoRace`).  The others but `CallsGoOn` are with one call at a time: the results so far describe the directories, and a half-written clean file exists only at the step that will reject it.  For the last one, `QuarantineInv`: what the call has rejected lies in quarantine as it was rejected, because a file later in its list is another file.  `CallsGoOn` is below. |
| `SandboxExecutionProofs` | `TypeCorrect`, `ReturnedCommandsAreOver`, `KeepsThePromise`, `EveryCommandGoesOn` | Per command: what holds before the container, on podman's side, on the controller's side and after the end.  `KeepsThePromise` is the refinement of `EphemeralExecution`: initial states map to initial states, every step to a step or a stutter. |
| `EgressProxyProofs` | `TypeCorrect`, `UpstreamsAreAllowed`, `ToolRequestsArePassed`, `EveryHandlerGoesOn` | A connection beyond the checks has a request entitled to it; entitlement lasts although the token may expire, and every address tried was vetted at the second lookup. |
| `SiteCrawlProofs` | `CrawlIsWithinLimits`, `DepthIsShortest`, `CrawlMissesNothing`, `RobotsAreRemembered`, `CrawlsGoOn` | below |
| `NetworkToolProofs` | `WaitsAreKept`, `ResultsAreKept`, `SearchesFindOneCrawl`, `LatestCrawlIsNewest`, `VerdictsSumUp` | below |
| `RunInputsProofs` | `InputsAreAsLastWritten`, `MountsAreGranted`, `PathsMeanOneFile`, `FilesStayApart`, `ScratchIsKeptApart` | below |

**Finalize.**  The calls let through so far were each counted before they were decided about, and none is let through
once the count has reached the threshold: `ExplorationBounded` needs no bound on the number of parallel calls.
`FinalizeComesFirst` rests on `SuperstepInv`: what the turns have cost so far, and that a turn that goes on has called a
tool, so that after `FinTool` turns at the latest the next one is a finalize turn.  `ReadyIsReviewable` is a fact about two
operators in every typed state.  `OffersAreHonoured` rests on `OfferInv`: what a finalize turn offered is the
allowlist of the count and the readiness it saw, and the count does not move before the next turn.
`StrictReviewsAreReady` rests on `LateInv`, that the counters of a finalize turn keep the mode to its end, and `ReviewInv`,
that a lone review call that was let through saw its artifacts ready.  `WarningsComeFirst` needs no assumption on the
calls of a message, since the property itself excepts attempts in which one was too wide.  Its invariant `Unwarned` counts
what a turn that started below the warning can still add: the calls not yet counted and the answers not yet given, at
most `widest` of each.
What the two theorems mean for the thresholds the code derives itself: `DerivedThresholdsFit` is
arithmetic over quotients for any limit, and `DerivedThresholdsSuffice` gives, for limits of at least six turns of at most
six nodes and three nodes at the start, that the limit is hit only after a finalize turn, and the warning first as
long as messages had at most two calls.  `AttemptIsBounded` follows from `SuperstepInv` and from
`DecidedOnce`: the calls counted and the calls still open are together no more than the messages can have carried.

**Attempts.**  Each step of `MultiSpec` is a step or a stutter of `Spec`, so each invariant of the attempts is proved once.  `OneByOne` says that the lock is there or that messages have
one call.  Then `SerialInv`: at most one call is between taking its number and its record.  From it `OwnInv`: the lengths
the call at work has read are still the lengths when it appends, so its number is its position and the requests after its start
are its own.  `LostInv` (a call's requests come after its start) is proved without `OneByOne`.  `LatestInv` says
what the last review request is while the parent may still gate.  `HistoryInv` says that the self-check files in
`/outputs` are never another call's while one is inside, that a call with an answer has at most one evaluation, at the number
it holds, and that what is archived and listed carries the number of its own call's evaluation: no later call can
use the name again, and the history agrees with the evaluations whatever has raised.
`ReportsAreInOrder` adds `LogInv`, kept with or without the lock: the attempt numbers in the request log never
go down, and none is beyond the next attempt.  Since an evaluation reports requests of its own number only, none is reported twice.
`HistoryIsKept` carries `HistoryAgrees` over to `Runners`, the composition the run checks.
`AttemptsKeepLedger` is the refinement of `ReviewLedger`: each step of `Spec` opens an attempt, logs a request or
closes an attempt there, or leaves its lists as they are.

**Crawl.**  The invariant has five parts.  `BreadthFirst`: the queue is ordered by depth, spans two depths at most, and
nothing on record is deeper than what waits.  `Complete`: what waits was reached, and what was reached is seen or waits no
deeper.  `Accounted`: what was seen is on record or skipped, with its reason.  `Exhausted`: the crawl ends with an empty
queue or a full record.  `Shortest`: a page on record was reached at its depth, and no page on record that links to it
would give it a smaller one.  `BreadthFirst` and `Complete` keep `Shortest`, since whatever is fetched later is at least as
deep; `NothingMissed` follows from `Complete`, `Accounted` and `Exhausted`.

**Network tools.**  *Waits:* the last finish of a call's domains is no earlier than its end; the wait of a call covers every end it
could see; a call that saw a rate limit cannot end well before the back-off is over.  *Results:* two calls of one task have different
seconds, and so different directories, if one was over before the other began and waited a second (`StampedInTime`,
`StampedApart`); a call without a sharer finds the files it has written so far (`Filed`).  *Crawls:* a crawl whose
directory is shared only with calls that were over when it started (`StartedLast`) finds, at each phase, the files it has written so far; a step
of another call goes to another directory.  That ids stay in their range needs facts about quotients, proved as
lemmas.  *Searches:* the name itself can only be found by the last attempt, and a response without rows is kept only while
there is none with rows.

**Inputs.**  `Staged`: the files in `/input` are those of the specs staged so far, each place with its last spec above
it.  `Working` and `Prepared`: a call at work has a loaded profile, and the skill sources of loaded profiles are
prepared.  `Copied`: while
no other call touches its directory, what has been copied into it and what is left to copy is what the profile grants.

**Paths.**  `PathsMeanOneFile` needs no invariant over steps: whoever writes, the places two translations give to a path are the
same.  Each mount has one of the shapes `MountOf` and `MountBelow`, so the longest mount above a path is determined by its
first two names.  The theorem assumes `TranslationsAgree`, that normalization of the path the tools are given and the
kernel's way through it make one list of names.  It is so for every path the tools do not refuse, by induction over
its segments, which is beyond the prover; TLC evaluates it for the paths of the run.
The other two theorems do not need it.  `FilesStayApart`: a write fits where it goes, so nothing of its directory is above
or below it.  `ScratchIsKeptApart` looks at all mounts of an attempt: with podman those in reach lead to its own
scratch directory, its inputs and the outputs, and so does every path the tools take.

**Progress.**  What liveness rests on, apart from fairness, is that no step leads back.  This is proved without any
assumption on the number of calls.

| Theorem | What is lowered | Safety half of |
|---|---|---|
| `CallsGoOn` | the stage of a gate call, six steps for each file left; no write or other call raises it | `GateAnswers` |
| `EveryCommandGoesOn` | work left for call, driver and container of a command; no fault raises it | `ExecuteReturns`, `ContainersGo` |
| `EveryCallGoesOn` | rank of a call, by every step but its agent's own; when all are over the lock is free (`LockComesBack`) | `CallsFinish` |
| `EveryHandlerGoesOn` | distance of a handler to the end of its request, then addresses left; one that connects has an address left | `GoneClientsReleased` |
| `CrawlsGoOn` | pages left, then queue | (safety only) |

`Parallel = FALSE` is an assumption of the gate's theorems and `OneByOne` or `Locked` of the attempts' theorems,
except type correctness, `EvidenceSound`, `ReviewsReported` and the theorems on progress: without them the properties fail, as the observations above say.

Only model-checked: the five liveness properties (`CallsFinish`, `GateAnswers`, `ContainersGo`, `ExecuteReturns`,
`GoneClientsReleased`), since fairness and `ENABLED` are beyond the prover: what is missing between the theorems on
progress and them is that a step is possible as long as something is left to do.  And `TranslationsAgree`, as said
under *Paths*.  Every other property of a passing run is a theorem.

## 7. What is not modelled

- *Text*: what sanitizers rewrite, HTML and PDF extraction, ranking and snippets, parsing of search results, variants of
  company names, YAML of profiles, URL and header parsing, signing.  The models know classes of contents, responses, hosts
  and URLs as values.  The two skill scripts (image preprocessing, parsing of one HTML page) are of this kind as a whole.
- *Reads*: tools that only list or read without a decision others depend on, vision calls, the status request, reports.
- *Start-up*: argument parsing, checks of the environment, prompts.
- *External*: language models, podman, the container engine, origins, browsers.  Their choices are free wherever the
  code looks at them.
- *The client's own timeout of a gate call* (180 s): see the hazards in `PROJECT.json` without a property.
