# A formal model of BugSlyce

BugSlyce is a local-first reconnaissance triage tool for authorised targets. It
reads or collects evidence about a target under an engagement policy, keeps it
in a project directory and reports on it. Most of its code is sequential and
pure (parsers, classifiers, report writers). What is hard to test is the rest:
the request runtime that every thread shares, the stores on disk that a crash
or an interrupt can leave half-written, and a pipeline of thirteen to fifteen
steps that is stopped and resumed. This directory models those parts in TLA+,
checks them with TLC on small instances and proves facts about them with TLAPS.

## Inventory

| Component | State | Operations | What is hard | What makes it correct |
|---|---|---|---|---|
| HTTP enforcement runtime (`recon/http_enforcement.py`, users in `recon/external_enforcement.py`) | semaphore, gate, exclusive lock, next start slot, shared rejection, wake events, closed flags | request, external permit, exclusive tool, record rejection, derive and close a handle | any interleaving of threads; interrupts while draining; 429 or close during a wait | spacing, concurrency, exclusivity, nothing starts after a stop, nobody waits for ever |
| Redirect and scope loop (same file) | visited destinations, hops, selected peer | one request with its redirect hops | every hop re-decides scope, origin and peer | no destination outside the approved scope is sent to; the loop ends |
| Native observation store (`recon/native_observation_store.py`) | reservations, bodies, records, run index, seal | reserve, publish body, commit, publish record, seal, reopen | a crash between two publications, one of several failing | a sealed index is exactly what is on disk; nothing is overwritten |
| Store compaction (`recon/native_observation_compaction.py`) | canonical, replacement and backup trees, transaction marker | compact, recover | crash or interrupt between renames | an intact copy survives and recovery finds it |
| Native content discovery (`recon/native_content_discovery.py`) | run state, recorder, output set | execute plan, publish outputs | stop in the middle, several output files linked one by one | what is published tells of one run and follows its store |
| Project pipeline (`project_pipeline.py`) | step list, statuses, metadata checkpoints, artefacts | run, resume, fail, finalise | interrupted between a step and its checkpoint, resumed several times | completed work is not redone, a resumable prefix can be resumed |
| Recursive evidence feedback (`recon/recursive_evidence_feedback.py`) | request budget, depth | one bounded further pass | budget shared with earlier passes | the budget is never exceeded |
| Programme scope (`core/programme_scope.py`, `programme_scope_setup.py`, `programme_scope_management.py`, `core/programme_scope_bulk.py`) | the rules of a draft | match, decide, decide for a resolved address; add, replace, remove | six kinds of rules that override each other, edited one by one | the narrower rule wins; an edit never has the opposite effect |
| Project session and private policies (`project_session.py`, stores in `core/`) | project file, policy files | save either policy, initialise, load | two files written one after the other, a rollback that may fail | a policy is in effect or not, never half |
| Triage, reports, dashboards, importers, CLI | derived data | pure transformations and presentation | wording, layout | outside a model checker's interest |

Interaction: the pipeline's step runners create the HTTP runtime, derive
executor handles from it, and pass them to discovery and collection. Discovery
writes through the recorder into the observation store and then links its
artefacts beside it; a later deep step compacts the store. Every hop of a
request asks the programme scope, which the project session loaded with the
engagement policy. Pipeline metadata is a checkpoint of which steps were done;
artefacts on disk are the evidence for it.

Each component is a module of its own. `RequestGate` and `PolicyRegister` are
abstract specifications, implemented by `HttpRuntime` and `PolicyFiles`.
`ScopeEditing` works on the operators of `ProgrammeScope`. `HttpRedirect` leaves the
scope's decisions and the permit as parameters, `PipelineResume` keeps of
discovery and compaction whether they were done to the end. The modules named
`...Proofs` hold theorems and their proofs, those named `MC...` the instances.

## The HTTP runtime: HttpRuntime, RequestGate

`HttpRuntime` gives each thread a program counter whose places are the code's
waits and critical sections:

| `pc` | code |
|---|---|
| `exclusive`, `gate`, `permit` | waiting for `exclusive_tool_lock`, `concurrency_gate`, `BoundedSemaphore.acquire` |
| `paced`, `slot`, `asleep` | `_check_available`, the locked section of `SteadyRequestStartLimiter.wait`, its sleep |
| `commit` | slot reserved, `_commit_request_attempt` to come |
| `started`, `flying` | attempt committed, transport or process running |
| `waking` | `record_rate_rejection` after its locked section, setting events one by one |
| `defer`, `release` | `finally`: `defer_next_start`, then `release` of each permit and of the locks |

A handle's `life` follows `__init__` (built, registered, its event set if a
rejection is already there) and `close` (flagged, signalled, unregistered).
Time is relative: `slotIn` is what is left until `_next_start`, `sleepLeft`
what is left of a sleep, and the two `since` variables are history. The clock
can advance at any moment, so a thread may be held up arbitrarily long between
any two steps. `Interrupt` raises at every blocking call. Requests go through
an unnamed handle, so the check in `_check_available` of the closed flag and
of the rejection, under two locks, is one step that may see either.

`RequestGate` is the promise without mechanism: who is admitted, one start slot
per interval, no start after a stop, a back-off owed for each exchange. `GateSpec`
says that `HttpRuntime` implements it.

| Run | Instance | Question |
|---|---|---|
| `runtime_handles` | 2 threads, 2 handles, 1 permit, interval 3, sleeps of 2 | wake-ups when rejections, registration and close race; spacing at the limiter and at the target; late sends |
| `runtime_live` | 2 threads, 2 permits, 2 Retry-After values, interval 2 | every request ends; exclusivity, leaks, the value reported; refinement of `RequestGate` |

Fairness: a started call keeps running, a transport or a process ends by its own
timeout, `close` and `__init__` run to their end, time passes. Nobody has to call,
to close or to be interrupted. `Budget` bounds the number of requests a thread
makes: a lock in Python is not fair, so without it a thread could be overtaken
for ever.

The bounds: two threads are enough for every race of two critical sections.
Two permits are the least that a drain can stop half way, one is the least that
makes a thread wait for the other. One request a thread is enough, because a
request leaves nothing behind but the shared state that the other thread finds
too (and `NothingLeaks` says so). An interval of three with sleeps of two makes
a sleep end before its slot. What a third thread could add, a tool that drains
while one exchange flies and another waits, is covered by the theorems on
ownership, which are for any number of threads.

## Redirects: HttpRedirect

One call of `InternalHTTPExecutor._request`, from its checks to what it returns
or raises, then what `_publish_reserved` makes of it. `pc` is the place in the
loop: the peer of the next URL is selected (`peer`), an exchange is under way
(`exchange`), its redirect is judged (`judge`).

| Model | Code |
|---|---|
| `Request` | shape, scope and origin checks before the loop |
| `SelectPeer`, `RefusePeer`, `FailPeer` | `select_programme_scope_ipv4_peer` with its resolver, and what the loop does with its exceptions |
| `Unavailable` | the permit is refused inside `_execute_exchange` |
| `Answer`, `Fail` | the transport returns, or fails before or after the head of a response |
| `Objection`, `Judge`, `JudgeNoDestination` | `resolve_policy_redirect`, the loop check, the hop limit and the scope check, in this order |
| `Recorded`, `Accepted` | the record made of the outcome, and the validation of `NativeCandidateObservation` |

A URL is a record of its origin, a page, whether it has a query and whether it
is spelled canonically. The scope decisions are constants: any set of URLs in
scope, any relation of URLs and peers allowed. The resolver may answer each hop
with any set of addresses, the target with any status and destination.

| Run | Instance | Question |
|---|---|---|
| `redirect_scope` | 8 URLs of 5 origins, 3 of them approved, 2 peers, 2 hops, all kinds of calls | where exchanges go, how many there are, what is reported and recorded |
| `redirect_spelling` | one more URL, not in canonical spelling | the same of the record: violated |

Two hops suffice: the state of the loop is the last URL and peer and the set of
visited URLs, and with two hops a loop, a limit reached and a failure of a
second follow-up all happen.

## The observation store: ObservationStore

The recorder of a discovery run and the store it writes to. Variables `bodies`,
`records`, `index` and `litter` are the disk, `known*`, `reserved`, `metadata` and
`needsPartial` the memory of the store, `held`, `received` and `refs` the local
lists of the recorder. A publication is `Stage*`, `Link`, `Unstage*`, each of which
may fail (`FailStaged`, `FailLinked`, `FailVerified`) or be the last thing the
process does (`Crash`); `Reopen` scans what is there.

The step ends with its artefacts: the baseline, the index and the text, which
`PublishOutput` links one after the other, all of them after a complete index and
only the baseline after an error. `FailOutput` takes back what was linked, in
reverse, as far as that succeeds. A rerun (`Reopen`) is refused while an artefact
of an earlier run is there. One consequence is kept in the model as it is in the
code: after a crash between a complete index and the last artefact, or after a
failing link there, the store is sealed and no rerun finishes the step. Either
an artefact is there and the rerun is refused, or the sealed store refuses the
first reservation and only a baseline is published.

| Run | Instance | Question |
|---|---|---|
| `store_run` | 2 candidates, 2 exchanges each, 4 bodies of 2 sizes, 3 artefacts, 1 failing call, 1 crash | records are backed, allowances hold, an index is exact, a stop is sealed, artefacts follow the index |
| `store_failure` | 1 candidate, 2 bodies, 1 failing call | a failed body publication is sealed as partial: violated |

The allowances are chosen so that the second candidate fits or not, depending
on what the first one received.

## Compaction: StoreCompaction

The disk is three trees and a marker; a run is a list of operations on them,
`todo`, which an exception leaves for a handler and a crash leaves for the next
run. `RecoveryTable` has one row per case of `_recover_transaction`, `Commit`,
`Rollback` and `Unpublish` are the lists of the commit and its handler. A tree is
`partial` while it is built or removed, file by file.

`compaction_crash` allows three crashes and three exceptions, at most one
exception a run and none between a call and the assignment that follows it
(`Async = FALSE`). Three of each reach all 104 combinations of the disk, the
place in the run and its local variables; counted apart from the two bounds
themselves, there are no more of them with four or six.
Fairness: a run that was started proceeds, and the operator runs the step
again; nothing has to fail.

## The pipeline: PipelineResume

Fifteen steps of the one profile that can be executed. `evidence` is what the
manifest registers (for 006: that the content plan can be read), `planned` the
directory of the content plan, `cut` a manifest whose writing was cut, `saved`
the checkpoint file, `status` the statuses in memory, `deepFiles` the Deep
artefacts and `zip` the evidence pack. `StartResume` is the assessment of a
resume: verified and complete, resumable, or refused. `Work`, `WorkNoop` and
`WorkFails` are what a step can do, `Record`, `GoOn` and `Stop` what the loop does
with it. `whole` and `deepStarts` are history that the code does not keep.

Manifest, content plan and checkpoint are written in place, and a step can fail
after its artefacts are registered. `Leaves` is what a step that fails or dies
may leave behind, any of it at any time:

- nothing, or all of its evidence (it fails after the manifest is written, as
  the two follow-ups can when they write their report);
- a part of it: the content follow-up registers what it has when it times out;
- a plan directory without a plan, or with one that cannot be read, when step
  006 stops between making the directory and the end of the file;
- a manifest that is cut; the baseline and the store of content discovery, over
  which it refuses to run again; some of the Deep artefacts.

A crash may also cut the checkpoint. `Unreadable` are the files that a resume
refuses before it judges the phases: such a project needs a clean start, and
`NeverIncoherent` and `Settles` name this state beside the Deep stages. So one
failure of step 006 at the wrong moment is enough to end a project, as the
code has it. What the two properties say is that nothing else does.

`OverIsWhole` exempts a content follow-up that a resume took over: the part that
one registers when it times out is what the resume then counts as the phase,
where `docs/DEMO_WALKTHROUGH.md` says that it "reuses only clearly completed
phases". Every other phase a run counts as over was done to its end.

`resume_crash` allows one failing step and two crashes anywhere, with any number
of resumes in between; two crashes, because statuses written by one resume are
read by the next. `MayNoop` are the share listing (003S) and the body fetch (009),
the no-ops that every later resume recognises. Those of 002, 003 and 008 are
recognised by the first resume only and that of 005 by none: with them
`NeverIncoherent` fails, see below. Fairness: a started run goes on and the
operator resumes what stopped.

## Scope: ProgrammeScope, ScopeEditing

`ProgrammeScope` has no state: what a rule of each of the six kinds matches
(`RuleMatches`), which of two rules is the narrower authority
(`AuthorityIsSubset`, one operator for each pair of families that the code
compares), which matching rules are effective, the decision for a destination
and for the address it resolved to, and what the constructor of `ScopeDecision`
accepts. A hostname is the sequence of its labels from the top down, a path the
sequence of its segments, a network a set of addresses: `Below` and
`PathPrefixMatches` are then comparisons of sequences, with the slash cases of
the code. `ScopeEditing` is the operator's draft with the edits of the two menus
and of bulk lines: the parser of the lines only builds rules, the menu then adds
all of them or none.

`scope_edit` reaches every policy of up to three rules out of thirteen values and
asks about hostnames, addresses and URLs. Three rules are needed for
a chain: an exclusion overridden by an inclusion that is itself overridden. The
values have, for each kind, one that is narrower than, equal to, and not
comparable with another kind's. `PrecedenceIsAuthority` compares the test on
pairs of rules with the sets of destinations they match, which is why every
wildcard has more than one subdomain below it: with fewer destinations two
different rules could look the same.

## Private policies: PolicyFiles, PolicyRegister

A policy is in effect when its file is there and the project file names it.
`Write` and `WriteReference` are the two atomic replacements, `Undo` the rollback of
the first when the second fails. A run loads the project (`LoadProject`) and then
each policy (`ReadPolicy`, `ReadScope`) while the operator goes on. `PolicyRegister`
promises a register per kind, set at once or left alone; `SavesAreAtomic` says
that `PolicyFiles` implements it. `policy_files` has both kinds with two values
each and two crashes; the second crash finds what the first one left.

There is one operator: a save is finished before the next begins. The project
file has no lock, so two terminals that save at the same time can lose a
reference, or the rollback of one can remove the file of the other. Two effects
are permitted by the properties as the code has them: a run may read a policy
whose save is then rolled back, if it had loaded the project before it was
initialised anew, and "project init --force" drops the references but leaves
the policy files.

## Where code and documentation disagree

Four runs end in a counterexample; `PROJECT.json` quotes what each one refutes.

| Run | Property | What happens |
|---|---|---|
| `redirect_spelling` | `Recordable` | a redirect to a URL in a non-canonical spelling (`https://host` without a path) makes the validation of the record raise and stops discovery |
| `store_failure` | `FailureIsSealed` | a body publication that fails keeps its reservation, and the partial index is refused because of it |
| `resume_path` | `NeverIncoherent` | a path follow-up with nothing to do is not recognised by a resume, which is refused as incoherent |
| `resume_completed` | `CompletedIsNoOp` | resuming a completed project that had been resumed before runs live phases again |

Other counterexamples are found by changing a constant of a passing instance:

- `compaction_crash` with `Async = TRUE` violates `NeverRefused`: a Ctrl-C between
  the second rename and `published = True` removes the marker and keeps the
  backup. With `PerRun = 2` it violates `IntactCopy`: a second exception while
  the handler validates puts an incomplete backup in place of a valid store.
- `resume_crash` with `MayNoop` of 002, of 003, or of 008 together with 009
  violates `NeverIncoherent` at the second resume, which does not know
  `skipped_existing`. Without its exemption `OverIsWhole` is violated: a content
  follow-up that timed out counts as done.

The docstring of `HTTPRedirectFollowupFailure` says that the destination was
"attempted without an HTTP response"; `Fail` also makes one after the head of a
broken response, and `Recorded` depends on it.

## Proofs

Every theorem is for every value of the constants that satisfies the ASSUMEs of
its module, so for any number of threads, candidates, rules, failures and
crashes. A property that a run checks has the same definition in its theorem.

`HttpRuntimeProofs`:

- `TypeCorrect`: `TypeOK` is inductive by itself, one step for each action.
- `LocksGivenBack`, `ToolsExcludeAll` and `ExchangesLimited` (`NothingLeaks`,
  `ToolRunsAlone`, `ConcurrencyLimit`) from one inductive invariant, `Ownership`.
  `NothingLeaks` says that a held permit has a thread able to give it back; the
  other two need the converse, `GrantsHeld`: who is granted holds a permit, a
  tool all of them. It is kept because nobody takes a permit that has an owner
  and permits go back only at "release". `GateHeld` and `LockAsked` tie the gate
  and the exclusive lock to the places that wait behind them. Two granted
  threads then hold different permits, so a tool excludes all others, and
  "the permit it holds" is an injection from the exchanges in flight.
- `OneRetryAfter`, `WakeReachesAll` and `WakeHasReason` (`AgreedRetryAfter`,
  `NoLostWake`, `NoSpuriousWake`) from `Stopping`, which adds `WakesPending` (events
  still to be set belong to a thread that is recording a rejection, and a
  recorder starts with none left over) and `LateRegistered` (a handle is
  registered late only because of a rejection). The snapshot of the registry
  and the check at registration are both under the state lock; that is why no
  handle falls between them.

`HttpTimingProofs`, from `Ownership` and `Stopping`, for every interval:

- `SlotsAreSpaced` (`StartSpacing`) and `SendsAreSpaced` (`SendSpacing`) from `Spaced`.
  `SlotAhead`: the next slot is an interval after the last one, and after the
  last reply unless a thread still owes the back-off. `QuietBefore`: a caller
  that holds every permit and has its slot has seen no reply for an interval.
  Who holds all of them is the only thread granted, so nobody owes a back-off
  when it reserves its slot, and nobody can reply before it sends.
- `LateSendsAreFew` (`FewLateSends`) from `Counted`: once rejected, nobody commits
  to a start any more, so that those who still send are the threads committed
  at that moment. Each of them holds a permit other than that of the thread that
  records the rejection; `FewerGranted` counts them by that injection.
- `KeepsTheGate`: `GateSpec`, the refinement of `RequestGate`. The phase of a thread is
  a function of its place (`PhaseOf`); admission, the start slot, the reply with
  its back-off and the return are the places where it changes. Every other step
  is a stutter of the gate, and the passing of time is the gate's.

`HttpRedirectProofs`:

- `StaysApproved` and `StaysInScope`. `OnlyApproved` says of any two exchanges that
  the later one may follow the earlier one; a step adds one exchange and knows
  only the URL in hand. The inductive invariant `IInv` therefore says of that
  URL that every exchange so far may be followed by it (`InHand`, `MayFollow`),
  and of scope and peer likewise (`InScopeInHand`). It is established where a
  URL is taken up (`Request`, `Judge`) from the lemma `Followed` about `Objection`,
  kept while the URL waits, and used when it is sent (`Transmitted`).
- `ResponsesAreReported` (`NothingLost`) from `Told`: while the call goes on, what
  it has received is what was answered.
- `ExchangesAreBounded` (`Bounded`) from `Fits`: there are as many exchanges as
  redirects, one more once the URL in hand has been requested.
- `ResponsesAreTrue` (`TrueStory`) from `Chained`: the hops lead from the URL that
  was requested to the one in hand, and the i-th exchange is of the i-th URL of
  that chain. `Ending` says how each kind of result closes it.
- `OutcomesAreRecordable` (`Recordable`) from `TellsRight`, what the validation of a
  record relies on for each kind of outcome, and `Onward`, a hop that is followed
  leads somewhere new. Its hypothesis is that every URL is in canonical
  spelling: `redirect_spelling` shows that without it the property is false.

`ObservationStoreProofs`: `BodiesComeFirst`, `IndexStaysExact`, `StopsAreSealed`,
`OutputsTellOneRun`, `AllowancesKept` and `ReservationsAreHonoured` from one invariant. `Flow` ties the recorder's local lists to its
place; `Backed` says that a record and the references gathered for one name
bodies that are on disk, and a body being published no record; `Sealed` that an index
is written while nothing else is, from a memory the disk agrees with;
`LedgerClean` that without a failing call the reservations are those of the
candidate in hand, so that a stop finds none left; `DiskClean` that without one
memory and disk agree; `EndClean` and `Undisturbed` how such a run ends.

The byte sums (`WithinAllowances`, `ReservationHonoured`) need `Room`: there is room
for every body the candidate may still bring, each at its largest, the one on
its way included (`BodiesFit`), and for its record (`RecordFits`); `Remembered`
says that memory is the disk less the file just linked, so that the check made
against memory at the reservation speaks of the disk. That a sum over a finite
set grows by what is added is induction over data, whose theorems the provers
cannot use. It is proved by smallest counterexample instead: strict inclusion is
well-founded on the subsets of a finite set (`OneIsSmallest`), and a smallest
subset on which the fold is not the sum contains an element without which it is
(`SumsExist`, `SumStep`).

`PipelineResumeProofs`: `PhasesAreNotRepeated`, `DeepRunsOnce`, `CompletedIsWhole`,
`PackIsLast` and `OverStaysWhole` (`OverIsWhole`) for any no-ops and whatever the
steps that stop half way leave. None of them is inductive. `Progress` says of the
status of every step where it stands to the step the run is at; `Tracked` that
the status of a live step and the evidence agree; `Remembered` that, once Deep
was started, the checkpoint or the Deep files keep every later run from it;
`Packed` that the pack comes last. With a torn checkpoint `Remembered` holds
because no resume reads one, and the plan directory keeps a fresh run away.
`OverStaysWhole` needs `Accounted` as well: evidence, the saved statuses and those
of the run all speak of work that was done, so a resume that goes by any of them
takes over nothing else. The one exception is written out in `Sound`.

`NeverOutOfOrder` (`NeverIncoherent`) is proved where only 003S and 009 find
nothing to do (`Restrained`; `resume_path` and the runs with other constants
show that it cannot go). `Mirrored`: once a run has written a checkpoint, it
holds the statuses of the run. `Traced`: these tell the evidence in
the order of the phases, and a step is worked on only when all phases before it
are told (`BeforeIsMarked`). `DiskStep` sums up what a step does to the evidence,
however it ends, and `StepInSequence` that the order survives it: what is left by
a step that stops half way belongs to that step. So at every moment, and a run
may stop at any, what a resume would find is in order, a Deep stage was begun,
or the checkpoint is torn (`Orderly`).

`StoreCompactionProofs`: `EvidenceSurvives`, `MarkerTellsTheTruth` and
`AlwaysRecovers`, for at most one exception in a run and none between a call and
the assignment after it (`PerRun <= 1`, `~Async`: the instance of the run; without
them the properties fail, see above). The list of operations left is one of
fourteen, and `Prepared` says what each of them finds on disk; a step takes one
list to the next (`Tails`). From `Prepared` follows `Recoverable`, the disks a crash
can leave, and the rows of the recovery table cover exactly these (`Recovered`).

`ScopeEditingProofs`: `SubsetTransitive` and `SubsetSound` are facts about the
test on pairs of rules, over all rules of all kinds: it is transitive, and a rule
that it calls narrower matches nothing else. The first makes the effective
rules independent of the rules between, and is the reason why
`EditsAreMonotone` (`AddingIsMonotone`) holds: an inclusion that a new exclusion
overrides was not what an allowed destination rested on. `PeersNarrow`
(`PeersOnlyNarrow`) follows from the cases of `EvaluateResolvedPeer`, `TypeCorrect`
from the edits.

`DecisionsAreMade` (`DecisionsWellFormed`) rests on `EffectiveBelow`: in a finite
policy every matching rule is effective or overridden by an effective one. A
chain of ever narrower rules ends, again because one of the sets of
rules below a rule is smallest. So there is always an effective rule to name
when any rule matches, which is what the constructor of a decision insists on.

`SubsetComplete` is the converse of `SubsetSound`, one lemma for each family of
rules, by a destination that tells: the URL of a prefix with and without a query,
two names below a wildcard, another scheme or port. Such destinations have to
exist (`Distinguishing`, `BranchesOut`). Where a wildcard had one single name below
it, a rule for that name would match the same and not be recognised. With them,
and when every destination is asked for (`Telling`), `PrecedenceIsDecided`
(`PrecedenceIsAuthority`) and, with `EffectiveBelow`, `PrecedenceDocumented`
(`DocumentedPrecedence`) hold in every reachable draft. In the code the universe
is all host names, both schemes and all ports, so only a wildcard so long that
no name fits below it is left out. The instance of `scope_edit` asks
about some destinations only, chosen so that they tell.

`PolicyFilesProofs`: `ReferencesHold`, `RunsFindPolicies` and `FailedSavesRestore`
from an invariant that ties the files to the place of the save, and
`SavingIsAtomic`, the refinement of `PolicyRegister`: each action maps to a step of
the register or to a stutter, and the moment of the change is `WriteReference` for
a new reference and `Write` for an existing one.

The type invariants are proved, not run: each proof module has a theorem
`TypeCorrect`, or types as a part of its invariant.

Model-checked only: liveness (`RequestsEnd`, `Converges`, `Settles`), which needs
fairness and ENABLED, out of the prover's reach; and the four properties that
the code violates.

## Not modelled

- Recursive evidence feedback: a selection under two budgets and then one
  request after the other, in one thread, through the runtime that is modelled.
  Nothing of it interleaves or survives a crash.
- What a phase of the pipeline does with its tool, and what Deep reviews
  compute: `PipelineResume` keeps their outcome and their traces on disk.
- The planning of external command lines, the classification of baselines and
  candidates, evidence pack closure and the validation of records: large, pure
  functions of text.
- Presentation, parsing, import and interpretation: functions of data with
  no state worth a model checker's time. Together with the two points above
  they are most of the code, which is why the modules stand for a small share
  of its lines.
- The menu that collects a programme scope before a project exists: the same
  edits on a draft that is thrown away unless it is saved.
- The ways content discovery can refuse all origins after its baseline. For the
  pipeline this is a failing step 007 that leaves its files, which
  `PipelineResume` has.
- Artefacts that are removed or edited by hand between two runs, which a resume
  refuses, and projects of versions that had no share listing.
- Two operators on one project at a time, and two runs in one directory: the
  code has no lock for either and does not claim to support them.

## What is left

1. An abstract `EvidenceStore` (sealed or not, what it holds) that
   `ObservationStore` and `StoreCompaction` both implement.
2. `HttpRedirect` over the decisions of `ProgrammeScope` instead of parameters. The
   theorems about `HttpRedirect` hold for any decisions, so for these too.
