# A verification project for consiliency-contract

This directory holds TLA+ models of the contract package beside it: what its
schemas, conformance suites, verifiers and scripts say a consumer or a run does,
as state machines that TLC checks on small instances, and theorems that TLAPS
checks for every value of the constants. `src/` below is the repository.

Contents: [the system](#the-system) · [modules](#modules) · [runs](#runs) ·
[proofs](#proofs) · [findings](#findings) · [limits](#limits) · [plan](#plan)

## The system

The repository is a contract: declarative schemas and registries under
`src/core`, vectors under `src/conformance`, two reader packages (Python and
JavaScript), and the executable semantics of the contract, which live in three
places: the authority verifiers (`src/consiliency_contract/authority.py`,
`src/src/authority.js`), the scripts (`src/scripts`), and the conformance suite
(`src/tests/test_contract.py`, with its twin `contract.test.mjs`), whose helpers
(`_project_lease_view`, `r2_evaluate`, `r2_apply`, `r2_journal_codes`, ...) are the
reference definition every consumer must reproduce. Rules of the schemas that
the code of a consumer must follow (`x-journal-rules`, `x-launch-semantics`,
`x-process-boundary`, the lease store protocol) are translated from the schema,
which is the source of that behaviour in this repository.

| component | state | operations | talks to | hard behaviour | correct when |
|---|---|---|---|---|---|
| Lease projection and store | append-only lease events of a scope, the clock | acquire, renew, release, query, auto-expiry | agents call it; the projection reads its events only | two agents acquire at once on a backend without atomic acquire; crash of the holder; expiry instant; reused ids | hard mode excludes, what was granted is what is shown, a lease is lost only by TTL or its holder, a leaked one heals |
| Supervised-run journal | segment files chained by hash, owner pid, projection | append, roll, crash, read, derive a projection, diagnose the lifecycle | one writer, lock-free readers | reader racing appends and rolls, torn lines, reused pid, overwritten segment, stale projection | an accepted read is a snapshot, terminal is final, the display settles, current means exact |
| Launch-envelope admission, attempt | envelope, validator context, launch material, processes, deadline | evaluate, queue, capture, recheck, start helpers and worker, cancel, expire | writes the journal; reads records and material others change | material edited in the queue, helpers that fail or hang, deadline against cancellation | the worker runs what was bound; refused means nothing started; an armed run ends |
| `write_scope` apply check | protected repository, proposal | launch, return, apply | worker's copy; other writers of the repository | others write between launch and apply; entries that interact | scope held, no lost update, all or nothing |
| Authority-event verification | key registry, vendored copies, events, ledger chain | mint, rotate, revoke, vendor, append chain, verify (Python, JavaScript) | Portal signs, gate and ledger judge with their own pins | two languages, two pins, windows, rewriting on the way | verified means signed; readers agree; lapsed stays lapsed |
| Vector generator, canon parity gate | committed registry, vectors, provenance; a spec checkout | generate, `--check`, parity gate | port under test, spec's canon, conformance suite | interrupted writes, absent or moving checkout | green check speaks for the other gates; a run writes only vectors the canon confirms, and undisturbed its provenance too |
| Release workflow | runs of the workflow, two registries | dispatch, verify, publish to npm and PyPI, run failed jobs again | people, the branch, the registries | jobs fail before or after an upload, a branch that moves under a run, registries that take a file once | what is live was verified; one commit is one content; green is live; a half-done publication heals |
| Readers of the package | files of a checkout, a wheel, an npm package | load a schema, registry, vector; dump | the release | three layouts, two languages | a Python process and a JavaScript one read the same |
| Projections index | manifests, sidecars, a fixture, a spec checkout | merge; fetch a driver, run it, compare | the producer in the spec repository | listing order, files that overwrite each other, refs that move | the index depends on the set of manifests only; no drift goes by, none is made up |
| Source-tree capture | a listing of a workspace | capture as a manifest, join of sources with it | admission | order of the walk, entries that exclude each other, a workspace that changes under the walk | the capture is a tree or is refused |
| Git discipline and self-heal | none here | declarations | leases | | |
| JCS and schema validation | none | pure functions | | formatting of numbers and strings | |
| Governance schemas and registries | none | declarations | | none | |

The models keep these interactions: the attempt writes the journal and the
journal's checker judges what it wrote (`RunAttempt` instantiates `RunLifecycle`);
admission and the attempt judge what `SourceTree` captured of a workspace that goes
on changing; both authority readers judge the same event through the pins of their
owners (`AuthorityLedger` instantiates `AuthorityPy` and `AuthorityJs`); the parity
gate, `--check` and the suite judge the same tree (`VectorGenerator`); the release
puts live what the two package readers are then run on (`Release` extends
`PackageReader`).

The hazards of this code, each at its line and with the properties that watch
it, are listed in `PROJECT.json` under `hazards`.

## Modules

| module | models | built on |
|---|---|---|
| `LeaseView` | the current-lease fold of `_project_lease_view` and the mode degradation | |
| `LeaseStore` | store and agents of one scope over `LeaseView` | `LeaseView` |
| `Tenure` | what a hard lease promises, with no store in it | |
| `LeaseStoreProofs` | theorems about `LeaseStore` | `LeaseStore` |
| `RunLifecycle` | `r2_journal_codes`: the lifecycle checker over any journal | |
| `RunLifecycleProofs` | theorems about the lifecycle checker | `RunLifecycle` |
| `JournalChain` | segments, header links, seq, torn lines, the state of an attempt | |
| `RunJournal` | the writer, its crashes, its process, overwrites in place | `JournalChain` |
| `JournalReader` | a reader that opens segments one at a time and displays | `RunJournal` |
| `JournalProjection` | the derived projection and its staleness test | `RunJournal` |
| `JournalProofs` | theorems about the chain, the reader and the projection | `JournalReader`, `JournalProjection` |
| `SourceTree` | `r2_capture_manifest` and the join of sources with it | |
| `AdmissionCheck` | `r2_evaluate`, stage by stage | `SourceTree` |
| `RunAttempt` | an attempt from submission to its end | `AdmissionCheck`, `RunLifecycle` |
| `SealedLaunch` | what an attempt promises, with no stages, captures or clocks in it | |
| `RunAttemptProofs` | theorems about the attempt, its captured tree and its journal | `RunAttempt` |
| `ApplyCheck` | `r2_apply` beside other writers | |
| `OptimisticCommit` | what the apply check promises, with no proposals or target maps in it | |
| `ApplyCheckProofs` | theorems about the apply check | `ApplyCheck` |
| `AuthorityPy`, `AuthorityJs` | the two verifiers, check by check in their order | |
| `AuthorityLedger` | registry, pins, minting, rewriting, ledger, verdicts over time | both readers |
| `AuthorityLedgerProofs` | theorems about the ledger and the two readers | `AuthorityLedger` |
| `VectorGenerator` | `gen_authority_vectors.py`, `--check`, `authority_canon_parity.py` | |
| `PackageReader` | the two readers and the places they read from | |
| `Release` | `publish.yml`: the three jobs, re-runs, two registries | `PackageReader` |
| `ReleaseProofs` | theorems about the release | `Release` |
| `ProjectionsIndex` | the reference merge and `run_driver_equivalence.py` | |
| `SpecCheckoutProofs` | theorems about the two scripts that hold this repository and a spec checkout to one another | `VectorGenerator`, `ProjectionsIndex` |
| `MC*` | constants of the TLC instances that do not fit a `.cfg` | |

Definitions keep the names of the code. Where a definition has a *slip* beside it
(`ReleaseUnnoticed`, `DivergesByPrefix`, ...), the slip is the same definition
with one plausible mistake in it; no specification uses it. Putting it in the
place of the definition must break the property named for it in `PROJECT.json`
under `mutants`, which is how each property is known to be able to fail.

### Leases (`LeaseView`, `LeaseStore`, `Tenure`)

The stream of events only grows at its end, so `lease` is the accumulator of the
fold of `_project_lease_view` and recording an event is one application of its loop
body, `Project`; `CutOff` is the final test at `now`. `View` is what `query`
answers and what the operations decide on. `AcquireAtomic` is acquire on a
coordinator; a backend without atomic acquire does `AcquireCheck` and later
`AcquireRecord`. `grant[h]` is what the store last told agent `h`; `Crash` makes
it forget. `Expire` is the recorded expire event, which may come late or never.

### Run journal (`RunLifecycle`, `JournalChain`, `RunJournal`, `JournalReader`, `JournalProjection`)

`RunLifecycle` takes any body after any body, by no writer in particular:
`JournalCodes` is `r2_journal_codes`, with `previous`, the count of workers, and
segments joined; `Stateful` keeps of the joined bodies those that state a state. In the other modules a segment is a record of its lines and a
flag for the final newline; a digest is a tagged copy of the segment (SHA-256
taken collision free). `AppendLine` and `Roll` are the writer's steps,
`CrashInAppend` leaves a torn line or a torn header, `ReusePid` gives the
recorded pid to another process, `Overwrite` changes a body line of any segment.
`OpenSegment` reads one file, so that a read is spread over many of the writer's
steps; `Display` is `running`/`finished`/..., `stale_unknown` or `unknown`.
`Derive` and `ProjectionShown` are the projection rules.

### Admission and attempt (`SourceTree`, `AdmissionCheck`, `RunAttempt`)

`SourceTree` folds a listing as the code's loop does: `Represent` is one turn,
`NonDirectoryAncestor` the look at all ancestors afterwards; `TreeManifest` says of
the listing as a set what the capture should be. One operator per stage of
`r2_evaluate`, `Stages` in the code's order. A launch part is a version, bound in
the envelope and used in the material; the workspace is a listing. `RunAttempt`
carries one envelope through `Admit`, `Capture` (the parts), `Walk` (the workspace,
one object per step), `Launch` (the recheck), `StartWorker`, `HelperFails`,
`Complete`, `Cancel` and `Expire`, while `MaterialChanges` and `ContextChanges` come
at any time after admission (what they could do before it, the sets of initial
materials and contexts do). `ImplementsSealedLaunch` reads it as `SealedLaunch`:
what is ordered is what the envelope binds, what is handed over is what the worker
was started with, and an ending is `refused` or `finished`.

### Apply check (`ApplyCheck`)

`Protected`, `Stale`, `Popped`, `Step` and `r2_apply` follow the code's order:
digest, attribution, kind of file, scope, then entry by entry, judged against
`before` and written to `after`. A worker's entries carry what was bound at
launch as their base. The outcome `raised` stands for the `KeyError` of
`after.pop` on a locator an earlier entry removed; the JavaScript twin uses
`delete` there and applies. `ImplementsOptimisticCommit` reads the model as
`OptimisticCommit`: the protected repository is the shared content, what was bound
is the snapshot, and the work (`worked`) is what the check would make of the worker's
copy if nobody else wrote.

### Authority events (`AuthorityPy`, `AuthorityJs`, `AuthorityLedger`)

The verifiers are IF chains because the code's reasons depend on the order of its
returns. A string says what it says (`text`) and how it ends (`end`), which is all
that tells the regular expressions of the two languages apart; a signature says
how its hex decodes in each. `Distort` rewrites one place of an event on its way.

### Vectors (`VectorGenerator`)

A serializer is a domain prefix and a map from vector ids to bytes. A run loads
canon once (`Generate`), reads the digests of its files afterwards
(`BuildProvenance`) and writes file after file (`WriteFile`), and may be cut off
anywhere (`Interrupt`): before the first file, between two, or inside one, which is then
`Torn`, for `write_text` truncates before it writes. `Check`, `Parity` and `Suite` are
the three gates. `settled` is history: nobody changed anything since a run began that
was not interrupted. Since the digests are read after the comparison, only such a run
is known to name in its provenance the canon it compared.

### Release (`PackageReader`, `Release`)

A commit is its number and the version it states at each of five places; which
bytes a file has is told by its commit. `Dispatch` fixes the run's commit,
`Verified` is what the suites compare: three of the five places, and the dumps of
the two readers. `PublishNpm` and `Upload` put a file in place and may still end in
failure, which is an answer that was lost; `NpmConflict` is npm refusing a version
it has, while `Upload` goes over a file that is there (`skip-existing`). `JobFails`
stands for every other way a job exits non-zero, the Python tests `publish-pypi`
runs again included. `Rerun` takes the failed jobs up again on the run's commit.

### Projections index (`ProjectionsIndex`)

`build_projections_index` is the suites' reference merge: entries in the
listing's order, then a stable sort by `Key` (`Sorted`: an entry's place is the
number of entries `Before` it). An index is what was `Written`, which may be
empty, or `None`. `build_fixture` lays the manifests out as files, by kind,
target and name, where a later one overwrites an earlier. `Locate` and `TryNext`
try the refs of a checkout that `MoveSpec` changes, `run_driver` runs what was
found on the fixture in any order a file system may list, `Judge` compares and
validates. The producer is another repository's: `Drivers` has a faithful one
and four ways to be wrong.

## Runs

| run | question | states |
|---|---|---|
| `lease_store` | does hard mode exclude, show what it granted, keep a lease for its holder and implement `Tenure`, through crashes, reused ids, late expire events and the expiry instant, over both backends? Does a leaked lease heal with only the clock fair? | 130 084 |
| `run_lifecycle` | does the checker pass exactly the journals that tell a stretch of one complete run, over any number of segments, and never forget a diagnosis? | 414 770 |
| `journal_reader` | is an accepted read a snapshot, does an alarm have a cause, is a terminal display final, and does the display settle on what the journal says? | 792 186 |
| `journal_projection` | is a projection shown current exact? | 84 572 |
| `authority_ledger` | does verified mean signed, do the readers agree on the profile, does a lapsed event stay lapsed, do the chain block and a new pin leave verdicts alone? | 149 230 |
| `authority_serializers` | *violation*: do the two serializers never diverge? | |
| `apply_check` | scope held, an optimistic commit whoever else writes, all or nothing? | 138 984 |
| `apply_whole` | *violation*: is every applied proposal applied whole? | |
| `run_attempt` | does the worker run what was bound, are its sources files of its tree, is a capture a tree in any order, is the attempt a sealed launch (refused with nothing started, or started once), is the journal accepted, does one record vouch for everything? Does an armed run end? | 449 940 |
| `vector_generator` | does a green check speak for parity, suite and the provenance, is a whole run green, are the vectors a run writes the canon's it compared with, and an undisturbed run's provenance too? | 2 060 108 |
| `release` | was everything live verified, is one commit one content on both registries and to both readers, is a green run live, does a half-done publication heal? | 19 884 |
| `projections_index` | does a green comparison mean the merge of the set, with every manifest and its own refresh state, and is a faithful producer never reported as drifted? | 18 232 |

### Bounds, and why they are enough

- Leases: two agents, two ids, TTLs 1 and 2, `Horizon` 4. Two agents are the least
  that conflict; one TTL may run out inside the other and twice before the
  horizon; two ids allow both reuse and change. No symmetry, as the run checks
  liveness too. The proofs carry the safety results to any numbers.
- Lifecycle: four bodies in up to two segments; the longest complete run has
  three states, so four bodies hold every such run and one thing too many.
- Journal: three lines in each of three segments, header included, which allows a
  sealed middle segment, a roll during a read, and an overwrite of any of them; one
  overwrite, and one event line in the projection run. Liveness is checked at the
  same size.
- Authority: the clock runs to 3, past every window; two registered keys with
  overlapping windows and one never registered; one change of what is signed and one
  rewriting on the way, from the sets in `MCAuthorityLedger`, one per place and
  kind of ending.
- Apply: proposals of up to two entries of every operation over four workspace
  paths (two in scope, one mapped out of scope, one unmapped), one edit by others
  per attempt, and as many attempts as fit. Two entries are enough for every way
  one entry meets another.
- Attempt: envelopes that depart from an admissible one in up to two fields, so that
  every pair of diagnostics meets, with material that departs in any one part or
  flaw; two changes of material or context between admission and the end; a
  timeout of 1 or 2 and an age up to 2. Workspaces of two or three objects: the one
  the envelope was written for, the same with a `.git` or a directory more, edits of
  it, and one listing for each way not to be a tree; two are enough for every rule
  that relates entries.
- Vectors: two ids, two byte strings, two prefixes, three edits by people. A run
  that goes wrong for one edit before and one edit during it is within three.

- Release: two runs, one commit after the first (of whatever version, one place
  perhaps forgotten), two versions. Two runs are enough for one to meet what the
  other left half done, of the same commit or of another, under the same version
  or not. The proofs carry the safety results to any numbers.
- Projections: the committed vector and five like it, one per way manifests and
  sidecars may meet; two lists of refs and one move of a ref, which is enough to
  give a ref a driver after it was tried or take it away before.

Deadlock checking is off in all runs because every system here may stop: the
horizon or the bound is reached, a journal is closed, an attempt has ended, a
comparison is reported, everything is published, or people stop editing.

### Fairness

- `LeaseStore!FairSpec`: the clock goes on (to the horizon). Nobody owes a renew,
  a release, an expire event or a recovery: the schema requires healing to come
  from the TTL alone (`auto_expiry`).
- `JournalReader!FairSpec`: a reader that has begun goes on and somebody looks
  again; no fairness for the writer, whose owner may die.
- `RunAttempt!FairSpec`: the clock goes on and the deadline's timer fires, which
  is what `terminate_process_group` requires of a harness. Neither helper nor
  worker owes an end.
- `Release!FairSpec`: somebody runs the failed jobs again (weak fairness of `Rerun`),
  npm answers a version it has (`NpmConflict`, weak), and a job that is started time
  and again is not cut off every time (strong fairness of the successful
  `PublishNpm` and `Upload`). Nobody owes a dispatch, a commit or a green verify:
  `PartialPublishHeals` starts where verify has passed. It holds although
  `publish-npm` may then fail for good, for it asks that the files be live, not that
  the run be green.

## Proofs

`LeaseStoreProofs`, for all `Holders`, `LeaseIds`, `Ttls` and `Horizon`, from
`TtlsPositive`, `NoneIsNoHolder`, `NoneIsNoLease` and `HorizonNat`:

- `StoreInvariant` (`IInv`), `HardExclusion` and `HardGrantIsShown`. Neither invariant is inductive: an
  agent could hold a grant in hard mode that no event backs. `IInv` adds that a
  running hard grant is the very lease the fold holds, that the holder of that
  lease was told of it or has forgotten it, that grants name their agent and carry
  the scenario's mode, and that only a backend without atomic acquire has acquires
  under way. One case per action of `Next`; the three granting actions share
  `GrantKeepsInv`. TLC checks `IInv` in `lease_store` as well.
- `HardLeaseIsKept`: the action property, from `IInv`.
- `StoreImplementsTenure`: each step in hard mode is `Take`, `Extend`, `GiveUp`
  or `Pass` of `Tenure` or leaves it alone, with the owner and the deadline read off
  the view.

`JournalProofs`, for all bounds and journals of any length, from `NoneIsNoState`:

- `SegmentPinsPrefix`: in two chains that verify, segments of the same digest
  are at the same index, and everything before them is equal. It goes down
  the chain by way of the header's index and previous digest.
- `TailPinsJournal`: two accepted journals that share a segment and have the
  same last seq are equal; seq only grows, so nothing fits after the shared one.
- `ProjectionExact`: with the invariant that journal and source are well shaped and
  a projection describes its source, a projection shown current was
  derived from the journal on disk. The digest is a tagged copy in the model, so
  `DigestInjective` is proved and stands for the assumption that SHA-256 does not
  collide.
- `AcceptedIsSnapshot`: an accepted read has no line the writer died in, as `Torn` says of
  every segment, and is one moment's journal. A read is spread over many of the writer's steps, so it is no
  one journal by construction. `DiskInv` says that the writer wrote a whole journal
  until it crashed and that what is on disk differs in overwritten body lines only;
  `ReadInv`, that once the last segment read is the last there is, neither torn nor
  overwritten, there was a moment of the read with as many segments and that very last
  one. A read accepted then is the journal of that moment, by way of its own chain.
- `ShownIsFinal` (`ShownInv`): without overwrites the journal ended in what is shown,
  which nothing may follow, and a read under way holds the journal as it is.
- `AlarmsHaveCauses` (`AlarmInv`): while the writer has not rolled, what was read is what
  is on disk but for lines added since, or the journal on disk is flawed. The proof would not go through for any number of overwrites, and TLC shows
  why: a sealed segment is overwritten, read, and overwritten back, which leaves a
  whole journal and a read that alarms with no trace of the reason. `AlarmHasCause`
  therefore allows for two overwrites (`overwrites < 2`); with that TLC passes it at
  `MaxOverwrites` 2 as well (12.5 million states), and the run keeps 1.

`RunLifecycleProofs`, for all sets of bodies with worker counts in Nat, from
`BodiesKnown` and `NoneIsNoState` (`None` is no state of the lifecycle), journals of
any length in any number of segments:

- `CleanIsOneRun`: the invariant is the shape alone (`TypeInv`: a nonempty sequence of
  segments of bodies); what is to be shown is about one journal. Its states are those of
  the joined segments (`FlattenAppend`, `FlattenEdit`), a journal without a code is a path
  in `Lifecycle` (`CleanIsPath`), and as every path in it moves forward it is a stretch
  of a complete run, and conversely (`PathIsStretch`, `StretchIsPath`).
- `RefusalIsBeforeLaunch`: a journal without a code is a stretch of a complete run, and
  in none of those does a refusal come after a running state.
- `CodesAreKept`: the action property; a new line or segment leaves each earlier line
  its predecessor (`StatefulAppend`).

`RunAttemptProofs`, for all sets of envelopes, materials, listings and contexts, from
`MaterialsTyped`, `ListingsTyped`, `EnvelopesTyped` and `RecordsAreFinite`, and any
number of changes:

- `RefusedIsZeroLaunch`, `WorkerGetsWhatWasBound` and `OneRecordVouched`, all from
  `AttemptInv`. None of the three is inductive: what the worker gets was judged two
  steps earlier and on a copy. `AttemptInv` says that nothing is started before the
  recheck has passed, that from then on `material(env, captured)` goes on being clean,
  that a worker got exactly what is captured, and that whoever is past admission had
  the evidence in the context of admission. `CleanMaterial` turns a clean recheck into
  equality of parts and tree; `CleanEvaluation` turns an admission without a code into
  clean stages, through the least index of a stage that reports.
- `AttemptIsSealedLaunch`: each step is `Refuse`, `Start`, `HandOver` or `Finish` of
  `SealedLaunch` or leaves it alone. With `SealedInv` (the chain is started once, and
  nothing is handed over before the worker starts) it says what the invariants about
  single states cannot: a refusal is for good, a worker starts at most once and not
  after a cancellation, and an attempt has one end.
- `TreeIsCaptured`: `FoldLeft` over a listing is unfolded into its turns (`Turns`), and
  after each of them the accumulator tells exactly of what was seen (`Told`), or is
  unbound for good because what was seen is no tree's (`Sound`). The look at all
  ancestors in the end is then the rest of `IsTree` (`UnderFile`), and `TreeManifest`
  does not depend on the order of the listing (`SameTree`).
- `SourcesAreFiles`: a captured tree has one entry for a path (`OneEntry`), a clean
  recheck has joined each source with a file's, and the worker got both.
- `JournalStaysAccepted`: with `JournalInv`, which adds that each line passes after the
  line before it and that the last state is the one of the phase. Every action that
  writes writes a line that fits (`StateFits`, `RefusalFits`, `FinishFits`).

`ApplyCheckProofs`, for all locators, scopes, paths, digests and target maps, from
`ScopeIsProtected`, `NoneIsNoLocator` and `TargetMapTyped`, proposals of any length:

- `ScopeIsHeld`, `NothingIsLost` and `AllOfItOrNothing`, three action properties, from
  `ApplyInv`: a proposal that awaits the check was made of what is bound, whose base
  therefore is what its worker started from, and no launch comes between. `Checked` says
  what the check does: nothing, or every entry in turn (`Led`), each judged against the
  tree from before. What changed, an entry wrote (`ChangedIsWritten`); what an
  entry wrote was as bound (`WritesWhatWasBound`); and what it made stays
  when the entries after it write elsewhere (`Untouched`).
- `ApplyIsOptimisticCommit`: each step is `Begin`, `Work`, `OthersWrite`, `Commit` or
  `Abandon` of `OptimisticCommit`. The loop is run on two trees side by side, the
  repository and the worker's copy: an applied proposal reaches only locators
  where they agree (`ReachesWhatWasBound`), so that both runs take the same turns
  (`TwinTurn`, `TwinLoops`) and leave the same there, and everything else alone
  (`AppliedIsWorked`). `TreesInv` is what typing this needs. No lost update
  (`NothingIsLost`) follows from it, and it needs no entries on distinct locators.
- `DistinctTargetsAreWhole`: `AppliedWhole`, which finding 2 violates, holds of every
  target map that takes no two paths to one locator in scope. So that is the one cause.

`AuthorityLedgerProofs`, for all keys, registries, events, certs and any horizon, from
`RewritingsAreTyped` (any string may be put anywhere, but what looks like a timestamp is
one) and `NothingIsForged` (nobody on the way makes a signature of a registered key: the
cryptography is not modelled):

- `LedgerInvariant` (`LedgerInv`): the event, the registry and the pins keep their shape,
  a pin is an earlier state of the registry, a registered key's signature is one that
  was made, and each consumer's record of what it verified and what lapsed is true.
- `OnlySignedIsVerified` and `ReadersDoAgree`: through the order of the verifiers' returns,
  check by check.
- `VerdictIsConvex` and `LapsedIsForGood`: what makes an event verified is, in time and
  in registries, a conjunction of lower and upper bounds, so that a verdict lost does
  not come back. `LapsedStaysLapsed` alone is not inductive: `Lapsed` remembers the
  registries and times at which the event was verified and refused.
- `ChainIsOutsideTheVerdict` and `RotationIsHarmless`: the action properties
  `ChainKeepsVerdict` and `VendoringOnlyRevokes`.

`SpecCheckoutProofs`, about the generator for any ids, bytes, prefixes and numbers of
edits, from `PathsDiffer`, and about the projections harness for any vectors, refs and
moves, from `VectorsTyped` (a vector's lists are sequences, and a manifest has the
repo, kind and predicate its entry is sorted by):

- `WholeRunsAreGreen`, `CheckCoversGates` and `CanonConfirmsWrites`, from `GeneratorInv`:
  what is still to be written is what the canon loaded confirms, and in a run nobody
  disturbed that canon is the checkout still, and what is to be written is what `--check`
  would want, the files written so far included. In which order they are written
  (`NextFile`) no proof needs to know. What a green `--check` says about the other two
  gates, and beside a checkout about the provenance, is a lemma about any state
  (`CheckSpeaks`); the first two theorems share it. It needs that no vector is left which
  the plan does not have, and the literal prefix: without them it is false.
- `IndexIsOfTheSet`, `FaithfulIsNotBlamed` and `NobodyIsMissing`, from `HarnessInv`: what
  is judged is what the driver fetched makes of the fixture in some listing, and a
  verdict is `Verdict` of that. `Before` is a strict order on positions, total because
  positions break ties (`BeforeIsTotal`, by `LessIsLexical`), so that ranks are exactly
  0 to n - 1 (`RanksArePlaces`) and a sort is a reordering (`SortedByRank`). With keys
  that differ, an entry's rank is the same in every listing (`SortedIsPure`), which
  with `ListingIsReordering` makes the merge a function of the set (`MergeIsPure`). A
  fixture whose files do not collide holds every manifest and the sidecar of its own
  path (`FixtureHasAll`), so that the faithful driver makes the merge of it
  (`FaithfulIsMerge`). The first attempt at `FaithfulIsNotBlamed` failed for a reason: the
  model had one value for an index without entries and for none, and a vector
  without manifests got its faithful producer blamed; hence `None` and `Written`.

`ReleaseProofs`, for all `RunIds`, `MaxCommits` and `MaxVersion`, from `ReleaseBounds`
and `NoneIsNoTree`:

- `ReleaseInvariant`: `IInv`, which joins the order of the jobs (`RunsInOrder`), the
  origin of what is live (`LiveIsOfARun`) and completion (`DoneIsLive`). They need each
  other: that an upload is of a verified commit needs the order, and that a green
  `publish-npm` has its own commit live needs that a registry keeps what it has.
- `LiveIsVerified`, `OneContent` and `GreenIsLive`, each from `IInv`. That the readers
  of the wheel and of the npm package agree is a lemma about `PackageReader`: the
  dumps are equal whenever the two version constants are.

Induction along a journal, a listing or a proposal is done with sets and least
elements (`Least`, `Climb`), since induction theorems over operators are not
available to the provers. For the same reason the lemmas that unfold a fold are
stated once for each fold, and what the models take from the library is what the
provers can expand: functions are written out instead of `:>` and `@@`, `Sorted`
counts instead of `SetToSortSeq`, `Stateful` joins singletons instead of
`SelectSeq`, and reorderings come from `Bijection` instead of `Permutations`.

Only model-checked:

- Liveness: `LeakedLeaseHeals`, `DisplaySettles`, `ArmedRunEnds` and
  `PartialPublishHeals` are out of the prover's reach, as is anything about ENABLED.

All other properties of passing runs have a theorem. No module here declares a RECURSIVE
operator.

## Findings

Two runs check a sentence of the repository that the code does not keep.

1. `authority_serializers` (`SerializersCannotDiverge`):
   `src/consiliency_contract/authority.py:29-32` says of the profile that the two
   serializers give the same bytes. The Python expression ends in `$`, which also
   matches before a final line feed, so Python serializes and signs a string that
   JavaScript refuses; and JavaScript cannot see the difference between `1.0` and
   `1`, which Python refuses. On the profile the schema keeps to, they agree
   (`ReadersAgree`).
2. `apply_whole` (`AppliedWhole`): the schema says a proposal is applied whole or
   not at all. `target_map` may take two workspace paths to one protected locator;
   the last entry then wins and the outcome is `proposal_applied`. It is the only
   way (`DistinctTargetsAreWhole`).

## Limits

What the models leave out on purpose, or state as the code's declared behaviour:

- Leases: `release` and `expire` in the fold compare the id only, so the store's own
  guards are what protects a holder. Streams merged from several clocks, symbol
  granularity and the inbox (no input of the projection) are left out.
- Journal: a reader that the writer overtakes with a roll may show a whole journal as
  unknown, until it looks again (`AlarmHasCause`, `DisplaySettles`). An overwrite in the
  open segment is not seen by the chain; only the projection sees it
  (`CurrentProjectionIsExact`; hence `tailHit` in `AcceptedReadIsSnapshot`). Paging,
  foreign writers, copied evidence and what a writer does at its event cap are not
  modelled: the last is stated nowhere. The writer writes nothing after a terminal line,
  not even a torn one (the guard of `EventLine`, `Roll` and `CrashInAppend`): no rule
  says so in words, the lifecycle checker diagnoses such lines (`RunLifecycle` lets them
  come), and `TerminalShownIsFinal` rests on it. Of the reasons for which a reader shows
  `unknown`, a malformed line in the middle, an unknown version and a provenance that
  does not match are left out.
- Lifecycle: a line's kind and its body's are one here; the checker judges the body. The
  first state of a journal is unconstrained, and `refused_after_launch` looks at the
  previous state and the count only.
- Attempt: the recheck before start covers launch digests only; authority, route and
  context may change after admission (`OneRecordVouches` speaks of the context at
  admission). How a part is hashed or spelt is one comparison.
- Apply: two entries that remove one locator (the same path deleted and renamed away)
  pass every check, and then `after.pop` raises (`src/tests/test_contract.py:1920`,
  `1922`): the model's outcome `raised`, with nothing applied. None of
  `x-apply-outcomes` is given, while
  `src/core/supervised-run/conformance/README.v2.md:110-111` speaks of one for every
  proposal, and the JavaScript twin deletes and applies. No property speaks of it. A
  worker's rename or copy carries no edit of the file, and its bases are always those
  bound at launch. A path renamed away and added again in one proposal is always stale,
  since every entry is judged against the state before the first.
- Authority: pins move forward only; an adversary is not modelled, only rewriting of one
  place by a serializer or a hand. Python accepts the closing second of a window whose
  end carries a final line feed (`SignedWindow`). Key order and encoding of canonical
  bytes are taken as injective.
- Vectors: the generator compares the port with the canon it loaded and reads the
  digests of the canon's files later (`gen_authority_vectors.py:480`). A checkout that
  moves in between is named in the provenance though it was not compared, whatever the
  provenance says of itself (`gen_authority_vectors.py:472-473`, "the port was proven
  byte-identical against"): in the model, `Generate`, an `Edit` of the checkout,
  `BuildProvenance`, `WriteFile`. `WritesWhatCanonConfirms` therefore speaks of the
  provenance of undisturbed runs only; `GreenCheckMeansGreenGates` says that `--check`
  beside a checkout does not let the wrong name pass. A canon that vanishes in between
  stands for null digests. Without a checkout the generator pins the port's own bytes
  and leaves the provenance as it was, so that the check and the gate then compare the
  port with itself (the fallback `_pin_canon_bytes` declares, with a warning); no
  property of the scripts can hold against that. `--check` does not look at vectors the
  plan no longer has (`GreenCheckMeansGreenGates` is about trees without one). An `Edit`
  during a run does not affect what the run has loaded.
- Leases: a renew recorded out of clock order would move the heartbeat back in the fold;
  the store here appends in the order of its one clock.
- Release: a version dispatched from two commits may be npm's of the one and PyPI's of
  the other, for nothing ties a version to a commit; `OneCommitOneContent` is stated of
  versions dispatched from one. A run takes the branch's head: tags (a release event)
  and other branches are left out, whose commits would be further branches'. Nothing
  compares `pyproject.toml`'s version with the others, nor does any suite look at the
  Python package's version constant beyond the dump, which compares it with the
  JavaScript one. Forgotten in a bump, `pyproject.toml` makes a green run that has
  published nothing new on PyPI, for `skip-existing` goes over what is there; so
  `GreenRunIsLive` is stated of the version that file names. A deleted or yanked
  release, a run re-run from the start and artifacts that two builds of one commit make
  differ are left out.
- Readers: a data directory that is there but empty, a `core` beside the installed
  package that is not its own, and a contract that cannot be read at import (here it is
  `Missing`, like a file asked for) are left out. Names no commit has are left out, as
  is a package replaced under a running process, whose path table stays that of its
  import.
- Projections: manifests that tie in repo, kind and predicate keep the order of the
  listing, while `docs/design/C0-projection-discovery-contracts.md:36-41` calls the
  index a pure function of the manifests; `GreenMeansPure` excepts them. The committed
  vector lists its two certified manifests of one repo in order already, so a merger
  that sorts by repo and kind alone would pass it; the other vectors of
  `MCProjectionsIndex` are what tells it apart. The driver runs without a timeout, and
  the assertion on a sidecar's file name is taken to hold.

### Not modelled

- Git discipline and self-heal: the schema and the registry name ref classes and a
  deletion rule, and the tests compare two fixed lists. The reconcile that would prune
  refs under leases lives in other repositories; its steps are stated nowhere here,
  and a model of it would be an invention.
- JCS and schema validation: formatting of numbers and strings over unbounded data,
  without state; the canonical vectors are their test.
- Governance schemas and registries (adoption, loop gate, maturity labels, protected
  sources, canonical HTML): enumerations without behaviour.

## Plan

Done, in this order: leases and their proofs; lifecycle, journal, reader, projection;
authority; apply check; admission and attempt; vector generator; source tree, composed
into the attempt; release and package readers with their proofs; projections index; proofs
about chain and projection, reads and alarms, the ledger, the generator, the lifecycle
checker, the attempt with its tree and its journal, the apply check, the projections
index; the apply check and the attempt as implementations of an abstract specification
each, as the lease store is of `Tenure`.

What would be worth doing next, should the code grow that way: the reconcile of refs
under leases once its steps are stated in this repository, and several scopes with
streams merged from several clocks.
