# Formal models of the deployment composition

TLA+ modules, TLC configurations and TLAPS proofs about the programs in
`src/ebiz_deployment`. Each definition is translated from that code; where the
code depends on an installed package (the Agent Runtime, httpx, Python's import
system, an installer) the model takes from it only what this code relies on and
lets it do anything else. `PROJECT.json` maps every definition to its lines.

## 1. The system

| Part | Code | State it keeps | Operations |
|---|---|---|---|
| Launcher | `launcher.py` | none; one copy of the environment | `launch`: bytecode check, configuration, policy path, composition, Runtime |
| Configuration | `config.py` | none (frozen models) | `load_deployment_config`: read, expand, validate two documents |
| Composition | `composition.py` | the composition root handed to the Runtime | `build_provider_composition`: required secrets, resolver, deployments, policy |
| Credential resolution | `credentials.py` | environment view, allowlists; no cache | `require_available`, two `resolve`s, called concurrently |
| Attestation | `record_attestation.py`, `attestation.py` | none; reads the installed wheel | `attest_installed_distribution`, `build_attestation_environment` |
| Live smoke | `supply_chain_live.py` | locals of one run; rows in PostgreSQL | publish, start, recover after a read timeout, judge facts and branch |
| Local assets | `local_dev_assets.py` | eight files below one directory | `write_local_dev_assets`, `_write_local_tls` |
| Local services | `local_dev_services.py` | none (stateless handlers) | broker, Cockpit, model and MCP routes; three servers in one process |
| Infrastructure | `docker-compose.yml`, `config/` | external stores | started by hand |

How they interact:

* The launcher copies the environment, validates the two documents, and hands
  `composition.py`'s root to the Runtime. The Runtime's adapters call the
  credential resolver, each request in its own task, and it calls the broker.
* The attestation command reads the installed Supply Chain wheel; an operator
  copies its digest into the environment that the launcher requires. The
  Runtime and the live smoke import that wheel.
* The live smoke publishes the wheel's contracts to the database, sends a start
  request to the Runtime and, in local mode, reads the Runtime's rows itself
  when that request times out.
* The asset writer generates what the local services and the launcher are
  configured with; its files are the only state shared between its runs. The
  local services answer the adapters and the resolver in development.

What is hard: the smoke reads status, events, evidence and branch in separate
queries while the Runtime writes, after a timeout that says nothing about the
Runtime, and may itself be killed and run again; resolutions take time and their
answers may be late, expired or foreign; the asset writer and the attestation touch
several files without a lock while they may be cut short or overtaken. The
list of hazards, each at its line, is in `PROJECT.json`.

What makes each part correct:

* Live smoke: success only for an execution of its own that is, and stays,
  acceptable; failure before the deadline only for one that can no longer
  become so; it ends.
* Credentials: each call gets a token of the provider it asked for, not expired;
  what the preflight found keeps holding; each call ends.
* Assets: nobody can load an environment that names missing documents; a rerun
  repairs what a cut-short run left.
* Attestation: an undisturbed run passes exactly the clean installations, a
  disturbed one vouches only for what was there while it ran, and a restart of an
  untouched installation is accepted.
* Configuration and launch: what the Runtime runs with is what was validated,
  and that is the read-only surface; the repository's own documents pass.
* Local services: they serve all or nothing, with a certificate that clients
  trust, until interrupted, and an interrupt ends them without dropping requests.

## 2. Modules

| Module | Models | Uses |
|---|---|---|
| `RuntimeStore` | the Runtime's rows as the smoke queries them (external) | |
| `LiveSmoke` | runs of `supply_chain_live.main` beside the Runtime | extends `RuntimeStore`; instantiates `SmokeContract` |
| `SmokeContract` | the abstract promise of the smoke to its operator | |
| `Credentials` | secret snapshot, concurrent `resolve` calls, broker, clock | |
| `LocalBroker` | the broker route of the local services in place of the free broker | extends `Credentials` |
| `LocalAssets` | runs of `write_local_dev_assets` on one directory | |
| `LocalServices` | start, interrupt and end of the three local servers beside the asset writer | extends `LocalAssets` |
| `DeploymentConfig` | expansion and validation of the two documents, as operators | |
| `Launch` | attestation, export, `launch` and a rollout that changes things meanwhile | extends `DeploymentConfig` |
| `Documents` | the documents the repository generates or gives as examples | |
| `Provided` | which of them belong together, and what their texts mean | extends `Documents`, `DeploymentConfig` |
| `Attestation` | attesting, launching and importing processes, installer, operator | instantiates `AttestationContract` |
| `AttestationHistory` | what has been at each path since an attestation began | extends `Attestation` |
| `AttestationContract` | the abstract promise of an attestation: one look, one answer | |
| `*_proofs` | theorems about the module of the same name | `TLAPS` |
| `MC*`, `*.cfg` | the instances TLC checks | |

Definitions whose comment begins with "Slip" are plausible mistakes in the
definition that follows them. No specification uses them; replacing the right
definition by its slip must make a property fail, which shows that the property
depends on that line of the code.

### LiveSmoke and RuntimeStore

`pc[r]` is the place where run `r` waits for something outside: the HTTP calls
of `run_smoke`, each query of `_recover_local_timed_out_smoke`, its sleep, the
branch check. Between two such places one action runs. `found`, `seen` and
`sawEvents` are the locals `execution.id`, `execution.status` and `event_types`;
`seen` keeps the status as the last poll loaded it, because the session is
closed and the object is not refreshed. `expired` says that `monotonic()` has
reached the deadline; the loop test is the only thing that reads it, so the
iteration after the deadline goes on with the row it has, as in the code.
`ReadTimeout` may happen before or after the start request has left, and the
request may reach the Runtime after the caller gave up.

The Runtime (`RuntimeStep`) creates an execution for a requested key, emits
events, attaches evidence, completes branch nodes and finishes with any status,
or stops at any point. Assumed of it, because the queries rely on it: one
execution per idempotency key, one row per branch node, and no write to an
execution after its terminal status is committed. One tenant is modelled;
`run_id` is a fresh UUID, so a run stands for its key. The contents of settings,
token, inputs and contracts are abstracted; publishing commits or raises, and an
error may reach the client after the commit. The answer of
`GET /v1/executions/{id}` is the Runtime's projection of committed rows.

`SmokeContract` has two variables per run, the sealed facts of its execution and
the verdict. The refinement mapping (`factsOf`, `verdictOf`) reads the facts off
the database, not off what the run saw: a pass that rests on a stale read is no
step of the contract.

### Credentials

`Compose` is `launch`'s `dict(environment)` followed by `require_available`;
`view` is that copy and `environ` the process environment, which may change at
any time. `Begin` is `resolve` up to `client.post`, `Conclude` the part after
the response, `TimesOut` and `Breaks` its exceptions. The timeout given to httpx
bounds each silence, not the whole call, so `silence` restarts with every piece.
A token ages from the moment the broker mints it; broker and process are
assumed to agree on the clock. Two calls share nothing but `view` and the
allowlists: `resolve` opens its own client and keeps its answer in locals, so
`answer[c]` belongs to call `c`, and a mix-up of answers between calls is nothing
that this code could cause. `token[c]` is the provider whose token the call returned.

### LocalAssets

A file is absent, torn (opened, hence emptied) or filled by a run. For the TLS
files the run that filled them is what matters: certificate, CA and key fit
together only when one run generated all three. The CA key is never stored, so
nothing else can sign for it. JSON contents depend only on the directory and
are abstracted to "complete". A run takes no time compared with a tick of the
certificates' age.

### Attestation

`site[f]` is what is at each path of the package, its dist-info and the
competing names beside it; a RECORD is the function from paths to listed
contents, and the canonical digest determines it. The stages are those of
`attest_installed_distribution`: identity, RECORD, one step per row, the
editable test and the roots, one step per entry of the package directory, which
is one directory here. A `.py`, `.pyc` or shadow file must be listed; a data
file need not be, a link never passes. A row that cannot be parsed, an unsafe
path, a duplicate or a malformed hash is the value `Malformed`. Hash collisions
do not happen. `Check` is the launcher's test of `sys.dont_write_bytecode`
followed by configuration checks that may fail; `Import` is the import of the
package by the Runtime, or by `resources.files` in the live smoke. Installers
replace files and RECORD in any order and may be killed.

`calm[p]` (nothing changed since `p` began), `fresh[p]` and `certified` are
history variables; no guard reads them.

`AttestationContract` knows a reader's phase, its answer, whether it was
disturbed, and what the installation deserves: the digest of its RECORD when it
is clean, nothing otherwise. The mapping (`dueOf`, `phaseOf`, `answerOf`, and
`calm` for undisturbed) sends every row and directory entry read to a stutter,
the verdict to `Answer`, and whatever touches the files to `Change`, which must
disturb everyone: a test that looks at less than `Clean` does, or a write that
does not count as a change, is no step of the contract. An import that writes
bytecode is a `Change` like an installer's; launches and imports never answer.

`AttestationHistory` says what is left of the promise when something does change.
`been[p][f]` collects what has been at path `f`, and `records[p]` what has been the
RECORD, since `p` began to attest; no step depends on them, and they are emptied
when `p` is done. A disturbed attestation may mix two wheels, since the code takes
no lock and reads nothing twice. It still promises `PassedWasWitnessed`: the digest
is of a RECORD that was there, each listed file had the listed content at some
moment of the attestation, every other importable path was empty at one, and so
were the rivals of the distribution, while METADATA was the expected one.

### DeploymentConfig, Documents and Provided

A document is a record of its top-level fields (`head`) and a sequence of its
providers or plugins (`parts`). The free-form `config` of a provider is
flattened into endpoint, tools and key name, which is what
`_validate_provider_config` looks at; `closed` stands for "no missing and no
extra field" of a record and its nested objects. What a text means is a constant
function of it: `NameIn` (a `${NAME}` reference), `Url`, `Seconds`, `Digests`,
`Symbols`. The operators are the validators of `config.py` one by one, pydantic's
field constraints included as far as a value can break them. `network` objects
are compared by nothing and left out.

`Documents` writes out what `_deployment_config`, `_plugin_policy` and
`_environment` generate (of the environment, the variables that a launch reads)
and the two examples in `config/`, independently of the tables in
`DeploymentConfig`, because the code too states both apart from each other.
`IsProvided` (in `Provided`) says which sets of deployment document, policy and
environment the repository provides: what the writer generates for an output directory (two
paths, which may be any texts that are no references), or the examples with an
environment that fills in `deployment.env.example` (`FillsIn`: every variable is
set, the digests are digests, the endpoints credential-free addresses whose hosts
are the egress hosts; stated without the validators). `Meanings`
is what the texts in them mean: which are references, which are URLs of the
loopback host, that `"5"` is five seconds.

### Launch

`pc` is the step of `launch` that comes next: the bytecode check, reading the
deployment document, finding the policy file, reading it, comparing
`APP_PLUGIN_POLICY_PATH` with it, composing, and the Runtime's own reading of the
policy. Each step accesses the outside once; between two steps a rollout may
rewrite or tear a document, relink a policy path, create or remove directories or
reinstall wheels. A process keeps the environment it was started with, so the
environment does not change during a launch. `config` is the expanded and
validated document, `policy` the raw document in the policy file, since it is the
file and not the expanded copy that the Runtime reads again.

Before the launch, `Discover` and `BuildAttestationEnvironment` are `main` of
`attestation.py`: descriptors first, Supply Chain wheel second. The attestation
of that wheel is one step here (its result is `installed.supply_chain`); the
module `Attestation` opens it. `Export` is the operator who copies what was
printed. The Adapter descriptors come from `base_ai` and are external. `calm` and
`current` are history variables: nothing changed since the launch, and no wheel
since the attestation, began.

### LocalServices and LocalBroker

`LocalServices` adds the process of `ebiz-local-dev-services` to the asset
writer. What it assumes of uvicorn and asyncio, which are external: a server
begins by loading its TLS pair and taking over the SIGINT handler, and keeps the
handler it found in `saved`; the three begin in the order in which `gather` made
their tasks, before any of them is bound, because each runs up to its first await, the
application's startup; a taken port exits the process, and an exception in one server ends the
gather, `_serve` and the process; an interrupt marks the server that holds the
handler, which stops accepting, waits for its requests unless it is interrupted
again, restores the handler it had found and raises there what it had caught;
asyncio's own handler cancels everything and `main` returns 130. A SIGTERM goes
the same way and is left out. Handlers compute an answer without waiting, so a
request ends.

`LocalBroker` replaces the action `BrokerAnswers` of `Credentials` by the route
`/v1/resolve`: the same step, restricted to the answers of `resolve_credential`
(401, 403 and 404 are errors; otherwise a token of the asked provider with a life
of five minutes). The life is a constant number of ticks.

## 3. What the runs check

| Run | Bounds | Shows |
|---|---|---|
| `live_one` | 1 run, 1 execution, 3 event types of which 2 required, evidence 0 to 2 with 1 expected, 4 outcomes | `SuccessIsSound`, `NoFalseAlarm`, `BranchRejectionIsJust`, `ImplementsContract`, and with fairness `EventuallyExits` |
| `live_two` | 2 runs, 2 executions, 1 event type, 1 evidence row, outcome SUCCEEDED | `OwnExecution`, `ImplementsContract` with a rerun or a neighbour |
| `credentials_safety` | 2 calls, 2 allowed and 1 other provider, lifetimes 0 to 2, silence timeout 1, 1 piece | `GrantsMatchTheQuestion`, `GrantsAreLive`, `PreflightHolds` |
| `broker` | 2 calls, 2 references, 2 providers, a token life of 2 ticks, timeout 1, 1 piece | `EveryCallEnds`, `LocalCallsAreGranted` |
| `assets_crash` | 3 runs, 2 at once, 2 cut short, 1 removal | `EnvironmentComesLast`, `RerunRepairsJson`, `RegeneratedTlsFits` |
| `services` | 2 asset writers in turn, 2 removals, taken ports, 2 interrupts, 1 request a server | `RunLeavesFittingTls` when no run is cut short, `RerunKeepsTrust`, `StartFindsTls`, `AllOrNone`, `OneInterruptDrains`, `ShutdownNotStuck`, and with fairness `InterruptEnds` |
| `attestation_change` | 2 processes, 7 paths, 5 wheels; or 3 processes, 2 at once until something has changed and then one at a time, 4 paths without links, 2 wheels, no live smoke that writes bytecode; 1 edit or installation; once something has changed, one process attests at a time | `PassedIsClean`, `RejectedIsFlawed`, `ImplementsContract`, `PassedWasWitnessed`, `RestartIsAccepted` where no live smoke writes bytecode between two attestations |
| `launch` | 119 deployment documents, 8 policies, 17 environments without change; or 2 deployment documents, 2 policies, 2 policy files, 2 paths, 6 installations, 1 change | `GrantsOnlyReads`, `EgressIsConfined`, `SecretsStand`, `IntendedIsAccepted`, `EnforcedWasValidated`, `AttestedPinsMatch` |

Where a run has alternative bounds, its MC module restricts the next-state
relation (`Small`, `Alone` and `Changing`); the actions are the component's own.

Four runs are violated, each by a behaviour of the code:

* `live_sanitized`: a SQLAlchemy error, or a missing distribution, escapes the
  except clause of `main` (`supply_chain_live.py:478`), whose docstring promises
  sanitized failure output.
* `assets_cut`: a run cut short inside the TLS set leaves it torn or mixed, and
  `local_dev_assets.py:438` keeps it because the three files exist.
* `assets_expired`: the same test keeps the certificate after its seven days.
* `attestation_smoke`: the live smoke imports the attested package without the
  launcher's bytecode check, so a later attestation of an installation that
  nobody changed is rejected.

Why the bounds are enough: one run meets every order of its own reads with the
Runtime's writes, since an execution has only one writer of each kind; evidence
below, at and above the expected count are there, and a required event may be
missing while the other is present. Two runs are what one execution id can be
confused between. Tokens can be expired at minting, on the way and never;
timeouts can fire before the first byte and between pieces. Two asset writers
at once meet every pair of steps and a third comes after them. For the
attestation, one change can fall between any two of the file reads; three
processes are an attestation, what follows it, and the next attestation. After the
change one process attests at a time, and none varies its bytecode setting,
because an attestation neither writes nor imports and another cannot see it. The
documents of `launch` deviate from an accepted one in one field or two,
for each constraint of the validators below and above it, in the document or in
the environment it refers to; a change cannot make two deviations cancel out,
since every validator must accept. With the repository's own documents one change
falls between any two steps of attestation, export and launch; with two paths and two files the
paths may agree, differ, and come to differ. Two interrupts are those that drain
and those that do not wait; a second service process starts after the first has
ended. The theorems below cover the safety properties for every value of the constants.

Deadlock is not an error in `LiveSmoke`, `LocalAssets`, `Attestation`, `Launch`
and `LocalServices`: a command ends, and when all have ended nothing happens.

Fairness. `EventuallyExits` assumes that the interpreter runs the command, that
the monotonic clock moves, that every HTTP call of `run_smoke` returns or times
out (it sets timeouts), and that each query is answered: the engine has no
command timeout, so a database that accepts a query and never answers would
hang the command, and this is outside the model. Nothing is assumed of the
Runtime. `EveryCallEnds` assumes that the clock moves and the event loop serves
what is ready; a broker may fall silent for ever, but a body has at most
`MaxChunks` pieces, because one that trickles for ever restarts the timeout for
ever. `InterruptEnds` assumes that the event loop runs what is ready (servers
that begin, bind or may end) and that requests in progress are answered, which
the handlers of `local_dev_services.py` do without waiting; nothing is assumed of
interrupts, clients or the asset writer.

## 4. What is proved

Each `*_proofs` module but `Provided_proofs` and `LocalBroker_proofs` proves `Init => IInv`, `IInv /\ [Next]_vars => IInv'`,
one lemma or step per action, and derives its theorems from the invariant.

* `LiveSmoke_proofs`: `TypeCorrect`, `Soundness` (`SuccessIsSound`), `NoAdoption`
  (`OwnExecution`), `RecoveryIsJust` (`NoFalseAlarm`), `BranchIsJust`
  (`BranchRejectionIsJust`), and `Refinement` (`ImplementsContract`). The
  properties speak of how a run ended; the invariant adds what a run knows on
  its way (`Knows`): a terminal status it loaded is still the row's, events read
  after that are final, and past the verdict the facts are complete for good.
  `KeyInv` says that a row belongs to the run whose key it carries.
* `Credentials_proofs`: `ProviderMatch`, `Unexpired` and
  `PreflightLasts`, from `CallInv`: a question that was sent has passed both
  checks, and what was granted is a live token of the provider asked for.
* `LocalAssets_proofs`: `EnvironmentLast` and `Repair`, from `Progress`: a run
  has created every document before its position, and completed it if alone.
  About the TLS set, `TlsSetInv` says that a run alone inside it owns what it has
  passed, and past it owns all three files or none. From it, `Regeneration`
  (`RegeneratedTlsFits`): whatever crashes and concurrent runs had left, a run
  alone that generated any of the set leaves one that fits. `UndisturbedRuns`
  says that every run does, as long as none was cut short and none had another
  beside it; `FittingTls` (`RunLeavesFittingTls`) is the same as a theorem of the
  specification, with `MaxCrashes = 0` and `MaxConcurrent <= 1` as hypotheses.
  These are needed: `assets_cut` violates the property where they fail.
* `Attestation_proofs`: `NothingUncleanPasses` and `NothingCleanIsRejected`, from
  `Established`: what the reads so far say about an installation that has not
  changed since. `RestartContract` says that `RestartIsAccepted` holds as long as
  no live smoke has run with bytecode writes enabled (`Quiet`), with the stronger
  `RInv`: the launcher's check keeps every importing process from writing, so an
  attested installation stays clean. `Refinement` (`ImplementsContract`) takes
  the steps of a process and those of its surroundings apart and needs
  `DigestInv` besides: also a disturbed reader holds the digest of some wheel.
  `Witness` (`PassedWasWitnessed`) needs no calm: from `WitnessedSoFar`, which says
  at each stage that what was verified so far was so when it was read.
  `HistoryIsAuxiliary` carries the other theorems over to `HistorySpec`.
* `Launch_proofs`: `TypeCorrect`, `ValidatedIsEnforced`
  (`EnforcedWasValidated`), `ReadsOnly`, `EgressConfined`, `SecretsLast` and
  `PinsMatch`, for any set of documents, environments, files and installations.
  Whatever the texts mean, past the step `config` the document in hand has passed
  `ValidateDeployment`, and `ComposedInv` ties the composition to it, so three of
  them follow from the validators alone. `CalmInv` keeps what was read equal to what is there
  while nothing changes. `PinInv`, proved on top, follows a digest from the
  descriptor through `emitted` and the environment into the expanded document; it
  needs that the document in hand takes its digests from the environment
  (`PinsAreReferences`, a premise of the property). `OneDecision` says that a
  launch that nothing disturbs is refused only where something it needs is
  missing or invalid (`~Startable`) and hands over only where nothing is, from
  `DecidedInv`: what each step found still holds. `FittingIsAccepted` follows:
  if each intended set of documents passes the validators in its environment
  (`Fits`), then `IntendedIsAccepted`.
* `Provided_proofs`: `ProvidedIsAccepted`, that what the repository provides does
  pass them, hence `IntendedIsAccepted` for any output directory of the asset
  writer and any environment that fills in the examples, not only those of the
  run. Its hypotheses are `Meanings` and `IsProvided`, which TLC evaluates for the
  tables of the run (`ProvidedAssumption` of `MCLaunch`). The proof expands the
  three providers and the policy field by field and takes them through the
  validators in their order.
* `LocalServices_proofs`: `ServicesTypeCorrect`, `Trust` (`RerunKeepsTrust`),
  `TlsFound` (`StartFindsTls`), `Together` (`AllOrNone`), `Drains`
  (`OneInterruptDrains`) and `NeverStuck` (`ShutdownNotStuck`), from `ServicesInv`. `TlsInv` says that of orderly runs
  only the first generates, before any document is there; `PairInv` that a
  process began after that; `ChainInv` gives the chain of handlers, broker to MCP
  to provider to asyncio, and `DrainInv` places one interrupt on it;
  `HeldInv` says that an interrupt that has not ended the process is held by a
  server, so that the chain cannot wait for itself. `WriterUndisturbed` says that
  the composition implements the asset writer alone; `ServicesFittingTls` carries
  `FittingTls` over to it.
* `LocalBroker_proofs`: `LocalImplements` (every behaviour with the local broker
  is one of `Credentials`, so that its theorems carry over) and `LocalGrants`
  (`LocalCallsAreGranted`), from the invariant of `Credentials` and
  `AnswersAreResolved`.
* `TypeCorrect` is proved in every module of theorems but `LocalBroker_proofs`,
  where it follows from `LocalImplements`, and `Provided_proofs`, which adds no state.

The assumptions are those named in the modules (`StoreAssumption`,
`SmokeAssumption`, `CredentialsAssumption`, `AssetsAssumption`,
`AttestationAssumption`, `ConfigAssumption`, `LaunchAssumption`,
`ServicesAssumption`, `LocalBrokerAssumption`): types of the constants and that
distinct values are distinct. `LocalBrokerAssumption` also says that the
providers allowed to ask are those the route knows, as `validate_provider_ids`
requires. TLC evaluates them in every run.

Only model-checked: `EventuallyExits`, `EveryCallEnds` and `InterruptEnds`, which
need fairness and are out of the prover's reach (`NeverStuck` is the part of the
last that does not). Every invariant and every action property of a passing run is
a theorem.

## 5. What is not modelled

* The routes of Cockpit, Responses and MCP in `local_dev_services.py`: each
  computes a fixed answer from one request and keeps nothing between two of them.
* The subdirectories of the attested package: `Attestation` has one directory.
* `__init__.py`, `docker-compose.yml`, `pyproject.toml`: no behaviour of their own.
* Contents: token claims, contracts, inputs, the skill and model schema
  documents, network limits, the wording of messages.
* The Runtime's own startup attestation, its health checks, and what it does with
  the policy it reads. It compares pins with wheels; whether the digest constants
  in `local_dev_assets.py` are those of the wheels in use is decided there.
* What two asset writers at once leave of the TLS set: they may interleave, and nothing
  in the code prevents it. They do so in the model too, but no property of TLS
  speaks of them before a later run that is alone generates the set again
  (`RegeneratedTlsFits`), which takes a removed file.

## 6. Plan

1. `RuntimeStore`, `LiveSmoke`, `SmokeContract` (done): the part with the most
   concurrency; abstract contract and refinement proved.
2. `Credentials`, and `LocalBroker` as its concrete broker (done).
3. `LocalAssets`, and `LocalServices` beside it (done).
4. `Attestation` (done for one distribution in one directory); left:
   subdirectories of the package.
5. `DeploymentConfig`, `Documents`, `Launch` (done).
6. `AttestationContract` and its refinement (done).
7. Left: an abstract specification of the asset directory and one of the
   resolver that `LocalAssets` and `Credentials` refine; a property about record
   digests that are constants of `local_dev_assets.py` while wheels are rebuilt.
