------------------------------ MODULE LiveSmoke ------------------------------
(***************************************************************************)
(* The live smoke command, src/ebiz_deployment/supply_chain_live.py: any   *)
(* number of runs of main(), each with its own run_id, against one         *)
(* database that the Runtime writes concurrently (RuntimeStore).           *)
(*                                                                         *)
(* There is one action per piece of code between two points where the      *)
(* process waits for something outside (an HTTP answer, a query, a sleep), *)
(* so everything the Runtime or another run commits in between is visible  *)
(* to the next step and not to the values already read.                    *)
(***************************************************************************)
EXTENDS RuntimeStore

CONSTANTS
    RequiredEvents,    \* the event types _verify_durable_smoke_facts requires
    ExpectedEvidence,  \* settings.expected_evidence_count
    NoExecution        \* the local `execution` while it is None

ASSUME SmokeAssumption ==
    /\ RequiredEvents \subseteq Events
    /\ ExpectedEvidence \in 1 .. 100
    /\ NoExecution \notin ExecutionIds

\* Where a run stands; each name is the call it makes next or waits for.
Recovering == {"poll", "sleep", "readEvents", "readEvidence"}
Steps == {"start", "publish", "smoke", "waiting", "branch", "exited"} \union Recovering

\* How a run ended: "ok", "usage", a kill, or the exception that reached main().
CaughtByMain == {"OSError", "ValueError", "HTTPError", "ReadTimeout", "SmokeFailure",
                 "CapabilityPublicationError",
                 "NotPersisted",       \* SmokeFailure of the recovery, line 331
                 "IncompleteFacts",    \* ValueError of _verify_durable_smoke_facts
                 "WrongBranch"}        \* ValueError of the two branch checks
DatabaseErrors == {"OSError", "SQLAlchemyError"}
PublishErrors == DatabaseErrors \union
    {"ValueError", "CapabilityPublicationError", "PackageNotFoundError"}
RunSmokeErrors == DatabaseErrors \union {"SmokeFailure", "HTTPError"}
Exits == {"none", "ok", "usage", "killed"} \union CaughtByMain \union PublishErrors

VARIABLES
    pc,         \* pc[r]: where run r stands
    local,      \* local[r]: settings.local_dev_e2e
    expired,    \* expired[r]: monotonic() has reached the recovery deadline
    found,      \* found[r]: execution.id, or result["execution_id"]
    seen,       \* seen[r]: execution.status as the last poll loaded it
    sawEvents,  \* sawEvents[r]: event_types
    exit        \* exit[r]: how the run ended, "none" while it runs

runVars == <<pc, local, expired, found, seen, sawEvents, exit>>
vars == <<storeVars, runVars>>

RunTypeOK ==
    /\ pc \in [Runs -> Steps]
    /\ local \in [Runs -> BOOLEAN]
    /\ expired \in [Runs -> BOOLEAN]
    /\ found \in [Runs -> ExecutionIds \union {NoExecution}]
    /\ seen \in [Runs -> Status]
    /\ sawEvents \in [Runs -> SUBSET Events]
    /\ exit \in [Runs -> Exits]

RunInit ==
    /\ pc = [r \in Runs |-> "start"]
    /\ local = [r \in Runs |-> FALSE]
    /\ expired = [r \in Runs |-> FALSE]
    /\ found = [r \in Runs |-> NoExecution]
    /\ seen = [r \in Runs |-> "NONE"]
    /\ sawEvents = [r \in Runs |-> {}]
    /\ exit = [r \in Runs |-> "none"]

Init == StoreInit /\ RunInit

-----------------------------------------------------------------------------
(* The facts a run is judged by, and the pure checks of the code.          *)

\* What README.md requires of an execution before the success record is
\* emitted: terminal success, the Runtime events and the exact evidence count;
\* and only the complete branch.
FactsComplete(e) ==
    status[e] = "SUCCEEDED" /\ RequiredEvents \subseteq events[e] /\ evidence[e] = ExpectedEvidence
Acceptable(e) == FactsComplete(e) /\ succeeded[e] = {"build_result"}

\* Slip: at least the expected evidence instead of exactly.
VerifyAtLeastTheEvidence(st, eventTypes, evidenceCount) ==
    st = "SUCCEEDED" /\ RequiredEvents \subseteq eventTypes /\ evidenceCount >= ExpectedEvidence

\* _verify_durable_smoke_facts
VerifyDurableSmokeFacts(st, eventTypes, evidenceCount) ==
    /\ st = "SUCCEEDED"
    /\ RequiredEvents \subseteq eventTypes
    /\ evidenceCount = ExpectedEvidence

\* Slip: the two branches are no longer required to exclude each other.
VerifyCompleteNodeRan(nodes) == "build_result" \in nodes

\* _verify_complete_branch_nodes
VerifyCompleteBranchNodes(nodes) ==
    /\ "build_result" \in nodes
    /\ "build_blocked_result" \notin nodes

\* verify_complete_snapshot
VerifyCompleteSnapshot(snapshot) ==
    /\ snapshot.status = "SUCCEEDED"
    /\ snapshot.outputs = {"complete_result"}
    /\ snapshot.complete

\* The bodies GET /v1/executions/{id} may answer with: the Runtime projects the
\* committed rows; whether the complete_result says COMPLETE is up to it.
OutputOf == [build_result |-> "complete_result", build_blocked_result |-> "blocked_result"]
Snapshots(e) ==
    [status : {status[e]}, outputs : {{OutputOf[n] : n \in succeeded[e]}}, complete : BOOLEAN]

-----------------------------------------------------------------------------
(* Steps of one run.                                                       *)

At(r, step) == pc[r] = step
Goto(r, step) == pc' = [pc EXCEPT ![r] = step]

\* The run ends; the locals of its functions are gone, the id it worked on is
\* kept because "ok" prints it.
Exit(r, how) ==
    /\ Goto(r, "exited")
    /\ exit' = [exit EXCEPT ![r] = how]
    /\ seen' = [seen EXCEPT ![r] = "NONE"]
    /\ sawEvents' = [sawEvents EXCEPT ![r] = {}]
    /\ UNCHANGED <<local, expired, found>>

\* main() with arguments, or from_environment(): it refuses the environment or
\* returns settings in one of the two modes.
Start(r) ==
    /\ At(r, "start")
    /\ \/ \E how \in {"usage", "ValueError"} : Exit(r, how)
       \/ /\ \E mode \in BOOLEAN : local' = [local EXCEPT ![r] = mode]
          /\ Goto(r, "publish")
          /\ UNCHANGED <<expired, found, seen, sawEvents, exit>>
    /\ UNCHANGED storeVars

\* publish_capabilities() returns; the token is issued from settings that
\* from_environment() has already validated.
PublishCapabilities(r) ==
    /\ At(r, "publish")
    /\ published' = TRUE
    /\ Goto(r, "smoke")
    /\ UNCHANGED <<requested, rows, local, expired, found, seen, sawEvents, exit>>

\* It raises instead: a database error may reach the client after the commit.
PublishRaises(r, exc) ==
    /\ At(r, "publish")
    /\ published' \in (IF exc \in DatabaseErrors THEN {published, TRUE} ELSE {published})
    /\ Exit(r, exc)
    /\ UNCHANGED <<requested, rows>>

\* Inside run_smoke: the start request leaves for the Runtime.
SubmitStart(r) ==
    /\ At(r, "smoke")
    /\ requested' = requested \union {r}
    /\ Goto(r, "waiting")
    /\ UNCHANGED <<published, rows, local, expired, found, seen, sawEvents, exit>>

\* run_smoke returns the execution of its idempotency key after it has checked
\* the terminal execution, its events and its exact evidence count itself.
RunSmokeReturns(r) ==
    /\ At(r, "waiting")
    /\ \E e \in ExecutionsOf(ScopedKey(r)) :
          /\ FactsComplete(e)
          /\ found' = [found EXCEPT ![r] = e]
    /\ Goto(r, "branch")
    /\ UNCHANGED <<storeVars, local, expired, seen, sawEvents, exit>>

RunSmokeRaises(r, exc) ==
    /\ pc[r] \in {"smoke", "waiting"}
    /\ Exit(r, exc)
    /\ UNCHANGED storeVars

\* httpx.ReadTimeout from any HTTP call of run_smoke: production lets it out,
\* local development starts the recovery and its deadline.
ReadTimeout(r) ==
    /\ pc[r] \in {"smoke", "waiting"}
    /\ \/ /\ local[r]
          /\ Goto(r, "poll")
          /\ expired' = [expired EXCEPT ![r] = FALSE]
          /\ UNCHANGED <<local, found, seen, sawEvents, exit>>
       \/ /\ ~local[r]
          /\ Exit(r, "ReadTimeout")
    /\ UNCHANGED storeVars

\* Slip: any row of the key leaves the loop, whatever its status.
PollForAnyRow(r) ==
    /\ At(r, "poll")
    /\ ~expired[r]
    /\ \E e \in ExecutionsOf(ScopedKey(r)) :
          /\ found' = [found EXCEPT ![r] = e]
          /\ seen' = [seen EXCEPT ![r] = status[e]]
    /\ Goto(r, "readEvents")
    /\ UNCHANGED <<storeVars, local, expired, sawEvents, exit>>

\* Slip: the key the row was found by is kept in place of its id.
PollKeepsTheKey(r) ==
    /\ At(r, "poll")
    /\ ~expired[r]
    /\ \E e \in ExecutionsOf(ScopedKey(r)) : found' = [found EXCEPT ![r] = key[e]]
    /\ Goto(r, "sleep")
    /\ UNCHANGED <<storeVars, local, expired, seen, sawEvents, exit>>

\* One iteration of the polling loop: the deadline is tested, the row of the
\* scoped key is loaded, and a terminal status leaves the loop.
Poll(r) ==
    /\ At(r, "poll")
    /\ ~expired[r]
    /\ \/ \E e \in ExecutionsOf(ScopedKey(r)) :
            /\ found' = [found EXCEPT ![r] = e]
            /\ seen' = [seen EXCEPT ![r] = status[e]]
            /\ Goto(r, IF status[e] \in TerminalStatus THEN "readEvents" ELSE "sleep")
       \/ /\ ExecutionsOf(ScopedKey(r)) = {}
          /\ found' = [found EXCEPT ![r] = NoExecution]
          /\ Goto(r, "sleep")
          /\ UNCHANGED seen
    /\ UNCHANGED <<storeVars, local, expired, sawEvents, exit>>

Sleep(r) ==
    /\ At(r, "sleep")
    /\ Goto(r, "poll")
    /\ UNCHANGED <<storeVars, local, expired, found, seen, sawEvents, exit>>

\* The clock reaches the deadline during a query, a sleep or a test.
DeadlinePasses(r) ==
    /\ pc[r] \in {"poll", "sleep"}
    /\ ~expired[r]
    /\ expired' = [expired EXCEPT ![r] = TRUE]
    /\ UNCHANGED <<storeVars, pc, local, found, seen, sawEvents, exit>>

\* Slip: the deadline only ends the wait for a missing row.
GiveUpOnMissingRow(r) ==
    /\ At(r, "poll")
    /\ expired[r]
    /\ IF found[r] = NoExecution THEN Exit(r, "NotPersisted")
       ELSE Goto(r, "sleep") /\ UNCHANGED <<local, expired, found, seen, sawEvents, exit>>
    /\ UNCHANGED storeVars

\* The loop test fails: without a row the recovery gives up, otherwise it goes
\* on with the row, and the status, that the last poll loaded.
GiveUpPolling(r) ==
    /\ At(r, "poll")
    /\ expired[r]
    /\ \/ /\ found[r] = NoExecution
          /\ Exit(r, "NotPersisted")
       \/ /\ found[r] # NoExecution
          /\ Goto(r, "readEvents")
          /\ UNCHANGED <<local, expired, found, seen, sawEvents, exit>>
    /\ UNCHANGED storeVars

\* The first query of the second session.
ReadEvents(r) ==
    /\ At(r, "readEvents")
    /\ sawEvents' = [sawEvents EXCEPT ![r] = events[found[r]]]
    /\ Goto(r, "readEvidence")
    /\ UNCHANGED <<storeVars, local, expired, found, seen, exit>>

\* The second query, and the verdict on the three values read so far.
ReadEvidence(r) ==
    /\ At(r, "readEvidence")
    /\ \/ /\ VerifyDurableSmokeFacts(seen[r], sawEvents[r], evidence[found[r]])
          /\ Goto(r, "branch")
          /\ seen' = [seen EXCEPT ![r] = "NONE"]
          /\ sawEvents' = [sawEvents EXCEPT ![r] = {}]
          /\ UNCHANGED <<local, expired, found, exit>>
       \/ /\ ~VerifyDurableSmokeFacts(seen[r], sawEvents[r], evidence[found[r]])
          /\ Exit(r, "IncompleteFacts")
    /\ UNCHANGED storeVars

\* Local mode: the branch is judged from the node rows of the execution.
CheckLocalBranch(r) ==
    /\ At(r, "branch")
    /\ local[r]
    /\ Exit(r, IF VerifyCompleteBranchNodes(succeeded[found[r]]) THEN "ok" ELSE "WrongBranch")
    /\ UNCHANGED storeVars

\* Production: it is judged from the answer of the public API.
CheckPublicBranch(r) ==
    /\ At(r, "branch")
    /\ ~local[r]
    /\ \/ \E snapshot \in Snapshots(found[r]) :
            Exit(r, IF VerifyCompleteSnapshot(snapshot) THEN "ok" ELSE "WrongBranch")
       \/ \E exc \in {"SmokeFailure", "HTTPError"} : Exit(r, exc)
    /\ UNCHANGED storeVars

\* A query of the recovery or of the local branch check raises. SQLAlchemy wraps
\* the driver's errors; only a refused or lost connection stays an OSError.
DatabaseRaises(r, exc) ==
    /\ \/ pc[r] \in {"poll", "readEvents", "readEvidence"}
       \/ At(r, "branch") /\ local[r]
    /\ Exit(r, exc)
    /\ UNCHANGED storeVars

\* The process is interrupted or killed; what it sent stays sent.
Kill(r) ==
    /\ pc[r] \notin {"start", "exited"}
    /\ Exit(r, "killed")
    /\ UNCHANGED storeVars

-----------------------------------------------------------------------------
RunStep(r) ==
    \/ PublishCapabilities(r)
    \/ SubmitStart(r)
    \/ RunSmokeReturns(r)
    \/ \E exc \in RunSmokeErrors : RunSmokeRaises(r, exc)
    \/ ReadTimeout(r)
    \/ Poll(r)
    \/ Sleep(r)
    \/ GiveUpPolling(r)
    \/ ReadEvents(r)
    \/ ReadEvidence(r)
    \/ CheckLocalBranch(r)
    \/ CheckPublicBranch(r)

Disturbance(r) ==
    \/ Start(r)
    \/ \E exc \in PublishErrors : PublishRaises(r, exc)
    \/ \E exc \in DatabaseErrors : DatabaseRaises(r, exc)
    \/ DeadlinePasses(r)
    \/ Kill(r)

Next ==
    \/ \E r \in Runs : RunStep(r) \/ Disturbance(r)
    \/ RuntimeStep /\ UNCHANGED runVars

Spec == Init /\ [][Next]_vars

\* What the command relies on to end: the interpreter runs it, the clock moves,
\* every HTTP call of run_smoke returns or times out, and every query is
\* answered. Nothing is assumed of the Runtime.
Fairness ==
    \A r \in Runs : WF_vars(RunStep(r)) /\ WF_vars(DeadlinePasses(r))

FairSpec == Spec /\ Fairness
-----------------------------------------------------------------------------
(* Properties.                                                             *)

\* Every variable of the store and of the runs stays in its set.
TypeOK == StoreTypeOK /\ RunTypeOK

\* A run that prints the success record printed it for an execution that is
\* acceptable in the database, now and not only when each part was read: the
\* status, the events, the evidence and the branch are read in up to four
\* separate queries while the Runtime writes.
SuccessIsSound ==
    \A r \in Runs : exit[r] = "ok" => found[r] \in ExecutionIds /\ Acceptable(found[r])

\* A run works on, and reports, only the execution its own start request
\* created: never one left behind by a run that was killed or timed out, nor
\* one of a run beside it.
OwnExecution ==
    \A r \in Runs : found[r] # NoExecution => requester[found[r]] = r

\* Before its deadline the recovery blames the Runtime only when it is to
\* blame: if it fails a run with time left, the run's execution has ended and
\* its durable facts are incomplete, so no later look could have passed.
NoFalseAlarm ==
    \A r \in Runs :
        exit[r] \in {"NotPersisted", "IncompleteFacts"} /\ ~expired[r] =>
            /\ found[r] \in ExecutionIds
            /\ status[found[r]] \in TerminalStatus
            /\ ~FactsComplete(found[r])

\* A run rejected for its branch had complete facts: the local check fails
\* only executions that have ended with another result than the complete one.
BranchRejectionIsJust ==
    \A r \in Runs :
        exit[r] = "WrongBranch" /\ local[r] =>
            /\ found[r] \in ExecutionIds
            /\ FactsComplete(found[r])
            /\ succeeded[found[r]] # {"build_result"}

\* The execution has ended, and the Runtime writes no more to it.
Sealed(e) == status[e] \in TerminalStatus

\* The contract of SmokeContract: the execution a run requested seals its facts
\* when its terminal status is committed, and the way the run ended is its
\* verdict.
factsOf == [r \in Runs |->
    IF \E e \in ExecutionIds : requester[e] = r /\ Sealed(e)
      THEN IF \E e \in ExecutionIds : requester[e] = r /\ Sealed(e) /\ Acceptable(e)
             THEN "good" ELSE "bad"
      ELSE "open"]
verdictOf == [r \in Runs |->
    IF exit[r] = "none" THEN "undecided" ELSE IF exit[r] = "ok" THEN "pass" ELSE "fail"]

Contract == INSTANCE SmokeContract WITH facts <- factsOf, verdict <- verdictOf

\* The command, beside any Runtime and any other runs of it, implements the
\* contract: a pass only on the sealed good facts of the run's own execution,
\* and never a change of verdict.
ImplementsContract == Contract!Spec

\* Every run that got past its settings ends, whatever the Runtime does: it may
\* never persist, never answer or never finish.
EventuallyExits ==
    \A r \in Runs : (pc[r] # "start") ~> (pc[r] = "exited")

\* The docstring of main(): "Run the environment-configured live smoke with
\* sanitized failure output". Every exception that ends a run is one that main()
\* turns into its own message.
FailuresSanitized ==
    \A r \in Runs : exit[r] \in {"none", "ok", "usage", "killed"} \union CaughtByMain
-----------------------------------------------------------------------------
(* The inductive invariant behind the safety properties.                   *)

\* One row per idempotency key, and it belongs to the run that asked for it.
KeyInv ==
    /\ \A e \in ExecutionIds :
          requester[e] = key[e] /\ (key[e] = NoKey <=> status[e] = "NONE")
    /\ \A e, f \in ExecutionIds : key[e] # NoKey /\ key[e] = key[f] => e = f

\* What run r knows at each step: the id it holds is its own; a terminal status
\* it has loaded is still the row's; events read after that are all the events
\* there will be; past the verdict the row is complete for good.
Knows(r) ==
    /\ found[r] # NoExecution => key[found[r]] = ScopedKey(r)
    /\ pc[r] \in {"readEvents", "readEvidence", "branch"} => found[r] # NoExecution
    /\ found[r] # NoExecution /\ seen[r] \in TerminalStatus => status[found[r]] = seen[r]
    /\ pc[r] \in {"readEvents", "readEvidence"} /\ ~expired[r] => seen[r] \in TerminalStatus
    /\ pc[r] = "readEvidence" /\ seen[r] \in TerminalStatus => sawEvents[r] = events[found[r]]
    /\ pc[r] = "branch" => FactsComplete(found[r])
    /\ pc[r] \notin Recovering => seen[r] = "NONE"
    /\ pc[r] = "exited" <=> exit[r] # "none"

IInv ==
    /\ TypeOK
    /\ KeyInv
    /\ \A r \in Runs : Knows(r)
    /\ SuccessIsSound
    /\ NoFalseAlarm
    /\ BranchRejectionIsJust

=============================================================================
