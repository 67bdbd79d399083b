---------------------------- MODULE RuntimeStore ----------------------------
(***************************************************************************)
(* The durable side of the Agent Runtime, as the live smoke of             *)
(* src/ebiz_deployment/supply_chain_live.py uses it: the rows of           *)
(* WorkflowExecution, SessionEventRecord, EvidenceRefRecord and            *)
(* NodeExecution in PostgreSQL, and the published capability set.          *)
(*                                                                         *)
(* The Runtime is an installed dependency, so this module is external: it  *)
(* lets the Runtime do anything the smoke's queries are prepared for (be   *)
(* late, never answer, fail, forget events, attach too much evidence,      *)
(* complete both branches) and assumes only what those queries rely on:    *)
(* one execution per idempotency key, and no write to an execution after   *)
(* its terminal status is committed.                                       *)
(***************************************************************************)
EXTENDS Naturals

CONSTANTS
    Runs,            \* runs of the smoke command; each draws a fresh run_id
    ExecutionIds,    \* WorkflowExecution.id values
    Events,          \* event types the Runtime may record
    MaxEvidence,     \* bound on the EvidenceRef rows of one execution
    Outcomes,        \* terminal statuses this Runtime may choose
    NoKey            \* the key of an id that no execution uses yet

TerminalStatus == {"SUCCEEDED", "FAILED", "CANCELLED", "REJECTED"}
Status == {"NONE", "RUNNING"} \union TerminalStatus
Nodes == {"build_result", "build_blocked_result"}

ASSUME StoreAssumption ==
    /\ MaxEvidence \in Nat
    /\ Outcomes \subseteq TerminalStatus
    /\ NoKey \notin Runs

VARIABLES
    published,   \* the tenant's capability set is committed
    requested,   \* runs whose start request is on its way to the Runtime
    key,         \* key[e]: invocation_idempotency_key of execution e
    requester,   \* requester[e]: the run whose request created e
    status,      \* status[e]: WorkflowExecution.status
    events,      \* events[e]: SessionEventRecord.event_type values of e
    evidence,    \* evidence[e]: number of EvidenceRefRecord rows of e
    succeeded    \* succeeded[e]: branch nodes of e in status SUCCEEDED

rows == <<key, requester, status, events, evidence, succeeded>>
storeVars == <<published, requested, rows>>

StoreTypeOK ==
    /\ published \in BOOLEAN
    /\ requested \subseteq Runs
    /\ key \in [ExecutionIds -> Runs \union {NoKey}]
    /\ requester \in [ExecutionIds -> Runs \union {NoKey}]
    /\ status \in [ExecutionIds -> Status]
    /\ events \in [ExecutionIds -> SUBSET Events]
    /\ evidence \in [ExecutionIds -> 0 .. MaxEvidence]
    /\ succeeded \in [ExecutionIds -> SUBSET Nodes]

StoreInit ==
    /\ published = FALSE
    /\ requested = {}
    /\ key = [e \in ExecutionIds |-> NoKey]
    /\ requester = [e \in ExecutionIds |-> NoKey]
    /\ status = [e \in ExecutionIds |-> "NONE"]
    /\ events = [e \in ExecutionIds |-> {}]
    /\ evidence = [e \in ExecutionIds |-> 0]
    /\ succeeded = [e \in ExecutionIds |-> {}]

\* The idempotency key of a run: f"{tenant_id}:{run_id}" with a fresh run_id.
\* One tenant is modelled, so the run stands for its key.
ScopedKey(r) == r

\* Slip: a query that filters on the tenant but not on the key.
ExecutionsOfTheTenant(k) == {e \in ExecutionIds : key[e] # NoKey}

\* The rows a query on the invocation idempotency key returns.
ExecutionsOf(k) == {e \in ExecutionIds : key[e] = k}

\* The request of run r reaches the Runtime, however late, and creates the
\* execution of its key unless that key has one.
Persist(r, e) ==
    /\ r \in requested
    /\ published
    /\ ExecutionsOf(ScopedKey(r)) = {}
    /\ status[e] = "NONE"
    /\ key' = [key EXCEPT ![e] = ScopedKey(r)]
    /\ requester' = [requester EXCEPT ![e] = r]
    /\ status' = [status EXCEPT ![e] = "RUNNING"]
    /\ UNCHANGED <<published, requested, events, evidence, succeeded>>

EmitEvent(e, v) ==
    /\ status[e] = "RUNNING"
    /\ v \notin events[e]
    /\ events' = [events EXCEPT ![e] = @ \union {v}]
    /\ UNCHANGED <<published, requested, key, requester, status, evidence, succeeded>>

AttachEvidence(e) ==
    /\ status[e] = "RUNNING"
    /\ evidence[e] < MaxEvidence
    /\ evidence' = [evidence EXCEPT ![e] = @ + 1]
    /\ UNCHANGED <<published, requested, key, requester, status, events, succeeded>>

CompleteNode(e, n) ==
    /\ status[e] = "RUNNING"
    /\ n \notin succeeded[e]
    /\ succeeded' = [succeeded EXCEPT ![e] = @ \union {n}]
    /\ UNCHANGED <<published, requested, key, requester, status, events, evidence>>

\* The terminal status is the last write to an execution.
Finish(e, o) ==
    /\ status[e] = "RUNNING"
    /\ status' = [status EXCEPT ![e] = o]
    /\ UNCHANGED <<published, requested, key, requester, events, evidence, succeeded>>

RuntimeStep ==
    \E e \in ExecutionIds :
        \/ \E r \in Runs : Persist(r, e)
        \/ \E v \in Events : EmitEvent(e, v)
        \/ AttachEvidence(e)
        \/ \E n \in Nodes : CompleteNode(e, n)
        \/ \E o \in Outcomes : Finish(e, o)
=============================================================================
