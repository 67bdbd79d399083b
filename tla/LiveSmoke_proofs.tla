--------------------------- MODULE LiveSmoke_proofs ---------------------------
(***************************************************************************)
(* Proofs about the live smoke, for any number of runs, executions, event  *)
(* types and evidence rows: type correctness, the soundness of a success,  *)
(* the safety of the recovery, and that the command implements             *)
(* SmokeContract.                                                          *)
(***************************************************************************)
EXTENDS LiveSmoke, TLAPS

\* The definitions every leaf about types needs.
USE DEF TerminalStatus, Status, Nodes, Recovering, Steps, CaughtByMain, DatabaseErrors,
        PublishErrors, RunSmokeErrors, Exits, ScopedKey, ExecutionsOf, At, Goto

\* The initial state satisfies the inductive invariant.
LEMMA InitHolds == Init => IInv
<1> SUFFICES ASSUME Init PROVE IInv
  OBVIOUS
<1> USE StoreAssumption, SmokeAssumption DEF Init, StoreInit, RunInit
<1>1. TypeOK
  <2>1. StoreTypeOK
    <3>1. 0 \in 0 .. MaxEvidence
      OBVIOUS
    <3>2. requested \subseteq Runs /\ published \in BOOLEAN
      OBVIOUS
    <3>3. /\ key \in [ExecutionIds -> Runs \union {NoKey}]
          /\ requester \in [ExecutionIds -> Runs \union {NoKey}]
          /\ status \in [ExecutionIds -> Status]
      OBVIOUS
    <3>4. /\ events \in [ExecutionIds -> SUBSET Events]
          /\ evidence \in [ExecutionIds -> 0 .. MaxEvidence]
          /\ succeeded \in [ExecutionIds -> SUBSET Nodes]
      BY <3>1
    <3> QED
      BY <3>2, <3>3, <3>4 DEF StoreTypeOK
  <2>2. RunTypeOK
    BY DEF RunTypeOK
  <2> QED
    BY <2>1, <2>2 DEF TypeOK
<1>2. KeyInv
  BY DEF KeyInv
<1>3. \A r \in Runs : Knows(r)
  BY DEF Knows
<1>4. SuccessIsSound /\ NoFalseAlarm /\ BranchRejectionIsJust
  BY DEF SuccessIsSound, NoFalseAlarm, BranchRejectionIsJust
<1> QED
  BY <1>1, <1>2, <1>3, <1>4 DEF IInv

\* An execution that has ended is not written to: poll, events, evidence and
\* branch of one run may be read in different transactions because of this.
LEMMA SealedIsFrozen ==
  ASSUME StoreTypeOK, RuntimeStep, NEW e \in ExecutionIds, Sealed(e)
  PROVE  /\ status'[e] = status[e]
         /\ events'[e] = events[e]
         /\ evidence'[e] = evidence[e]
         /\ succeeded'[e] = succeeded[e]
         /\ requester'[e] = requester[e]
<1> USE DEF StoreTypeOK, Sealed
<1>1. PICK f \in ExecutionIds :
        \/ \E r \in Runs : Persist(r, f)
        \/ \E v \in Events : EmitEvent(f, v)
        \/ AttachEvidence(f)
        \/ \E n \in Nodes : CompleteNode(f, n)
        \/ \E o \in Outcomes : Finish(f, o)
  BY DEF RuntimeStep
<1>2. f # e
  BY <1>1 DEF Persist, EmitEvent, AttachEvidence, CompleteNode, Finish
<1> QED
  BY <1>1, <1>2 DEF Persist, EmitEvent, AttachEvidence, CompleteNode, Finish

\* A Runtime step keeps the store's types and the uniqueness of keys, and never
\* changes the key of an execution that has one.
LEMMA StoreStep ==
  ASSUME StoreTypeOK, KeyInv, RuntimeStep
  PROVE  /\ StoreTypeOK'
         /\ KeyInv'
         /\ \A e \in ExecutionIds : key[e] # NoKey => key'[e] = key[e]
<1> USE StoreAssumption DEF StoreTypeOK, KeyInv
<1>1. PICK f \in ExecutionIds :
        \/ \E r \in Runs : Persist(r, f)
        \/ \E v \in Events : EmitEvent(f, v)
        \/ AttachEvidence(f)
        \/ \E n \in Nodes : CompleteNode(f, n)
        \/ \E o \in Outcomes : Finish(f, o)
  BY DEF RuntimeStep
<1>2. CASE \E r \in Runs : Persist(r, f)
  <2>1. PICK r \in Runs : Persist(r, f)
    BY <1>2
  <2>2. \A e \in ExecutionIds : key[e] # r
    BY <2>1 DEF Persist
  <2>3. key[f] = NoKey
    BY <2>1 DEF Persist
  <2>4. StoreTypeOK'
    BY <2>1 DEF Persist
  <2> QED
    BY <2>1, <2>2, <2>3, <2>4 DEF Persist
<1>3. CASE \E v \in Events : EmitEvent(f, v)
  BY <1>3 DEF EmitEvent
<1>4. CASE AttachEvidence(f)
  BY <1>4 DEF AttachEvidence
<1>5. CASE \E n \in Nodes : CompleteNode(f, n)
  BY <1>5 DEF CompleteNode
<1>6. CASE \E o \in Outcomes : Finish(f, o)
  BY <1>6 DEF Finish
<1> QED
  BY <1>1, <1>2, <1>3, <1>4, <1>5, <1>6

\* A Runtime step preserves the inductive invariant.
LEMMA RuntimeKeeps ==
  ASSUME IInv, RuntimeStep, UNCHANGED runVars
  PROVE  IInv'
<1> USE StoreAssumption, SmokeAssumption DEF runVars
<1>1. TypeOK' /\ KeyInv'
  BY StoreStep DEF IInv, TypeOK, RunTypeOK
<1>2. \A e \in ExecutionIds : Sealed(e) =>
        /\ status'[e] = status[e]
        /\ events'[e] = events[e]
        /\ evidence'[e] = evidence[e]
        /\ succeeded'[e] = succeeded[e]
  BY SealedIsFrozen DEF IInv, TypeOK
<1>3. \A e \in ExecutionIds : key[e] # NoKey => key'[e] = key[e]
  BY StoreStep DEF IInv, TypeOK
<1>4. \A e \in ExecutionIds : Sealed(e) => (FactsComplete(e)' <=> FactsComplete(e))
  BY <1>2 DEF FactsComplete
<1>5. \A e \in ExecutionIds : FactsComplete(e) => Sealed(e)
  BY DEF FactsComplete, Sealed
<1>6. \A r \in Runs : Knows(r)'
  <2> SUFFICES ASSUME NEW r \in Runs PROVE Knows(r)'
    OBVIOUS
  <2>1. Knows(r) /\ found[r] \in ExecutionIds \union {NoExecution}
    BY DEF IInv, TypeOK, RunTypeOK
  <2> QED
    BY <2>1, <1>2, <1>3, <1>4, <1>5 DEF Knows, Sealed
<1>7. SuccessIsSound'
  BY <1>2, <1>4, <1>5 DEF IInv, SuccessIsSound, Acceptable
<1>8. NoFalseAlarm'
  BY <1>2, <1>4 DEF IInv, NoFalseAlarm, Sealed
<1>9. BranchRejectionIsJust'
  BY <1>2, <1>4, <1>5 DEF IInv, BranchRejectionIsJust
<1> QED
  BY <1>1, <1>6, <1>7, <1>8, <1>9 DEF IInv

\* A step of run r that does not end it preserves the invariant if it does so
\* for r itself: it writes no row and no variable of another run.
LEMMA StayKeeps ==
  ASSUME IInv, NEW r \in Runs, UNCHANGED <<rows, exit>>, StoreTypeOK', RunTypeOK',
         pc[r] # "exited", Knows(r)',
         \A q \in Runs \ {r} : /\ pc'[q] = pc[q]
                               /\ local'[q] = local[q]
                               /\ expired'[q] = expired[q]
                               /\ found'[q] = found[q]
                               /\ seen'[q] = seen[q]
                               /\ sawEvents'[q] = sawEvents[q]
  PROVE  IInv'
<1> USE DEF rows
<1>1. exit[r] = "none"
  BY DEF IInv, Knows
<1>2. KeyInv'
  BY DEF IInv, KeyInv
<1>3. \A q \in Runs : Knows(q)'
  <2> SUFFICES ASSUME NEW q \in Runs \ {r} PROVE Knows(q)'
    OBVIOUS
  <2>1. Knows(q)
    BY DEF IInv
  <2> QED
    BY <2>1 DEF Knows, FactsComplete
<1>4. SuccessIsSound'
  BY <1>1 DEF IInv, SuccessIsSound, Acceptable, FactsComplete
<1>5. NoFalseAlarm'
  BY <1>1 DEF IInv, NoFalseAlarm, FactsComplete
<1>6. BranchRejectionIsJust'
  BY <1>1 DEF IInv, BranchRejectionIsJust, FactsComplete
<1> QED
  BY <1>2, <1>3, <1>4, <1>5, <1>6 DEF IInv, TypeOK

\* A step that ends run r preserves the invariant if the way it ends is
\* justified by the rows.
LEMMA ExitKeeps ==
  ASSUME IInv, NEW r \in Runs, NEW how \in Exits \ {"none"}, Exit(r, how),
         UNCHANGED rows, StoreTypeOK',
         pc[r] # "exited",
         how = "ok" => found[r] \in ExecutionIds /\ Acceptable(found[r]),
         how \in {"NotPersisted", "IncompleteFacts"} /\ ~expired[r] =>
            /\ found[r] \in ExecutionIds
            /\ status[found[r]] \in TerminalStatus
            /\ ~FactsComplete(found[r]),
         how = "WrongBranch" /\ local[r] =>
            /\ found[r] \in ExecutionIds
            /\ FactsComplete(found[r])
            /\ succeeded[found[r]] # {"build_result"}
  PROVE  IInv'
<1> USE DEF rows, Exit
<1>1. RunTypeOK
  BY DEF IInv, TypeOK
<1>2. RunTypeOK'
  BY <1>1 DEF RunTypeOK
<1>3. pc'[r] = "exited" /\ exit'[r] = how
  BY <1>1 DEF RunTypeOK
<1>4. \A q \in Runs \ {r} : /\ pc'[q] = pc[q]
                            /\ exit'[q] = exit[q]
                            /\ seen'[q] = seen[q]
                            /\ sawEvents'[q] = sawEvents[q]
  BY <1>1 DEF RunTypeOK
<1>5. KeyInv'
  BY DEF IInv, KeyInv
<1>6. \A q \in Runs : Knows(q)'
  <2>1. Knows(r)'
    BY <1>1, <1>3 DEF IInv, Knows, RunTypeOK
  <2>2. ASSUME NEW q \in Runs \ {r} PROVE Knows(q)'
    <3>1. Knows(q)
      BY DEF IInv
    <3> QED
      BY <1>4, <3>1 DEF Knows, FactsComplete
  <2> QED
    BY <2>1, <2>2
<1>7. SuccessIsSound'
  BY <1>3, <1>4 DEF IInv, SuccessIsSound, Acceptable, FactsComplete
<1>8. NoFalseAlarm'
  BY <1>3, <1>4 DEF IInv, NoFalseAlarm, FactsComplete
<1>9. BranchRejectionIsJust'
  BY <1>3, <1>4 DEF IInv, BranchRejectionIsJust, FactsComplete
<1> QED
  BY <1>2, <1>5, <1>6, <1>7, <1>8, <1>9 DEF IInv, TypeOK

\* Every step of a run preserves the inductive invariant.
LEMMA RunKeeps ==
  ASSUME IInv, NEW r \in Runs, RunStep(r) \/ Disturbance(r)
  PROVE  IInv'
<1> USE SmokeAssumption
<1>1. StoreTypeOK /\ RunTypeOK /\ Knows(r) /\ KeyInv
  BY DEF IInv, TypeOK
<1>2. UNCHANGED storeVars => StoreTypeOK' /\ UNCHANGED rows
  BY <1>1 DEF StoreTypeOK, storeVars, rows
<1>3. CASE Start(r)
  <2>1. CASE \E how \in {"usage", "ValueError"} : Exit(r, how)
    BY <1>2, <1>3, <2>1, ExitKeeps DEF Start
  <2>2. CASE /\ \E mode \in BOOLEAN : local' = [local EXCEPT ![r] = mode]
             /\ Goto(r, "publish")
             /\ UNCHANGED <<expired, found, seen, sawEvents, exit>>
    <3>1. RunTypeOK'
      BY <1>1, <2>2 DEF RunTypeOK
    <3>2. Knows(r)'
      BY <1>1, <1>2, <1>3, <2>2 DEF Start, Knows, RunTypeOK, rows
    <3> QED
      BY <1>1, <1>2, <1>3, <2>2, <3>1, <3>2, StayKeeps DEF Start, RunTypeOK
  <2> QED
    BY <1>3, <2>1, <2>2 DEF Start
<1>4. CASE PublishCapabilities(r)
  <2>1. StoreTypeOK' /\ RunTypeOK'
    BY <1>1, <1>4 DEF PublishCapabilities, StoreTypeOK, RunTypeOK, rows
  <2>2. Knows(r)'
    BY <1>1, <1>4 DEF PublishCapabilities, Knows, RunTypeOK, rows
  <2> QED
    BY <1>1, <1>4, <2>1, <2>2, StayKeeps DEF PublishCapabilities, RunTypeOK
<1>5. CASE \E exc \in PublishErrors : PublishRaises(r, exc)
  <2>1. PICK exc \in PublishErrors : PublishRaises(r, exc)
    BY <1>5
  <2>2. published' \in BOOLEAN
    BY <1>1, <2>1 DEF PublishRaises, StoreTypeOK
  <2>3. StoreTypeOK'
    BY <1>1, <2>1, <2>2 DEF PublishRaises, StoreTypeOK, rows
  <2> QED
    BY <2>1, <2>3, ExitKeeps DEF PublishRaises
<1>6. CASE SubmitStart(r)
  <2>1. StoreTypeOK' /\ RunTypeOK'
    BY <1>1, <1>6 DEF SubmitStart, StoreTypeOK, RunTypeOK, rows
  <2>2. Knows(r)'
    BY <1>1, <1>6 DEF SubmitStart, Knows, RunTypeOK, rows
  <2> QED
    BY <1>1, <1>6, <2>1, <2>2, StayKeeps DEF SubmitStart, RunTypeOK
<1>7. CASE RunSmokeReturns(r)
  <2>1. PICK e \in ExecutionIds :
          key[e] = r /\ FactsComplete(e) /\ found' = [found EXCEPT ![r] = e]
    BY <1>7 DEF RunSmokeReturns
  <2>2. StoreTypeOK' /\ RunTypeOK' /\ UNCHANGED rows
    BY <1>1, <1>2, <1>7, <2>1 DEF RunSmokeReturns, RunTypeOK
  <2>3. seen[r] \in TerminalStatus => status[e] = seen[r]
    BY <1>1, <1>7 DEF RunSmokeReturns, Knows
  <2>4. Knows(r)'
    BY <1>1, <1>7, <2>1, <2>2, <2>3
       DEF RunSmokeReturns, Knows, RunTypeOK, FactsComplete, rows
  <2> QED
    BY <1>1, <1>7, <2>1, <2>2, <2>4, StayKeeps DEF RunSmokeReturns, RunTypeOK
<1>8. CASE \E exc \in RunSmokeErrors : RunSmokeRaises(r, exc)
  BY <1>2, <1>8, ExitKeeps DEF RunSmokeRaises
<1>9. CASE ReadTimeout(r)
  <2>1. CASE ~local[r]
    BY <1>2, <1>9, <2>1, ExitKeeps DEF ReadTimeout
  <2>2. CASE local[r]
    <3>1. RunTypeOK'
      BY <1>1, <1>9, <2>2 DEF ReadTimeout, RunTypeOK
    <3>2. Knows(r)'
      BY <1>1, <1>2, <1>9, <2>2 DEF ReadTimeout, Knows, RunTypeOK, rows
    <3> QED
      BY <1>1, <1>2, <1>9, <2>2, <3>1, <3>2, StayKeeps DEF ReadTimeout, RunTypeOK
  <2> QED
    BY <2>1, <2>2
<1>10. CASE Poll(r)
  <2>1. RunTypeOK'
    BY <1>1, <1>10 DEF Poll, RunTypeOK, StoreTypeOK
  <2>2. Knows(r)'
    BY <1>1, <1>2, <1>10 DEF Poll, Knows, RunTypeOK, rows
  <2> QED
    BY <1>1, <1>2, <1>10, <2>1, <2>2, StayKeeps DEF Poll, RunTypeOK
<1>11. CASE Sleep(r)
  <2>1. RunTypeOK' /\ Knows(r)'
    BY <1>1, <1>2, <1>11 DEF Sleep, Knows, RunTypeOK, rows
  <2> QED
    BY <1>1, <1>2, <1>11, <2>1, StayKeeps DEF Sleep, RunTypeOK
<1>12. CASE DeadlinePasses(r)
  <2>1. RunTypeOK' /\ Knows(r)'
    BY <1>1, <1>2, <1>12 DEF DeadlinePasses, Knows, RunTypeOK, rows
  <2> QED
    BY <1>1, <1>2, <1>12, <2>1, StayKeeps DEF DeadlinePasses, RunTypeOK
<1>13. CASE GiveUpPolling(r)
  <2>1. CASE found[r] = NoExecution
    BY <1>2, <1>13, <2>1, ExitKeeps DEF GiveUpPolling
  <2>2. CASE found[r] # NoExecution
    <3>1. RunTypeOK' /\ Knows(r)'
      BY <1>1, <1>2, <1>13, <2>2 DEF GiveUpPolling, Knows, RunTypeOK, rows
    <3> QED
      BY <1>1, <1>2, <1>13, <2>2, <3>1, StayKeeps DEF GiveUpPolling, RunTypeOK
  <2> QED
    BY <2>1, <2>2
<1>14. CASE ReadEvents(r)
  <2>1. found[r] \in ExecutionIds
    BY <1>1, <1>14 DEF ReadEvents, Knows, RunTypeOK
  <2>2. RunTypeOK' /\ Knows(r)'
    BY <1>1, <1>2, <1>14, <2>1 DEF ReadEvents, Knows, RunTypeOK, StoreTypeOK, rows
  <2> QED
    BY <1>1, <1>2, <1>14, <2>2, StayKeeps DEF ReadEvents, RunTypeOK
<1>15. CASE ReadEvidence(r)
  <2>1. found[r] \in ExecutionIds
    BY <1>1, <1>15 DEF ReadEvidence, Knows, RunTypeOK
  <2>2. CASE VerifyDurableSmokeFacts(seen[r], sawEvents[r], evidence[found[r]])
    <3>1. FactsComplete(found[r])
      BY <1>1, <1>15, <2>1, <2>2 DEF ReadEvidence, Knows, VerifyDurableSmokeFacts, FactsComplete
    <3>2. RunTypeOK'
      BY <1>1, <1>15, <2>2 DEF ReadEvidence, RunTypeOK
    <3>3. Knows(r)'
      BY <1>1, <1>2, <1>15, <2>2, <3>1 DEF ReadEvidence, Knows, RunTypeOK, FactsComplete, rows
    <3> QED
      BY <1>1, <1>2, <1>15, <2>2, <3>2, <3>3, StayKeeps DEF ReadEvidence, RunTypeOK
  <2>3. CASE ~VerifyDurableSmokeFacts(seen[r], sawEvents[r], evidence[found[r]])
    <3>1. ~expired[r] => status[found[r]] \in TerminalStatus /\ ~FactsComplete(found[r])
      BY <1>1, <1>15, <2>1, <2>3 DEF ReadEvidence, Knows, VerifyDurableSmokeFacts, FactsComplete
    <3> QED
      BY <1>2, <1>15, <2>1, <2>3, <3>1, ExitKeeps DEF ReadEvidence
  <2> QED
    BY <2>2, <2>3
<1>16. CASE CheckLocalBranch(r)
  <2>1. found[r] \in ExecutionIds /\ FactsComplete(found[r])
    BY <1>1, <1>16 DEF CheckLocalBranch, Knows, RunTypeOK
  <2>2. VerifyCompleteBranchNodes(succeeded[found[r]]) <=> succeeded[found[r]] = {"build_result"}
    BY <1>1, <2>1 DEF VerifyCompleteBranchNodes, StoreTypeOK
  <2> QED
    BY <1>2, <1>16, <2>1, <2>2, ExitKeeps DEF CheckLocalBranch, Acceptable
<1>17. CASE CheckPublicBranch(r)
  <2>1. found[r] \in ExecutionIds /\ FactsComplete(found[r])
    BY <1>1, <1>17 DEF CheckPublicBranch, Knows, RunTypeOK
  <2>2. ASSUME NEW snapshot \in Snapshots(found[r]), VerifyCompleteSnapshot(snapshot)
        PROVE  succeeded[found[r]] = {"build_result"}
    <3>1. {OutputOf[n] : n \in succeeded[found[r]]} = {"complete_result"}
      BY <2>2 DEF Snapshots, VerifyCompleteSnapshot
    <3>2. succeeded[found[r]] \subseteq Nodes
      BY <1>1, <2>1 DEF StoreTypeOK
    <3>3. "build_blocked_result" \notin succeeded[found[r]]
      BY <3>1 DEF OutputOf
    <3>4. succeeded[found[r]] # {}
      BY <3>1
    <3> QED
      BY <3>2, <3>3, <3>4
  <2> QED
    BY <1>2, <1>17, <2>1, <2>2, ExitKeeps DEF CheckPublicBranch, Acceptable
<1>18. CASE \E exc \in DatabaseErrors : DatabaseRaises(r, exc)
  BY <1>2, <1>18, ExitKeeps DEF DatabaseRaises
<1>19. CASE Kill(r)
  BY <1>2, <1>19, ExitKeeps DEF Kill
<1> QED
  BY <1>3, <1>4, <1>5, <1>6, <1>7, <1>8, <1>9, <1>10, <1>11, <1>12, <1>13, <1>14, <1>15,
     <1>16, <1>17, <1>18, <1>19 DEF RunStep, Disturbance

\* The inductive invariant holds in every reachable state: for every set of runs
\* of the command and every Runtime of RuntimeStore.
THEOREM Invariance == Spec => []IInv
<1>1. Init => IInv
  BY InitHolds
<1>2. IInv /\ [Next]_vars => IInv'
  <2> SUFFICES ASSUME IInv, [Next]_vars PROVE IInv'
    OBVIOUS
  <2>1. CASE \E r \in Runs : RunStep(r) \/ Disturbance(r)
    BY <2>1, RunKeeps
  <2>2. CASE RuntimeStep /\ UNCHANGED runVars
    BY <2>2, RuntimeKeeps
  <2>3. CASE UNCHANGED vars
    BY <2>3 DEF vars, storeVars, runVars, rows, IInv, TypeOK, StoreTypeOK, RunTypeOK, KeyInv,
                Knows, SuccessIsSound, NoFalseAlarm, BranchRejectionIsJust, Acceptable,
                FactsComplete
  <2> QED
    BY <2>1, <2>2, <2>3 DEF Next
<1> QED
  BY <1>1, <1>2, PTL DEF Spec

\* Type correctness of the store and of every run.
THEOREM TypeCorrect == Spec => []TypeOK
<1>1. IInv => TypeOK
  BY DEF IInv
<1> QED
  BY <1>1, Invariance, PTL

\* A run that prints the success record printed it for an execution whose rows
\* are acceptable, although they were read in separate queries.
THEOREM Soundness == Spec => []SuccessIsSound
<1>1. IInv => SuccessIsSound
  BY DEF IInv
<1> QED
  BY <1>1, Invariance, PTL

\* No run works on an execution that another run requested, also not on one a
\* crashed predecessor left behind.
THEOREM NoAdoption == Spec => []OwnExecution
<1>1. IInv => OwnExecution
  BY SmokeAssumption DEF IInv, TypeOK, RunTypeOK, KeyInv, Knows, OwnExecution
<1> QED
  BY <1>1, Invariance, PTL

\* The recovery fails a run before its deadline only for facts that can no
\* longer become complete.
THEOREM RecoveryIsJust == Spec => []NoFalseAlarm
<1>1. IInv => NoFalseAlarm
  BY DEF IInv
<1> QED
  BY <1>1, Invariance, PTL

\* The local branch check fails only executions with another result.
THEOREM BranchIsJust == Spec => []BranchRejectionIsJust
<1>1. IInv => BranchRejectionIsJust
  BY DEF IInv
<1> QED
  BY <1>1, Invariance, PTL

-----------------------------------------------------------------------------
(* The refinement of SmokeContract.                                        *)

\* A run either ends in a step or its way to end is untouched, and no run
\* writes a row.
LEMMA RunEndsOnce ==
  ASSUME IInv, NEW r \in Runs, RunStep(r) \/ Disturbance(r)
  PROVE  /\ UNCHANGED rows
         /\ \/ UNCHANGED exit
            \/ /\ exit[r] = "none"
               /\ \E how \in Exits \ {"none"} : exit' = [exit EXCEPT ![r] = how]
<1>1. pc[r] # "exited" => exit[r] = "none"
  BY DEF IInv, Knows
<1>2. CASE RunStep(r)
  BY <1>1, <1>2
     DEF RunStep, PublishCapabilities, SubmitStart, RunSmokeReturns, RunSmokeRaises, ReadTimeout,
         Poll, Sleep, GiveUpPolling, ReadEvents, ReadEvidence, CheckLocalBranch,
         CheckPublicBranch, Exit, rows, storeVars
<1>3. CASE Disturbance(r)
  BY <1>1, <1>3
     DEF Disturbance, Start, PublishRaises, DatabaseRaises, DeadlinePasses, Kill, Exit, rows,
         storeVars
<1> QED
  BY <1>2, <1>3

\* A Runtime step seals the facts of at most one run, from open, and leaves the
\* facts of every other run as they were.
LEMMA RuntimeSeals ==
  ASSUME IInv, RuntimeStep
  PROVE  \/ UNCHANGED factsOf
         \/ \E r \in Runs : \E f \in {"good", "bad"} :
               factsOf[r] = "open" /\ factsOf' = [factsOf EXCEPT ![r] = f]
<1> USE StoreAssumption DEF IInv, TypeOK, StoreTypeOK, KeyInv, Sealed, factsOf
<1>1. PICK x \in ExecutionIds :
        \/ \E r \in Runs : Persist(r, x)
        \/ \E v \in Events : EmitEvent(x, v)
        \/ AttachEvidence(x)
        \/ \E n \in Nodes : CompleteNode(x, n)
        \/ \E o \in Outcomes : Finish(x, o)
  BY DEF RuntimeStep
<1>2. ASSUME NEW e \in ExecutionIds, e # x
      PROVE  /\ requester'[e] = requester[e]
             /\ status'[e] = status[e]
             /\ Acceptable(e)' <=> Acceptable(e)
  BY <1>1, <1>2 DEF Persist, EmitEvent, AttachEvidence, CompleteNode, Finish, Acceptable,
                    FactsComplete
<1>3. CASE \E o \in Outcomes : Finish(x, o)
  <2>1. PICK o \in Outcomes : Finish(x, o)
    BY <1>3
  <2>2. PICK r \in Runs : requester[x] = r
    BY <2>1 DEF Finish
  <2>3. \A e \in ExecutionIds : requester[e] = r => e = x
    BY <2>2
  <2>4. requester' = requester /\ Sealed(x)' /\ ~Sealed(x)
    BY <2>1 DEF Finish
  <2> DEFINE f == IF Acceptable(x)' THEN "good" ELSE "bad"
  <2>5. factsOf[r] = "open"
    BY <2>3, <2>4
  <2>6. factsOf'[r] = f
    BY <1>2, <2>2, <2>3, <2>4
  <2>7. ASSUME NEW q \in Runs \ {r} PROVE factsOf'[q] = factsOf[q]
    BY <1>2, <2>2, <2>4
  <2>8. DOMAIN factsOf = Runs /\ factsOf' = [q \in Runs |-> factsOf'[q]]
    OBVIOUS
  <2>9. f \in {"good", "bad"}
    OBVIOUS
  <2> HIDE DEF f, factsOf
  <2>10. factsOf' = [factsOf EXCEPT ![r] = f]
    BY <2>6, <2>7, <2>8
  <2> QED
    BY <2>5, <2>9, <2>10
<1>4. CASE ~ \E o \in Outcomes : Finish(x, o)
  <2>1. ~Sealed(x) /\ ~Sealed(x)'
    BY <1>1, <1>4 DEF Persist, EmitEvent, AttachEvidence, CompleteNode
  <2>2. ASSUME NEW q \in Runs PROVE factsOf'[q] = factsOf[q]
    BY <1>2, <2>1
  <2> QED
    BY <2>2
<1> QED
  BY <1>3, <1>4

\* The command implements the contract: a run passes only on the sealed good
\* facts of the execution it requested, and no verdict is ever taken back.
THEOREM Refinement == Spec => ImplementsContract
<1>1. Init => Contract!Init
  <2> SUFFICES ASSUME Init PROVE Contract!Init
    OBVIOUS
  <2>1. \A r \in Runs : factsOf[r] = "open" /\ verdictOf[r] = "undecided"
    BY StoreAssumption DEF Init, StoreInit, RunInit, factsOf, verdictOf
  <2> QED
    BY <2>1 DEF Contract!Init, factsOf, verdictOf
<1>2. IInv /\ IInv' /\ [Next]_vars => [Contract!Next]_(Contract!vars)
  <2> SUFFICES ASSUME IInv, IInv', [Next]_vars
               PROVE  Contract!Next \/ UNCHANGED <<factsOf, verdictOf>>
    BY DEF Contract!vars
  <2>1. CASE RuntimeStep /\ UNCHANGED runVars
    <3>1. UNCHANGED verdictOf
      BY <2>1 DEF verdictOf, runVars
    <3> QED
      BY <2>1, <3>1, RuntimeSeals DEF Contract!Next, Contract!Seal
  <2>2. CASE \E r \in Runs : RunStep(r) \/ Disturbance(r)
    <3>1. PICK r \in Runs : RunStep(r) \/ Disturbance(r)
      BY <2>2
    <3>2. UNCHANGED factsOf
      BY <3>1, RunEndsOnce DEF rows, factsOf, Sealed, Acceptable, FactsComplete
    <3>3. CASE UNCHANGED exit
      BY <3>2, <3>3 DEF verdictOf
    <3>4. CASE /\ exit[r] = "none"
               /\ \E how \in Exits \ {"none"} : exit' = [exit EXCEPT ![r] = how]
      <4>1. PICK how \in Exits \ {"none"} : exit' = [exit EXCEPT ![r] = how]
        BY <3>4
      <4>2. exit'[r] = how /\ \A q \in Runs \ {r} : exit'[q] = exit[q]
        BY <4>1 DEF IInv, TypeOK, RunTypeOK
      <4>3. verdictOf[r] = "undecided"
        BY <3>4 DEF verdictOf
      <4>4. verdictOf' = [verdictOf EXCEPT ![r] = IF how = "ok" THEN "pass" ELSE "fail"]
        BY <4>2 DEF verdictOf
      <4>5. CASE how = "ok"
        <5>1. (found[r] \in ExecutionIds /\ Acceptable(found[r]))'
          BY <4>2, <4>5 DEF IInv, SuccessIsSound
        <5>2. (requester[found[r]] = r)'
          BY <5>1, SmokeAssumption DEF IInv, Knows, KeyInv
        <5>3. (Sealed(found[r]))'
          BY <5>1 DEF Sealed, Acceptable, FactsComplete
        <5>4. factsOf'[r] = "good"
          BY <5>1, <5>2, <5>3 DEF factsOf
        <5> QED
          BY <3>2, <4>3, <4>4, <4>5, <5>4 DEF Contract!Next, Contract!Pass
      <4>6. CASE how # "ok"
        BY <3>2, <4>3, <4>4, <4>6 DEF Contract!Next, Contract!Fail
      <4> QED
        BY <4>5, <4>6
    <3> QED
      BY <3>1, <3>3, <3>4, RunEndsOnce
  <2>3. CASE UNCHANGED vars
    BY <2>3 DEF vars, storeVars, runVars, rows, factsOf, verdictOf, Sealed, Acceptable,
                FactsComplete
  <2> QED
    BY <2>1, <2>2, <2>3 DEF Next
<1> QED
  BY <1>1, <1>2, Invariance, PTL DEF Spec, ImplementsContract, Contract!Spec
=============================================================================
