---------------------------- MODULE SmokeContract ----------------------------
(***************************************************************************)
(* What the live smoke promises its operator, without a word on how: each  *)
(* run gets at most one execution of its own, whose durable facts are      *)
(* sealed once as acceptable or not, and a run passes only on the sealed   *)
(* acceptable facts of that execution.  A verdict is never taken back, and *)
(* a run may fail at any time.  README.md, "Full Supply Chain live smoke": *)
(* the success record "is emitted only after those checks finish".         *)
(***************************************************************************)
CONSTANT Runs

VARIABLES
    facts,    \* facts[r]: "open" until the run's execution has ended
    verdict   \* verdict[r]: what the command told its caller

vars == <<facts, verdict>>

Init ==
    /\ facts = [r \in Runs |-> "open"]
    /\ verdict = [r \in Runs |-> "undecided"]

Seal(r, f) ==
    /\ facts[r] = "open"
    /\ facts' = [facts EXCEPT ![r] = f]
    /\ UNCHANGED verdict

Pass(r) ==
    /\ verdict[r] = "undecided"
    /\ facts[r] = "good"
    /\ verdict' = [verdict EXCEPT ![r] = "pass"]
    /\ UNCHANGED facts

Fail(r) ==
    /\ verdict[r] = "undecided"
    /\ verdict' = [verdict EXCEPT ![r] = "fail"]
    /\ UNCHANGED facts

Next ==
    \E r \in Runs :
        \/ \E f \in {"good", "bad"} : Seal(r, f)
        \/ Pass(r)
        \/ Fail(r)

Spec == Init /\ [][Next]_vars
=============================================================================
