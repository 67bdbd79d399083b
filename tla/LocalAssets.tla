----------------------------- MODULE LocalAssets -----------------------------
(***************************************************************************)
(* ebiz-local-dev-assets, src/ebiz_deployment/local_dev_assets.py: runs of *)
(* write_local_dev_assets on one output directory.  A run decides once     *)
(* whether the TLS set is there, generates one if it is not, and then      *)
(* rewrites every JSON document in a fixed order.  write_text and          *)
(* write_bytes open the file, which empties it, and then fill it, so a run *)
(* may be cut short between the two, and two runs may interleave.          *)
(*                                                                         *)
(* What the JSON documents say depends only on the directory, so a         *)
(* document is absent, torn or complete.  What a TLS file holds is named   *)
(* after the run that generated it: the CA certificate, the server         *)
(* certificate it signed and the server key fit together exactly when one  *)
(* run generated all three.                                                *)
(***************************************************************************)
EXTENDS Naturals, Sequences, FiniteSets

CONSTANTS
    Writers,         \* runs of the command
    Absent, Torn,    \* a file that does not exist; one that is not filled
    ServerLife,      \* ticks until a server certificate expires (7 days)
    MaxAge,          \* bound on the age of a certificate
    MaxConcurrent,   \* bound on the runs that are active at once
    MaxCrashes,      \* bound on the runs cut short
    MaxRemovals      \* bound on the TLS files an operator removes

TlsFiles == {"ca", "cert", "key"}
JsonFiles == {"skill", "schemas", "policy", "config", "environment"}
Files == TlsFiles \union JsonFiles

\* Slip: environment.json ahead of the documents it names.
PlanEnvironmentFirst ==
    <<"ca", "cert", "key", "environment", "skill", "schemas", "policy", "config">>

\* The files in the order they are written; the JSON documents begin at FirstJson.
Plan == <<"ca", "cert", "key", "skill", "schemas", "policy", "config", "environment">>
FirstJson == 4
End == 9

ASSUME AssetsAssumption ==
    /\ Absent # Torn
    /\ {Absent, Torn} \intersect Writers = {}
    /\ {ServerLife, MaxAge, MaxConcurrent, MaxCrashes, MaxRemovals} \subseteq Nat
    /\ ServerLife < MaxAge

VARIABLES
    file,      \* file[f]: Absent, Torn, or the run that filled f
    phase,     \* phase[w]: "idle", "active", "done" or "crashed"
    pos,       \* pos[w]: the position in Plan that run w has reached
    open,      \* open[w]: it has emptied that file and not filled it
    alone,     \* alone[w]: no other run was active while run w was
    age,       \* age[w]: ticks since run w generated certificates
    crashes,   \* runs cut short so far
    removals   \* TLS files removed so far

vars == <<file, phase, pos, open, alone, age, crashes, removals>>

TypeOK ==
    /\ file \in [Files -> {Absent, Torn} \union Writers]
    /\ phase \in [Writers -> {"idle", "active", "done", "crashed"}]
    /\ pos \in [Writers -> 1 .. End]
    /\ open \in [Writers -> BOOLEAN]
    /\ alone \in [Writers -> BOOLEAN]
    /\ age \in [Writers -> 0 .. MaxAge]
    /\ crashes \in 0 .. MaxCrashes
    /\ removals \in 0 .. MaxRemovals

Init ==
    /\ file = [f \in Files |-> Absent]
    /\ phase = [w \in Writers |-> "idle"]
    /\ pos = [w \in Writers |-> 1]
    /\ open = [w \in Writers |-> FALSE]
    /\ alone = [w \in Writers |-> FALSE]
    /\ age = [w \in Writers |-> 0]
    /\ crashes = 0
    /\ removals = 0

Active == {w \in Writers : phase[w] = "active"}

\* Slip: one TLS file that is there is enough to keep the set.
TlsPartlyPresent == \E f \in TlsFiles : file[f] # Absent

\* Slip: every run generates a set of its own.
TlsNever == FALSE

\* The test of _write_local_tls: all three are files, whatever they hold.
TlsPresent == \A f \in TlsFiles : file[f] # Absent

-----------------------------------------------------------------------------
(* One run of write_local_dev_assets.                                      *)

\* Slip: the files are counted from zero.
StartFromZero(w) ==
    /\ phase[w] = "idle"
    /\ Cardinality(Active) < MaxConcurrent
    /\ phase' = [phase EXCEPT ![w] = "active"]
    /\ pos' = [pos EXCEPT ![w] = IF TlsPresent THEN FirstJson - 1 ELSE 0]
    /\ alone' = [v \in Writers |-> IF v = w THEN Active = {} ELSE alone[v] /\ v \notin Active]
    /\ UNCHANGED <<file, open, age, crashes, removals>>

\* A run starts: it keeps the TLS set or generates one of its own now.
Start(w) ==
    /\ phase[w] = "idle"
    /\ Cardinality(Active) < MaxConcurrent
    /\ phase' = [phase EXCEPT ![w] = "active"]
    /\ pos' = [pos EXCEPT ![w] = IF TlsPresent THEN FirstJson ELSE 1]
    /\ alone' = [v \in Writers |-> IF v = w THEN Active = {} ELSE alone[v] /\ v \notin Active]
    /\ UNCHANGED <<file, open, age, crashes, removals>>

Writing(w) == phase[w] = "active" /\ pos[w] < End

\* Slip: a document that is there already is kept.
EmptyIfAbsent(w) ==
    /\ Writing(w)
    /\ ~open[w]
    /\ IF file[Plan[pos[w]]] = Absent
         THEN /\ file' = [file EXCEPT ![Plan[pos[w]]] = Torn]
              /\ open' = [open EXCEPT ![w] = TRUE]
              /\ UNCHANGED pos
         ELSE pos' = [pos EXCEPT ![w] = @ + 1] /\ UNCHANGED <<file, open>>
    /\ UNCHANGED <<phase, alone, age, crashes, removals>>

\* The next file is opened for writing.
Empty(w) ==
    /\ Writing(w)
    /\ ~open[w]
    /\ file' = [file EXCEPT ![Plan[pos[w]]] = Torn]
    /\ open' = [open EXCEPT ![w] = TRUE]
    /\ UNCHANGED <<phase, pos, alone, age, crashes, removals>>

\* Its content is written and it is closed.
Fill(w) ==
    /\ Writing(w)
    /\ open[w]
    /\ file' = [file EXCEPT ![Plan[pos[w]]] = w]
    /\ open' = [open EXCEPT ![w] = FALSE]
    /\ pos' = [pos EXCEPT ![w] = @ + 1]
    /\ UNCHANGED <<phase, alone, age, crashes, removals>>

\* The run returns its LocalDevAssets.
Return(w) ==
    /\ phase[w] = "active"
    /\ pos[w] = End
    /\ phase' = [phase EXCEPT ![w] = "done"]
    /\ UNCHANGED <<file, pos, open, alone, age, crashes, removals>>

-----------------------------------------------------------------------------
(* The surroundings.                                                       *)

\* A run is killed, or a write fails (a full disk, a lost permission).
Crash(w) ==
    /\ phase[w] = "active"
    /\ crashes < MaxCrashes
    /\ crashes' = crashes + 1
    /\ phase' = [phase EXCEPT ![w] = "crashed"]
    /\ UNCHANGED <<file, pos, open, alone, age, removals>>

\* An operator removes a TLS file, to have it made anew, between runs.
Remove(f) ==
    /\ Active = {}
    /\ file[f] # Absent
    /\ removals < MaxRemovals
    /\ removals' = removals + 1
    /\ file' = [file EXCEPT ![f] = Absent]
    /\ UNCHANGED <<phase, pos, open, alone, age, crashes>>

\* Time passes for every certificate generated so far; a run takes no time.
Tick ==
    /\ Active = {}
    /\ age' = [w \in Writers |->
                  IF phase[w] # "idle" /\ age[w] < MaxAge THEN age[w] + 1 ELSE age[w]]
    /\ age' # age
    /\ UNCHANGED <<file, phase, pos, open, alone, crashes, removals>>

Next ==
    \/ \E w \in Writers : Start(w) \/ Empty(w) \/ Fill(w) \/ Return(w) \/ Crash(w)
    \/ \E f \in TlsFiles : Remove(f)
    \/ Tick

Spec == Init /\ [][Next]_vars

-----------------------------------------------------------------------------
(* Properties.                                                             *)

\* environment.json is what a user loads, and it names the other documents: it
\* never exists without all of them, whatever runs were cut short or beside
\* each other.
EnvironmentComesLast ==
    file["environment"] # Absent => \A f \in JsonFiles : file[f] # Absent

\* A run that had the directory to itself leaves every JSON document complete,
\* also after a run that was cut short anywhere.
RerunRepairsJson ==
    [][\A w \in Writers :
          phase[w] = "active" /\ phase'[w] = "done" /\ alone[w] =>
              \A f \in JsonFiles : file'[f] \in Writers]_vars

\* The TLS set fits together: one run generated all of it.
TlsFits == \E w \in Writers : \A f \in TlsFiles : file[f] = w

\* A run that had the directory to itself leaves a TLS set that fits together,
\* also after some of its files were removed.
RunLeavesFittingTls ==
    [][\A w \in Writers :
          phase[w] = "active" /\ phase'[w] = "done" /\ alone[w] => TlsFits']_vars

\* A run that had the directory to itself and generated any of the TLS set leaves
\* one that fits together, whatever earlier runs had left: to remove one file and
\* run again repairs the set, also after a run that was cut short inside it.
RegeneratedTlsFits ==
    [][\A w \in Writers :
          /\ phase[w] = "active" /\ phase'[w] = "done" /\ alone[w]
          /\ \E f \in TlsFiles : file[f] = w
          => TlsFits']_vars

\* A run that had the directory to itself leaves a server certificate that has
\* not expired.
RunLeavesFreshTls ==
    [][\A w \in Writers :
          phase[w] = "active" /\ phase'[w] = "done" /\ alone[w] =>
              \A v \in Writers : file'["cert"] = v => age'[v] <= ServerLife]_vars
-----------------------------------------------------------------------------
(* The inductive invariant behind the JSON properties.                     *)

\* A run has created every document before its position; if it is alone, it is
\* the only active run and has completed them.
Progress(w) ==
    /\ \A i \in FirstJson .. (End - 1) : i < pos[w] => file[Plan[i]] # Absent
    /\ phase[w] = "active" /\ alone[w] =>
          /\ \A v \in Writers \ {w} : phase[v] # "active"
          /\ \A i \in FirstJson .. (End - 1) : i < pos[w] => file[Plan[i]] \in Writers

IInv ==
    /\ TypeOK
    /\ EnvironmentComesLast
    /\ \A w \in Writers : Progress(w)

-----------------------------------------------------------------------------
(* The inductive invariant behind the TLS properties.                      *)

\* A run that has not started has generated nothing; one that is alone has, so far,
\* generated all of the set or none of it.
Generates(w) ==
    /\ phase[w] = "idle" => \A f \in TlsFiles : file[f] # w
    /\ phase[w] = "active" /\ alone[w] =>
          /\ \A i \in 1 .. (FirstJson - 1) : i < pos[w] /\ pos[w] < FirstJson => file[Plan[i]] = w
          /\ FirstJson <= pos[w] /\ (\E f \in TlsFiles : file[f] = w) =>
                \A f \in TlsFiles : file[f] = w

\* No run was cut short, and each had the directory to itself.
Undisturbed == crashes = 0 /\ \A w \in Writers : phase[w] # "idle" => alone[w]

TlsSetInv ==
    /\ \A w \in Writers : Generates(w)
    /\ Undisturbed =>
          /\ Active = {} => TlsFits \/ ~TlsPresent
          /\ \A w \in Active : FirstJson <= pos[w] => TlsFits
=============================================================================
