---------------------------- MODULE LocalServices ----------------------------
(***************************************************************************)
(* ebiz-local-dev-services beside the asset writer: main and _serve of     *)
(* src/ebiz_deployment/local_dev_services.py.  One process runs three      *)
(* uvicorn servers under one asyncio.gather.  The provider's server reads  *)
(* the TLS set that some run of LocalAssets has written; a Runtime started *)
(* at any later time reads its CA certificate again.                       *)
(*                                                                         *)
(* A uvicorn server (external) installs a SIGINT handler when it begins.   *)
(* An interrupt lets it finish its requests, a second one does not wait    *)
(* for them; when it ends it restores the handler it had found and raises  *)
(* there what it has caught.  It exits the process if its port is taken.   *)
(* SIGTERM takes the same way and is left out.                             *)
(***************************************************************************)
EXTENDS LocalAssets

CONSTANTS
    Runner,          \* the handler that asyncio.run installs
    Unloaded,        \* the provider has no TLS pair
    MaxInterrupts,   \* bound on the interrupts of one process
    MaxRequests      \* bound on the requests a server has in progress

Order == <<"provider", "mcp", "broker">>
Servers == {"provider", "mcp", "broker"}

ASSUME ServicesAssumption ==
    /\ Runner \notin Servers
    /\ Unloaded \notin Writers
    /\ MaxInterrupts \in Nat /\ MaxRequests \in Nat

VARIABLES
    process,     \* "off", "running", or how it ended
    server,      \* server[s]: "new", "begun", "up" or "gone"
    handler,     \* who handles SIGINT
    saved,       \* saved[s]: the handler that s restores when it ends
    captured,    \* captured[s]: interrupts that s has caught
    requests,    \* requests[s]: requests in progress
    pair,        \* the run whose certificate and key the provider serves with
    taken,       \* servers whose port another program holds
    interrupts,  \* interrupts the process has received
    early        \* one of them before all three servers had begun

services ==
    <<process, server, handler, saved, captured, requests, pair, taken, interrupts, early>>
allVars == <<vars, services>>

Endings == {"unconfigured", "failed", "interrupted"}

ServicesTypeOK ==
    /\ process \in {"off", "running"} \union Endings
    /\ server \in [Servers -> {"new", "begun", "up", "gone"}]
    /\ handler \in Servers \union {Runner}
    /\ saved \in [Servers -> Servers \union {Runner}]
    /\ captured \in [Servers -> Nat]
    /\ requests \in [Servers -> 0 .. MaxRequests]
    /\ pair \in Writers \union {Unloaded}
    /\ taken \subseteq Servers
    /\ interrupts \in 0 .. MaxInterrupts
    /\ early \in BOOLEAN

Fresh(state) ==
    /\ server' = [s \in Servers |-> state]
    /\ handler' = Runner
    /\ saved' = [s \in Servers |-> Runner]
    /\ captured' = [s \in Servers |-> 0]
    /\ requests' = [s \in Servers |-> 0]
    /\ pair' = Unloaded

ServicesInit ==
    /\ Init
    /\ process = "off"
    /\ server = [s \in Servers |-> "gone"]
    /\ handler = Runner
    /\ saved = [s \in Servers |-> Runner]
    /\ captured = [s \in Servers |-> 0]
    /\ requests = [s \in Servers |-> 0]
    /\ pair = Unloaded
    /\ taken = {}
    /\ interrupts = 0
    /\ early = FALSE

-----------------------------------------------------------------------------
(* main and _serve.                                                        *)

Running == process = "running"

\* The process ends, and with it whatever it still served.
Ends(how) ==
    /\ process' = how
    /\ Fresh("gone")
    /\ UNCHANGED <<taken, interrupts, early>>

\* Slip: without the variables the process starts with default paths.
RunMainByDefault ==
    /\ ~Running
    /\ taken' \in SUBSET Servers
    /\ interrupts' = 0 /\ early' = FALSE
    /\ process' = "running"
    /\ Fresh("new")
    /\ UNCHANGED vars

\* main is called, again perhaps: it needs the environment that names the TLS files.
RunMain ==
    /\ ~Running
    /\ taken' \in SUBSET Servers
    /\ interrupts' = 0 /\ early' = FALSE
    /\ \/ /\ file["environment"] \in Writers
          /\ process' = "running"
          /\ Fresh("new")
       \/ /\ process' = "unconfigured"
          /\ Fresh("gone")
    /\ UNCHANGED vars

\* Slip: the two files are there, whatever they hold.
PairPresent == file["cert"] # Absent /\ file["key"] # Absent

PairFits == file["cert"] \in Writers /\ file["key"] = file["cert"]

\* The servers begin in the order in which gather creates their tasks.
NextToBegin(s) ==
    \E i \in DOMAIN Order :
        /\ Order[i] = s /\ server[s] = "new"
        /\ \A j \in 1 .. (i - 1) : server[Order[j]] # "new"

\* Slip: gather(return_exceptions=True), so that the others serve on.
BeginAlone(s) ==
    /\ Running
    /\ NextToBegin(s)
    /\ IF s = "provider" /\ ~PairFits
         THEN server' = [server EXCEPT ![s] = "gone"] /\ UNCHANGED <<handler, saved, pair>>
         ELSE /\ server' = [server EXCEPT ![s] = "begun"]
              /\ handler' = s
              /\ saved' = [saved EXCEPT ![s] = handler]
              /\ pair' = IF s = "provider" THEN file["cert"] ELSE pair
    /\ UNCHANGED <<vars, process, captured, requests, taken, interrupts, early>>

\* A server begins: it takes over SIGINT, and the provider's loads certificate and
\* key.  An exception there ends the gather and all of the process.
Begin(s) ==
    /\ Running
    /\ NextToBegin(s)
    /\ UNCHANGED vars
    /\ IF s = "provider" /\ ~PairFits
         THEN Ends("failed")
         ELSE /\ server' = [server EXCEPT ![s] = "begun"]
              /\ handler' = s
              /\ saved' = [saved EXCEPT ![s] = handler]
              /\ pair' = IF s = "provider" THEN file["cert"] ELSE pair
              /\ UNCHANGED <<process, captured, requests, taken, interrupts, early>>

\* Once all have begun, each listens on its port or exits the process.
Bind(s) ==
    /\ Running
    /\ \A t \in Servers : server[t] # "new"
    /\ server[s] = "begun"
    /\ UNCHANGED vars
    /\ IF s \in taken
         THEN Ends("failed")
         ELSE /\ server' = [server EXCEPT ![s] = "up"]
              /\ UNCHANGED <<process, handler, saved, captured, requests, pair, taken,
                             interrupts, early>>

\* n interrupts reach the handler h.  asyncio's cancels _serve and all it awaits;
\* main returns 130.
Deliver(h, n) ==
    IF h = Runner
      THEN process' = "interrupted" /\ Fresh("gone")
      ELSE /\ captured' = [captured EXCEPT ![h] = @ + n]
           /\ UNCHANGED <<process, saved, requests, pair>>

Interrupt ==
    /\ Running
    /\ interrupts < MaxInterrupts
    /\ interrupts' = interrupts + 1
    /\ early' = (early \/ handler # "broker")
    /\ Deliver(handler, 1)
    /\ handler # Runner => UNCHANGED <<server, handler>>
    /\ UNCHANGED <<vars, taken>>

Accept(s) ==
    /\ Running
    /\ server[s] = "up" /\ captured[s] = 0
    /\ requests[s] < MaxRequests
    /\ requests' = [requests EXCEPT ![s] = @ + 1]
    /\ UNCHANGED <<vars, process, server, handler, saved, captured, pair, taken,
                   interrupts, early>>

Answer(s) ==
    /\ Running
    /\ requests[s] > 0
    /\ requests' = [requests EXCEPT ![s] = @ - 1]
    /\ UNCHANGED <<vars, process, server, handler, saved, captured, pair, taken,
                   interrupts, early>>

MayLeave(s) ==
    /\ Running
    /\ server[s] = "up" /\ captured[s] > 0
    /\ requests[s] = 0 \/ captured[s] > 1

\* Slip: the server keeps to itself what it has caught.
LeaveQuietly(s) ==
    /\ MayLeave(s)
    /\ server' = [server EXCEPT ![s] = "gone"]
    /\ handler' = saved[s]
    /\ UNCHANGED <<vars, process, saved, captured, requests, pair, taken, interrupts, early>>

\* Slip: the first server to end ends the wait for all of them.
LeaveEndsAll(s) ==
    /\ MayLeave(s)
    /\ Ends("interrupted")
    /\ UNCHANGED vars

\* An interrupted server ends and passes the interrupts on.
Leave(s) ==
    /\ MayLeave(s)
    /\ Deliver(saved[s], captured[s])
    /\ saved[s] # Runner => /\ server' = [server EXCEPT ![s] = "gone"]
                            /\ handler' = saved[s]
    /\ UNCHANGED <<vars, taken, interrupts, early>>

ServicesStep(s) == Begin(s) \/ Bind(s) \/ Leave(s) \/ Answer(s)

ServicesNext ==
    \/ Next /\ UNCHANGED services
    \/ RunMain
    \/ Interrupt
    \/ \E s \in Servers : ServicesStep(s) \/ Accept(s)

ServicesSpec == ServicesInit /\ [][ServicesNext]_allVars

\* The event loop runs what is ready, and the handlers, which await nothing, end.
ServicesFairness ==
    /\ \A s \in Servers : WF_allVars(Begin(s)) /\ WF_allVars(Bind(s))
    /\ \A s \in Servers : WF_allVars(Leave(s)) /\ WF_allVars(Answer(s))

ServicesFairSpec == ServicesSpec /\ ServicesFairness

-----------------------------------------------------------------------------
(* Properties.                                                             *)

\* Every run of the asset writer so far had the directory to itself and finished
\* its TLS set, and nobody removed a file of it.
Orderly == crashes = 0 /\ removals = 0 /\ \A w \in Writers : phase[w] # "idle" => alone[w]

\* However often the asset writer is run again beside running services, a Runtime
\* that now loads the CA file trusts the certificate they are serving with.
RerunKeepsTrust ==
    Orderly /\ pair # Unloaded => file["ca"] = pair

\* The environment that makes main start is written after the TLS set: a start on
\* orderly assets fails for a taken port only.
StartFindsTls ==
    Orderly /\ process = "failed" => taken # {}

\* It is all three servers or none: while the process runs, no server is gone
\* unless an interrupt is on its way to the others.
AllOrNone ==
    Running /\ (\E s \in Servers : server[s] = "gone") =>
        \E s \in Servers : server[s] # "gone" /\ captured[s] > 0

\* One interrupt, once the servers have begun, drops no request of any of them:
\* each server is asked to end only after the one that began after it has drained.
OneInterruptDrains ==
    [][Running /\ process' = "interrupted" /\ interrupts' = 1 /\ ~early' =>
          \A s \in Servers : requests[s] = 0]_allVars

\* "Run both loopback services until interrupted": an interrupt ends the process,
\* whenever it comes.
InterruptEnds ==
    Running /\ interrupts > 0 ~> ~Running

\* The safety core of it: until the process has ended, one of the servers can still
\* begin, bind, answer or leave; the three never wait for each other.
ShutdownNotStuck ==
    Running /\ interrupts > 0 => \E s \in Servers :
        \/ NextToBegin(s)
        \/ server[s] = "begun" /\ \A t \in Servers : server[t] # "new"
        \/ requests[s] > 0
        \/ MayLeave(s)
-----------------------------------------------------------------------------
(* The inductive invariants behind the safety properties.                  *)

Generating(w) == phase[w] = "active" /\ pos[w] < FirstJson

\* On orderly assets the first run generates the TLS set, before any JSON document
\* is there, and every later run keeps it.
TlsInv ==
    Orderly =>
        /\ \A w \in Writers : Generating(w) =>
              /\ \A v \in Writers \ {w} : phase[v] = "idle"
              /\ \A i \in 1 .. (FirstJson - 1) : i < pos[w] => file[Plan[i]] = w
              /\ file["environment"] = Absent
        /\ (\A w \in Writers : phase[w] = "idle") => \A f \in Files : file[f] = Absent
        /\ (\E w \in Writers : phase[w] # "idle") /\ (\A w \in Writers : ~Generating(w)) =>
              TlsFits

\* The process began with environment.json there, so with the TLS set complete.
PairInv ==
    /\ Running => file["environment"] # Absent
    /\ ~Running => pair = Unloaded
    /\ Orderly /\ pair # Unloaded => \A f \in TlsFiles : file[f] = pair

Begun(s) == server[s] # "new"

\* Each server found the handler of the one that began before it.  A server that is
\* gone has passed its interrupts on; the provider's is the last.
ChainInv ==
    Running =>
        /\ Begun("broker") => Begun("mcp")
        /\ Begun("mcp") => Begun("provider")
        /\ ~Begun("broker") => \A s \in Servers : server[s] \in {"new", "begun"}
        /\ ~Begun("provider") => handler = Runner
        /\ Begun("provider") /\ ~Begun("mcp") => handler = "provider"
        /\ Begun("mcp") /\ ~Begun("broker") => handler = "mcp"
        /\ Begun("provider") => saved["provider"] = Runner
        /\ Begun("mcp") => saved["mcp"] = "provider"
        /\ Begun("broker") => saved["broker"] = "mcp"
        /\ handler = Runner => ~Begun("provider")
        /\ server["provider"] # "gone"
        /\ \A s \in Servers : server[s] = "gone" => captured[s] > 0
        /\ server["mcp"] = "gone" => captured["provider"] > 0
        /\ server["broker"] = "gone" => captured["mcp"] > 0

\* One interrupt in time is with one server; those that began after it are gone and
\* have no request left.
DrainInv ==
    Running =>
        /\ \A s \in Servers : server[s] \in {"new", "begun"} => requests[s] = 0
        /\ interrupts = 0 => \A s \in Servers : captured[s] = 0
        /\ interrupts <= 1 /\ ~early =>
              /\ \A s \in Servers : captured[s] <= 1
              /\ \A s \in Servers : server[s] = "gone" => requests[s] = 0
              /\ captured["mcp"] > 0 => server["broker"] = "gone"
              /\ captured["provider"] > 0 => server["mcp"] = "gone"

\* An interrupt that has not ended the process has been caught by a server.
HeldInv == Running /\ interrupts > 0 => \E s \in Servers : captured[s] > 0

ServicesInv ==
    IInv /\ ServicesTypeOK /\ TlsInv /\ PairInv /\ ChainInv /\ DrainInv /\ HeldInv
=============================================================================
