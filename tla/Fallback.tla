------------------------------ MODULE Fallback ------------------------------
(***************************************************************************)
(* The RPC client of an EVM network: the transport that falls back to      *)
(* another endpoint (internal/chain/fallback.go) under the client that     *)
(* checks the chain ID and remembers the answer (verifyNetwork and         *)
(* checkNetwork of internal/chain/chain.go).                               *)
(*                                                                         *)
(* Goroutines share one client without a lock; each access to one of its   *)
(* atomics is a step.  An operation is checkNetwork, which may need a      *)
(* chain ID request, and then its own request; both are RoundTrips.        *)
(*                                                                         *)
(* What is abstracted: the payload, the deadlines (4 s to probe, 8 s to    *)
(* send) that make every call end in an answer or a failure, the counters  *)
(* requests, failures and lastMS.  A 429, a 5xx and a transport error are  *)
(* a failure.  Which chain an endpoint serves does not change.             *)
(***************************************************************************)
EXTENDS Integers, FiniteSets

CONSTANTS
    Caller,          \* goroutines
    N,               \* number of endpoints, 0..N-1
    Wrong,           \* endpoints that serve another chain
    MaxOperations    \* bound: operations started

ASSUME FallbackAssumption ==
    /\ N \in Nat \ {0}
    /\ Wrong \subseteq 0..(N - 1)
    /\ MaxOperations \in Nat

VARIABLES
    healthy,         \* t.healthy
    active,          \* t.active
    failovers,       \* t.failovers
    verified,        \* c.networkVerified
    verifiedAt,      \* c.verifiedFailovers
    pc,              \* [caller -> where it is]
    operations       \* operations started

transportVars == <<healthy, active, failovers>>
cacheVars == <<verified, verifiedAt>>
vars == <<transportVars, cacheVars, pc, operations>>

Endpoint == 0..(N - 1)
Step == {"idle", "check", "verify", "round trip", "fast", "unhealthy", "scan", "send", "answered",
         "count", "mark", "cache", "verified"}

\* what: the request under way; seen: the counter read before it; at: the
\* endpoint of the fast path; start, skip, tried: the scan; down: history, the
\* endpoints that failed this request.
Idle == [step |-> "idle", what |-> "call", seen |-> 0, at |-> 0,
         start |-> 0, skip |-> 0, tried |-> 0, down |-> {}]

Go(c, step) == pc' = [pc EXCEPT ![c].step = step]
At(c, step) == pc[c].step = step

----------------------------------------------------------------------------
(* checkNetwork and verifyNetwork. *)

Begin(c) ==
    /\ At(c, "idle")
    /\ operations < MaxOperations
    /\ operations' = operations + 1
    /\ pc' = [pc EXCEPT ![c] = [Idle EXCEPT !.step = "check", !.seen = failovers]]
    /\ UNCHANGED <<transportVars, cacheVars>>

\* The cached answer holds as long as no failover was counted since.
CheckCache(c) ==
    /\ At(c, "check")
    /\ IF verified /\ verifiedAt = pc[c].seen
       THEN pc' = [pc EXCEPT ![c].step = "round trip"]
       ELSE pc' = [pc EXCEPT ![c].step = "verify", ![c].what = "chainId"]
    /\ UNCHANGED <<transportVars, cacheVars, operations>>

VerifyStart(c) ==
    /\ At(c, "verify")
    /\ pc' = [pc EXCEPT ![c].step = "round trip", ![c].seen = failovers]
    /\ UNCHANGED <<transportVars, cacheVars, operations>>

\* The chain ID answer; the endpoint that gave it decides what it says.
VerifyAnswer(c) ==
    /\ At(c, "cache")
    /\ IF pc[c].at \in Wrong
       THEN /\ verified' = FALSE
            /\ verifiedAt' = verifiedAt
            /\ Go(c, "idle")
       ELSE /\ verifiedAt' = pc[c].seen
            /\ verified' = verified
            /\ Go(c, "verified")
    /\ UNCHANGED <<transportVars, operations>>

VerifyStore(c) ==
    /\ At(c, "verified")
    /\ verified' = TRUE
    /\ pc' = [pc EXCEPT ![c] = [Idle EXCEPT !.step = "round trip"]]
    /\ UNCHANGED <<transportVars, verifiedAt, operations>>

----------------------------------------------------------------------------
(* RoundTrip. *)

\* An endpoint counted as healthy gets the request without a probe.
LoadHealthy(c) ==
    /\ At(c, "round trip")
    /\ Go(c, IF healthy THEN "fast" ELSE "scan")
    /\ UNCHANGED <<transportVars, cacheVars, operations>>

\* Done with the request: the chain ID goes to the cache, a call ends the
\* operation.
Finished(c) == IF pc[c].what = "chainId" THEN "cache" ELSE "idle"

FastSend(c, ok) ==
    /\ At(c, "fast")
    /\ pc' = [pc EXCEPT ![c].at = active,
                        ![c].down = IF ok THEN @ ELSE @ \cup {active},
                        ![c].step = IF ok THEN Finished(c) ELSE "unhealthy"]
    /\ UNCHANGED <<transportVars, cacheVars, operations>>

FastFailed(c) ==
    /\ At(c, "unhealthy")
    /\ healthy' = FALSE
    /\ pc' = [pc EXCEPT ![c].step = "scan", ![c].skip = 1]
    /\ UNCHANGED <<active, failovers, cacheVars, operations>>

\* The scan starts at the active endpoint, after a failed fast path behind it.
Start(c) == IF pc[c].tried = 0 THEN active ELSE pc[c].start
\* Mutant: the scan does not wrap around.
Index_NoWrap(c) == Start(c) + pc[c].skip + pc[c].tried

Index(c) == (Start(c) + pc[c].skip + pc[c].tried) % N

\* Mutant: after a failed fast path the scan stops one endpoint short.
Targets_Short(c) == N - pc[c].skip

Targets(c) == N

NextTarget(c) == [pc EXCEPT ![c].step = "scan", ![c].start = Start(c), ![c].tried = @ + 1,
                            ![c].down = @ \cup {Index(c)}]

\* Mutant: the probe accepts any answer.
ProbeAnswers_AnyChain(e) == TRUE

ProbeAnswers(e) == e \notin Wrong

\* probeEndpoint: an endpoint passes only if it answers with the right chain.
Probe(c, ok) ==
    /\ At(c, "scan")
    /\ pc[c].tried < Targets(c)
    /\ ok => ProbeAnswers(Index(c))
    /\ pc' = IF ok
             THEN [pc EXCEPT ![c].step = "send", ![c].start = Start(c), ![c].at = Index(c)]
             ELSE NextTarget(c)
    /\ UNCHANGED <<transportVars, cacheVars, operations>>

\* Mutant: a target that passed its probe is tried until it answers.
ScanSend_Again(c, ok) ==
    /\ At(c, "send")
    /\ Go(c, IF ok THEN "answered" ELSE "scan")
    /\ UNCHANGED <<transportVars, cacheVars, operations>>

ScanSend(c, ok) ==
    /\ At(c, "send")
    /\ pc' = IF ok
             THEN [pc EXCEPT ![c].step = "answered"]
             ELSE [pc EXCEPT ![c].step = "scan", ![c].tried = @ + 1, ![c].down = @ \cup {pc[c].at}]
    /\ UNCHANGED <<transportVars, cacheVars, operations>>

\* The endpoint that answered becomes the active one: by compare-and-swap, and
\* counted, if the scan went past its start, and stored as it is otherwise.
Answered(c) ==
    /\ At(c, "answered")
    /\ IF pc[c].at # pc[c].start
       THEN IF active = pc[c].start
            THEN active' = pc[c].at /\ Go(c, "count")
            ELSE active' = active /\ Go(c, "mark")
       ELSE active' = pc[c].at /\ Go(c, "mark")
    /\ UNCHANGED <<healthy, failovers, cacheVars, operations>>

Count(c) ==
    /\ At(c, "count")
    /\ failovers' = failovers + 1
    /\ Go(c, "mark")
    /\ UNCHANGED <<healthy, active, cacheVars, operations>>

MarkHealthy(c) ==
    /\ At(c, "mark")
    /\ healthy' = TRUE
    /\ Go(c, Finished(c))
    /\ UNCHANGED <<active, failovers, cacheVars, operations>>

\* Every target failed: the operation fails with ErrUnavailable.
Exhausted(c) ==
    /\ At(c, "scan")
    /\ pc[c].tried >= Targets(c)
    /\ Go(c, "idle")
    /\ UNCHANGED <<transportVars, cacheVars, operations>>

\* The request's context ends, or the chain ID answer turns out to be an error that
\* RoundTrip lets pass.  The endpoint keeps its standing, and so does the cache.
Cancel(c) ==
    /\ pc[c].step \in {"round trip", "fast", "scan", "send", "cache"}
    /\ pc' = [pc EXCEPT ![c] = Idle]
    /\ UNCHANGED <<transportVars, cacheVars, operations>>

Init ==
    /\ healthy = FALSE
    /\ active = 0
    /\ failovers = 0
    /\ verified = FALSE
    /\ verifiedAt = 0
    /\ pc = [c \in Caller |-> Idle]
    /\ operations = 0

Transport(c) ==
    \/ LoadHealthy(c)
    \/ \E ok \in BOOLEAN : FastSend(c, ok) \/ Probe(c, ok) \/ ScanSend(c, ok)
    \/ FastFailed(c)
    \/ Answered(c)
    \/ Count(c)
    \/ MarkHealthy(c)
    \/ Exhausted(c)

Check(c) == CheckCache(c) \/ VerifyStart(c) \/ VerifyAnswer(c) \/ VerifyStore(c)

Next == \E c \in Caller : Begin(c) \/ Check(c) \/ Transport(c) \/ Cancel(c)

Spec == Init /\ [][Next]_vars

\* A goroutine under way is scheduled, and every call ends by its deadline.
FairSpec == Spec /\ \A c \in Caller : WF_vars(Check(c) \/ Transport(c))

----------------------------------------------------------------------------
(* Properties. *)

TypeOK ==
    /\ {healthy, verified} \subseteq BOOLEAN
    /\ active \in Endpoint
    /\ {failovers, verifiedAt, operations} \subseteq Nat
    /\ \A c \in Caller :
          /\ pc[c].step \in Step
          /\ pc[c].down \subseteq Endpoint
          /\ pc[c].tried \in 0..N

\* "Each endpoint is checked for the selected chain before forwarding
\* operations": no interleaving lets a request go to an endpoint of another
\* chain, neither on the fast path nor in a scan.
NeverToWrongChain ==
    \A c \in Caller :
        /\ At(c, "fast") => active \notin Wrong
        /\ pc[c].step \in {"send", "answered", "count", "mark", "cache"} => pc[c].at \notin Wrong

\* A request that runs out of targets was refused by every endpoint, also when
\* another goroutine moves the active endpoint under it.
FailsOnlyAfterAll ==
    \A c \in Caller : At(c, "scan") /\ pc[c].tried >= Targets(c) => pc[c].down = Endpoint

\* Every operation ends: retries are bounded.
OperationEnds == \A c \in Caller : pc[c].step # "idle" ~> pc[c].step = "idle"
=============================================================================
