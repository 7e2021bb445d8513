------------------------------- MODULE Server -------------------------------
(***************************************************************************)
(* The server process, run() of cmd/testnet-wallet-lab/main.go, from start *)
(* to exit, serving the routes of module Web, with another process of the  *)
(* same program on the same wallet directory: the one a deployment starts  *)
(* when it has stopped this one, or too early.                             *)
(*                                                                         *)
(* Every service holds an exclusive lock (flock) on its directory from     *)
(* NewService to Close; the system releases the locks of a process that    *)
(* ends.  One account and one linked network stand for all of them, and    *)
(* the faucet, where it is configured, pays from that account; its TRX     *)
(* source, a second TronService, is left out.                              *)
(*                                                                         *)
(* `open' is what the deferred functions of run() will close, in the order *)
(* opposite to the start; `accountsMu' and `shuttingDown' are the code's.  *)
(* A maintenance goroutine may use its service at any moment it is alive,  *)
(* also once more after its context is cancelled, for select may take the  *)
(* ticker.  Close takes the mutexes most calls hold (sendMu and historyMu, *)
(* or mu), and so waits for those calls, and only for those.               *)
(***************************************************************************)
EXTENDS Web, Sequences

CONSTANTS
    Process,     \* processes that take turns on the directory, 1, 2, ...
    Request,     \* requests under way at once, 1, 2, ...
    Offered,     \* bound: the routes asked for
    None

ASSUME ServerAssumption ==
    /\ Process \cup Request \subseteq Nat
    /\ None \notin Nat
    /\ Offered \subseteq Route

VARIABLES
    mode,          \* how access is configured
    faucet,        \* whether TEST_FAUCET_CONFIG names an account
    lock,          \* [directory -> process that holds its lock]
    phase,         \* [process -> where run() is]
    open,          \* [process -> services its deferred functions will close]
    alive,         \* [process -> services with a maintenance goroutine]
    accountsMu,    \* [process -> request that holds it]
    shuttingDown,  \* [process -> the flag under accountsMu; maintenance is cancelled]
    abandoned,     \* [process -> it stops with handlers under way]
    budget,        \* [process -> [limiter -> requests of its minute, all and by operators]]
    tally,         \* [process -> [tally -> password attempts of its minute]]
    req            \* [request -> its progress]

config == <<mode, faucet>>
locks == <<lock, open, alive>>
gates == <<budget, tally>>
vars == <<config, locks, gates, phase, accountsMu, shuttingDown, abandoned, req>>

Phase == {"down", "starting", "serving", "draining", "stopping"}
Chain == {"solana", "tron"}
AccountDir == {"account", "child"}
Dir == EvmService \cup Chain
Step == {"idle", "waiting", "loading", "loaded", "working", "calling"}

Idle == [step |-> "idle", proc |-> None, at |-> "root", calls |-> FALSE, mutex |-> "none",
         gate |-> "public", slot |-> "none", operator |-> FALSE]
NoBudget == [l \in Limiter |-> [all |-> 0, operator |-> 0]]
NoTally == [t \in Tally |-> 0]

Active(p) == {r \in Request : req[r].proc = p}

----------------------------------------------------------------------------
(* Start.                                                                  *)

\* The order of run(); a configured faucet loads its account before listening.
StartOrder ==
    <<"root", "linked", "solana", "tron">> \o (IF faucet THEN <<"account", "child">> ELSE <<>>)

NextDir(p) == StartOrder[Cardinality(open[p]) + 1]

\* Processes, and requests, are alike: the first free one is taken.
Boot(p) ==
    /\ phase[p] = "down"
    /\ \A q \in Process : q < p => phase[q] # "down"
    /\ phase' = [phase EXCEPT ![p] = "starting"]
    /\ UNCHANGED <<config, locks, gates, accountsMu, shuttingDown, abandoned, req>>

\* The services whose maintenance starts once this one is open: those of the
\* root together, those of an account together.
Maintained(d) ==
    CASE d = "linked" -> {"root", "linked"}
      [] d = "child" -> AccountDir
      [] OTHER -> {}

Started(p) == Cardinality(open[p]) = Len(StartOrder)

StartService(p) ==
    LET d == NextDir(p)
    IN  /\ phase[p] = "starting"
        /\ ~Started(p)
        /\ lock[d] = None
        /\ lock' = [lock EXCEPT ![d] = p]
        /\ open' = [open EXCEPT ![p] = @ \cup {d}]
        /\ alive' = [alive EXCEPT ![p] = @ \cup Maintained(d)]
        /\ UNCHANGED <<config, gates, phase, accountsMu, shuttingDown, abandoned, req>>

Listen(p) ==
    /\ phase[p] = "starting"
    /\ Started(p)
    /\ phase' = [phase EXCEPT ![p] = "serving"]
    /\ UNCHANGED <<config, locks, gates, accountsMu, shuttingDown, abandoned, req>>

\* The directory is in use, or anything else fails up to and including the
\* listening socket: run() returns.
StartFails(p) ==
    /\ phase[p] = "starting"
    /\ phase' = [phase EXCEPT ![p] = "stopping"]
    /\ UNCHANGED <<config, locks, gates, accountsMu, shuttingDown, abandoned, req>>

----------------------------------------------------------------------------
(* Requests.                                                               *)

\* Mutant: one request more than the limit.
OverRate_OffByOne(p, l) == budget[p][l].all > Rate

OverRate(p, l) == budget[p][l].all >= Rate

Holders(p, l, kind) ==
    {r \in Active(p) : req[r].gate = l /\ req[r].slot = kind}

Busy(p, l, kind) == Cardinality(Holders(p, l, kind)) >= Slots(kind)

\* What becomes of a request at process p: turned away for too many attempts, with
\* the gate's own answer, for too many requests or because every slot is taken, or
\* admitted.
Answer(p, route, gate, counted) ==
    IF \E t \in counted : tally[p][t] >= Attempts THEN "attempts"
    ELSE IF gate \notin Limiter THEN gate
    ELSE IF Limited(route) /\ OverRate(p, gate) THEN "rate"
    ELSE IF Limited(route) /\ Busy(p, gate, Slot(route)) THEN "busy"
    ELSE "admitted"

\* An attempt is counted unless they are used up already.
CountAttempt(p, counted) ==
    tally' = [tally EXCEPT ![p] =
                [t \in Tally |-> IF t \in counted /\ @[t] < Attempts THEN @[t] + 1 ELSE @[t]]]

\* LimitTraffic counts a request before it looks for a slot.
CountRequest(p, route, gate, answer, who) ==
    budget' = IF answer = "busy" \/ (answer = "admitted" /\ Limited(route))
              THEN [budget EXCEPT ![p][gate] =
                       [all |-> @.all + 1,
                        operator |-> IF who = "operator" THEN @.operator + 1 ELSE @.operator]]
              ELSE budget

\* The request at its handler.
Admitted(p, route, gate, who) ==
    [step |-> IF OfAccount(route) THEN "waiting" ELSE "working",
     proc |-> p,
     at |-> Service(route),
     calls |-> route.calls /\ (route.at = "faucet" => faucet),
     mutex |-> Mutex(route),
     gate |-> gate,
     slot |-> IF Limited(route) THEN Slot(route) ELSE "none",
     operator |-> who = "operator"]

\* A request is accepted, passes the gates and reaches its handler; one that is
\* turned away leaves nothing but its counts.
Arrive(r, p, route, who) ==
    LET gate == Gate(mode, route, who)
        counted == Counted(mode, route, who)
        answer == Answer(p, route, gate, counted)
    IN  /\ phase[p] = "serving"
        /\ req[r] = Idle
        /\ \A q \in Request : q < r => req[q] # Idle
        /\ CountAttempt(p, counted)
        /\ CountRequest(p, route, gate, answer, who)
        /\ req' = IF answer = "admitted"
                  THEN [req EXCEPT ![r] = Admitted(p, route, gate, who)]
                  ELSE req
        /\ UNCHANGED <<config, locks, phase, accountsMu, shuttingDown, abandoned>>

\* A minute has passed since a limiter's, or a tally's, window began.
Minute(p) ==
    /\ phase[p] = "serving"
    /\ \/ /\ \E l \in Limiter : /\ budget[p][l] # NoBudget[l]
                                /\ budget' = [budget EXCEPT ![p][l] = NoBudget[l]]
          /\ UNCHANGED tally
       \/ /\ \E t \in Tally : /\ tally[p][t] # 0
                              /\ tally' = [tally EXCEPT ![p][t] = 0]
          /\ UNCHANGED budget
    /\ UNCHANGED <<config, locks, phase, accountsMu, shuttingDown, abandoned, req>>

Finished(r) == req' = [req EXCEPT ![r] = Idle]
GoTo(r, step) == req' = [req EXCEPT ![r].step = step]

\* The first request for an account loads it, under accountsMu.
EnterAccounts(r) ==
    LET p == req[r].proc
    IN  /\ req[r].step = "waiting"
        /\ accountsMu[p] = None
        /\ \/ shuttingDown[p] /\ Finished(r) /\ UNCHANGED accountsMu
           \/ /\ ~shuttingDown[p] /\ "child" \in open[p]
              /\ GoTo(r, "working")
              /\ UNCHANGED accountsMu
           \/ /\ ~shuttingDown[p] /\ "child" \notin open[p]
              /\ GoTo(r, "loading")
              /\ accountsMu' = [accountsMu EXCEPT ![p] = r]
        /\ UNCHANGED <<config, locks, gates, phase, shuttingDown, abandoned>>

\* NewAccountService.
LoadAccount(r) ==
    LET p == req[r].proc
    IN  /\ req[r].step = "loading"
        /\ lock["account"] = None
        /\ lock' = [lock EXCEPT !["account"] = p]
        /\ GoTo(r, "loaded")
        /\ UNCHANGED <<config, open, alive, gates, phase, accountsMu, shuttingDown, abandoned>>

\* buildNetworks; the account's handler is registered and its maintenance begins.
LoadNetworks(r) ==
    LET p == req[r].proc
    IN  /\ req[r].step = "loaded"
        /\ lock["child"] = None
        /\ lock' = [lock EXCEPT !["child"] = p]
        /\ open' = [open EXCEPT ![p] = @ \cup AccountDir]
        /\ alive' = [alive EXCEPT ![p] = @ \cup AccountDir]
        /\ accountsMu' = [accountsMu EXCEPT ![p] = None]
        /\ GoTo(r, "working")
        /\ UNCHANGED <<config, gates, phase, shuttingDown, abandoned>>

\* Mutant: the account stays open when its networks cannot be.
LoadFails_KeepsPrimary(r) ==
    /\ req[r].step \in {"loading", "loaded"}
    /\ accountsMu' = [accountsMu EXCEPT ![req[r].proc] = None]
    /\ Finished(r)
    /\ UNCHANGED <<config, locks, gates, phase, shuttingDown, abandoned>>

\* Mutant: accountsMu is not unlocked on this path.
LoadFails_KeepsMutex(r) ==
    /\ req[r].step \in {"loading", "loaded"}
    /\ lock' = IF req[r].step = "loaded" THEN [lock EXCEPT !["account"] = None] ELSE lock
    /\ Finished(r)
    /\ UNCHANGED <<config, open, alive, accountsMu, gates, phase, shuttingDown, abandoned>>

\* There is no such account, or it or one of its networks cannot be opened:
\* what was opened is closed again.
LoadFails(r) ==
    /\ req[r].step \in {"loading", "loaded"}
    /\ lock' = IF req[r].step = "loaded" THEN [lock EXCEPT !["account"] = None] ELSE lock
    /\ accountsMu' = [accountsMu EXCEPT ![req[r].proc] = None]
    /\ Finished(r)
    /\ UNCHANGED <<config, open, alive, gates, phase, shuttingDown, abandoned>>

\* The handler's call of its service; one that makes several is seen at one of
\* them.
Call(r) ==
    /\ req[r].step = "working"
    /\ req[r].calls
    /\ GoTo(r, "calling")
    /\ UNCHANGED <<config, locks, gates, phase, accountsMu, shuttingDown, abandoned>>

\* The handler answers, after its call or without one (a malformed request, a
\* missing CSRF token); its slot is free again.
Finish(r) ==
    /\ req[r].step \in {"working", "calling"}
    /\ Finished(r)
    /\ UNCHANGED <<config, locks, gates, phase, accountsMu, shuttingDown, abandoned>>

----------------------------------------------------------------------------
(* Shutdown: the signal, then the deferred functions, last first.          *)

\* The listener is closed.  Nothing is admitted any more, so the model forgets
\* what the limiters counted and who holds their slots.
StopListening(p) ==
    /\ budget' = [budget EXCEPT ![p] = NoBudget]
    /\ tally' = [tally EXCEPT ![p] = NoTally]
    /\ req' = [r \in Request |->
                  IF r \in Active(p)
                  THEN [req[r] EXCEPT !.gate = "public", !.slot = "none", !.operator = FALSE]
                  ELSE req[r]]

Signal(p) ==
    /\ phase[p] = "serving"
    /\ phase' = [phase EXCEPT ![p] = "draining"]
    /\ StopListening(p)
    /\ UNCHANGED <<config, locks, accountsMu, shuttingDown, abandoned>>

\* ListenAndServe returns because it cannot accept any more: run() returns at
\* once, without Shutdown.
AcceptFails(p) ==
    /\ phase[p] = "serving"
    /\ phase' = [phase EXCEPT ![p] = "stopping"]
    /\ abandoned' = [abandoned EXCEPT ![p] = Active(p) # {}]
    /\ StopListening(p)
    /\ UNCHANGED <<config, locks, accountsMu, shuttingDown>>

\* server.Shutdown returns: every handler did, or its 30 seconds are over.
Drained(p) ==
    /\ phase[p] = "draining"
    /\ phase' = [phase EXCEPT ![p] = "stopping"]
    /\ abandoned' = [abandoned EXCEPT ![p] = Active(p) # {}]
    /\ UNCHANGED <<config, locks, gates, accountsMu, shuttingDown, req>>

\* The services of the other chains are closed first, then the accounts are
\* sealed and maintenance is cancelled.
ShutDownAccounts(p) ==
    /\ phase[p] = "stopping"
    /\ ~shuttingDown[p]
    /\ open[p] \cap Chain = {}
    /\ accountsMu[p] = None
    /\ shuttingDown' = [shuttingDown EXCEPT ![p] = TRUE]
    /\ UNCHANGED <<config, locks, gates, phase, accountsMu, abandoned, req>>

MaintenanceReturns(p, d) ==
    /\ shuttingDown[p]
    /\ d \in alive[p]
    /\ alive' = [alive EXCEPT ![p] = @ \ {d}]
    /\ UNCHANGED <<config, lock, open, gates, phase, accountsMu, shuttingDown, abandoned, req>>

\* Mutant: nobody waits for the maintenance goroutines.
MaintenanceJoined_No(p) == shuttingDown[p]

\* maintenance.Wait: no EVM service is closed before.
MaintenanceJoined(p) == shuttingDown[p] /\ alive[p] = {}

\* What must be closed before d: TRON, Solana, accounts before their networks,
\* linked networks, the root.
ClosedBefore(d) ==
    CASE d = "tron" -> {}
      [] d = "solana" -> {"tron"}
      [] d = "account" -> Chain
      [] d = "child" -> Chain \cup {"account"}
      [] d = "linked" -> Chain \cup AccountDir
      [] d = "root" -> Dir \ {"root"}

\* Close waits for the calls that hold a mutex of the service and gives the lock
\* back.
Close(p, d) ==
    /\ phase[p] = "stopping"
    /\ d \in open[p]
    /\ open[p] \cap ClosedBefore(d) = {}
    /\ d \in EvmService => MaintenanceJoined(p)
    /\ \A r \in Active(p) : ~(req[r].step = "calling" /\ req[r].mutex = d)
    /\ lock' = [lock EXCEPT ![d] = None]
    /\ open' = [open EXCEPT ![p] = @ \ {d}]
    /\ UNCHANGED <<config, alive, gates, phase, accountsMu, shuttingDown, abandoned, req>>

\* The process is gone, with its handlers, goroutines and locks.
Gone(p) ==
    /\ phase' = [phase EXCEPT ![p] = "down"]
    /\ lock' = [d \in Dir |-> IF lock[d] = p THEN None ELSE lock[d]]
    /\ open' = [open EXCEPT ![p] = {}]
    /\ alive' = [alive EXCEPT ![p] = {}]
    /\ accountsMu' = [accountsMu EXCEPT ![p] = None]
    /\ shuttingDown' = [shuttingDown EXCEPT ![p] = FALSE]
    /\ abandoned' = [abandoned EXCEPT ![p] = FALSE]
    /\ budget' = [budget EXCEPT ![p] = NoBudget]
    /\ tally' = [tally EXCEPT ![p] = NoTally]
    /\ req' = [r \in Request |-> IF r \in Active(p) THEN Idle ELSE req[r]]
    /\ UNCHANGED config

\* main returns.
Exit(p) ==
    /\ phase[p] = "stopping"
    /\ shuttingDown[p]
    /\ open[p] = {}
    /\ Gone(p)

\* SIGKILL, as when the grace period of the container is over.
Kill(p) ==
    /\ phase[p] # "down"
    /\ Gone(p)

----------------------------------------------------------------------------

Init ==
    /\ mode \in Mode
    /\ faucet \in BOOLEAN
    /\ lock = [d \in Dir |-> None]
    /\ phase = [p \in Process |-> "down"]
    /\ open = [p \in Process |-> {}]
    /\ alive = [p \in Process |-> {}]
    /\ accountsMu = [p \in Process |-> None]
    /\ shuttingDown = [p \in Process |-> FALSE]
    /\ abandoned = [p \in Process |-> FALSE]
    /\ budget = [p \in Process |-> NoBudget]
    /\ tally = [p \in Process |-> NoTally]
    /\ req = [r \in Request |-> Idle]

Serve(r) ==
    EnterAccounts(r) \/ LoadAccount(r) \/ LoadNetworks(r) \/ LoadFails(r) \/ Call(r) \/ Finish(r)

Stop(p) ==
    Drained(p) \/ ShutDownAccounts(p) \/ (\E d \in Dir : MaintenanceReturns(p, d) \/ Close(p, d))
    \/ Exit(p)

Next ==
    \/ \E p \in Process : Boot(p) \/ StartService(p) \/ Listen(p) \/ StartFails(p) \/ Signal(p)
    \/ \E p \in Process : AcceptFails(p) \/ Minute(p) \/ Stop(p) \/ Kill(p)
    \/ \E r \in Request : Serve(r)
    \/ \E r \in Request, p \in Process, route \in Offered, who \in Who : Arrive(r, p, route, who)

(* A handler has a deadline on everything it waits for, Shutdown gives up   *)
(* after 30 seconds, a maintenance goroutine ends once its calls did, and  *)
(* the deferred functions run to their end.                                *)
Fairness ==
    /\ \A r \in Request : WF_vars(Serve(r))
    /\ \A p \in Process : WF_vars(Stop(p))

Spec == Init /\ [][Next]_vars /\ Fairness

----------------------------------------------------------------------------
(* Properties. *)

TypeOK ==
    /\ mode \in Mode /\ faucet \in BOOLEAN
    /\ lock \in [Dir -> Process \cup {None}]
    /\ phase \in [Process -> Phase]
    /\ {open, alive} \subseteq [Process -> SUBSET Dir]
    /\ {shuttingDown, abandoned} \subseteq [Process -> BOOLEAN]
    /\ budget \in [Process -> [Limiter -> [all : 0..Rate, operator : 0..Rate]]]
    /\ tally \in [Process -> [Tally -> 0..Attempts]]
    /\ \A r \in Request : req[r].step \in Step /\ (req[r] = Idle <=> req[r].proc = None)
    /\ \A p \in Process, r \in Request :
          accountsMu[p] = r <=> req[r].proc = p /\ req[r].step \in {"loading", "loaded"}

\* A process works in a directory only while it holds its lock: a maintenance
\* goroutine always ("cancelled and joined by the server before closing the
\* wallet", RunMaintenance), and a handler unless run() returned without it.
WorkUnderLock ==
    /\ \A p \in Process : \A d \in alive[p] : lock[d] = p
    /\ \A r \in Request :
          req[r].step = "calling" => lock[req[r].at] = req[r].proc \/ abandoned[req[r].proc]

\* Whoever holds the root's lock finds every other directory free: no failed
\* load, shutdown in the middle of one, kill or early second process leaves a
\* lock behind that keeps an account from being opened.
LockNeverRefuses ==
    /\ \A p \in Process :
          phase[p] = "starting" /\ open[p] # {} /\ ~Started(p) => lock[NextDir(p)] = None
    /\ \A r \in Request :
          /\ req[r].step = "loading" => lock["account"] = None
          /\ req[r].step = "loaded" => lock["child"] = None

\* Requests that count against the administrator: those of the limiter an
\* operator's request goes to.
OwnLimiter(route) == mode = "token" \/ (mode = "shared" /\ Initializes(route))

\* "External public traffic cannot exhaust the administrator's quota": an
\* operator who is turned away for the rate or for want of a slot was crowded
\* out by operators alone.
VisitorsNeverCrowdOut ==
    \A p \in Process : phase[p] = "serving" =>
        \A route \in {x \in Offered : OwnLimiter(x)} :
            LET gate == Gate(mode, route, "operator")
                answer == Answer(p, route, gate, {})
            IN  /\ answer = "rate" => budget[p][gate].operator >= Rate
                /\ answer = "busy" => \A r \in Holders(p, gate, Slot(route)) : req[r].operator

\* A process that was told to stop ends, whatever its handlers are doing: nobody
\* keeps accountsMu, a service's mutex or a goroutine from it.
ShutdownEnds ==
    \A p \in Process : phase[p] \in {"draining", "stopping"} ~> phase[p] = "down"
=============================================================================
