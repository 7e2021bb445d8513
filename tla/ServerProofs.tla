--------------------------- MODULE ServerProofs ---------------------------
(***************************************************************************)
(* Proofs about module Server, for any number of processes and requests    *)
(* and any limits: nobody works in a directory without its lock, no lock   *)
(* is left behind, and visitors cannot use up what is the operator's.      *)
(***************************************************************************)
EXTENDS Server, FiniteSetTheorems, FunctionTheorems, SequenceTheorems, TLAPS

----------------------------------------------------------------------------
(* The order of the start. *)

\* The first n directories run() opens.
Opened(n) == {StartOrder[i] : i \in 1..n}

LEMMA StartOrderIs ==
    ASSUME faucet \in BOOLEAN
    PROVE  /\ Len(StartOrder) = IF faucet THEN 6 ELSE 4
           /\ StartOrder[1] = "root" /\ StartOrder[2] = "linked"
           /\ StartOrder[3] = "solana" /\ StartOrder[4] = "tron"
           /\ faucet => StartOrder[5] = "account" /\ StartOrder[6] = "child"
<1>1. CASE faucet
    BY <1>1 DEF StartOrder
<1>2. CASE ~faucet
    BY <1>2 DEF StartOrder
<1> QED
    BY <1>1, <1>2

LEMMA StartOrderDistinct ==
    ASSUME faucet \in BOOLEAN, NEW i \in 1..Len(StartOrder), NEW j \in 1..Len(StartOrder),
           StartOrder[i] = StartOrder[j]
    PROVE  i = j
<1>1. i \in 1..6 /\ j \in 1..6 /\ (~faucet => i \in 1..4 /\ j \in 1..4)
    BY StartOrderIs
<1> QED
    BY <1>1, StartOrderIs

LEMMA OpenedCount ==
    ASSUME faucet \in BOOLEAN, NEW n \in 0..Len(StartOrder)
    PROVE  Cardinality(Opened(n)) = n
<1> DEFINE f == [i \in 1..n |-> StartOrder[i]]
<1>1. n \in Nat /\ 1..n \subseteq 1..Len(StartOrder)
    BY StartOrderIs
<1>2. f \in Bijection(1..n, Opened(n))
    <2>1. f \in [1..n -> Opened(n)]
        BY DEF Opened
    <2>2. \A i, j \in 1..n : f[i] = f[j] => i = j
        BY <1>1, StartOrderDistinct
    <2>3. \A d \in Opened(n) : \E i \in 1..n : f[i] = d
        BY DEF Opened
    <2> QED
        BY <2>1, <2>2, <2>3 DEF Bijection, Injection, Surjection, IsInjective
<1>3. ExistsBijection(1..n, Opened(n))
    BY <1>2 DEF ExistsBijection
<1> QED
    BY <1>1, <1>3, FS_CountingElements

LEMMA OpenedNext ==
    ASSUME faucet \in BOOLEAN, NEW n \in 0..(Len(StartOrder) - 1)
    PROVE  /\ Opened(n + 1) = Opened(n) \cup {StartOrder[n + 1]}
           /\ StartOrder[n + 1] \notin Opened(n)
           /\ StartOrder[n + 1] \in Dir
           /\ Maintained(StartOrder[n + 1]) \subseteq Opened(n + 1) \cap EvmService
<1>1. n \in 0..5 /\ (~faucet => n \in 0..3) /\ n + 1 \in 1..Len(StartOrder)
    <2>1. CASE faucet
        <3>1. Len(StartOrder) = 6
            BY <2>1, StartOrderIs
        <3> QED
            BY <2>1, <3>1
    <2>2. CASE ~faucet
        <3>1. Len(StartOrder) = 4
            BY <2>2, StartOrderIs
        <3> QED
            BY <2>2, <3>1
    <2> QED
        BY <2>1, <2>2
<1>2. Opened(n + 1) = Opened(n) \cup {StartOrder[n + 1]}
    BY <1>1 DEF Opened
<1>3. StartOrder[n + 1] \notin Opened(n)
    BY <1>1, StartOrderDistinct DEF Opened
<1>4. StartOrder[n + 1] \in Dir
    BY <1>1, StartOrderIs DEF Dir, EvmService, Chain
<1>5. Maintained(StartOrder[n + 1]) \subseteq Opened(n + 1) \cap EvmService
    <2>1. CASE n + 1 = 2
        BY <2>1, StartOrderIs DEF Maintained, Opened, EvmService
    <2>2. CASE n + 1 = 6
        BY <1>1, <2>2, StartOrderIs DEF Maintained, Opened, EvmService, AccountDir
    <2>3. CASE n + 1 \notin {2, 6}
        <3>1. StartOrder[n + 1] \notin {"linked", "child"}
            BY <1>1, <2>3, StartOrderIs
        <3> QED
            BY <3>1 DEF Maintained
    <2> QED
        BY <2>1, <2>2, <2>3
<1> QED
    BY <1>2, <1>3, <1>4, <1>5

\* What is open once the server listens.
LEMMA OpenedAll ==
    ASSUME faucet \in BOOLEAN
    PROVE  /\ {"root", "linked", "solana", "tron"} \subseteq Opened(Len(StartOrder))
           /\ "account" \in Opened(Len(StartOrder)) <=> faucet
           /\ "child" \in Opened(Len(StartOrder)) <=> faucet
           /\ Opened(Len(StartOrder)) \subseteq Dir
<1>1. CASE faucet
    <2>1. Opened(Len(StartOrder)) = {StartOrder[i] : i \in {1, 2, 3, 4, 5, 6}}
        BY <1>1, StartOrderIs, 1..6 = {1, 2, 3, 4, 5, 6} DEF Opened
    <2> QED
        BY <1>1, <2>1, StartOrderIs DEF Dir, EvmService, Chain
<1>2. CASE ~faucet
    <2>1. Opened(Len(StartOrder)) = {StartOrder[i] : i \in {1, 2, 3, 4}}
        BY <1>2, StartOrderIs, 1..4 = {1, 2, 3, 4} DEF Opened
    <2> QED
        BY <1>2, <2>1, StartOrderIs DEF Dir, EvmService, Chain
<1> QED
    BY <1>1, <1>2

LEMMA OpenedRoot ==
    ASSUME faucet \in BOOLEAN, NEW n \in 0..Len(StartOrder), n > 0
    PROVE  "root" \in Opened(n)
    BY StartOrderIs DEF Opened

----------------------------------------------------------------------------
(* The routes and the gates. *)

LEMMA EvmRouteAt ==
    ASSUME NEW route \in EvmRoutes
    PROVE  route.at \in EvmService /\ route.calls \in BOOLEAN
<1>1. PICK at \in EvmService :
          route \in PageRoutes(at) \cup NetworkRoutes(at) \cup ObservationRoutes(at)
                    \cup StatusRoutes(at) \cup KeyRoutes(at) \cup TokenRoutes(at)
                    \cup PaymentRoutes(at) \cup ActivityRoutes(at)
    BY DEF EvmRoutes
<1>2. route.at = at /\ route.calls \in BOOLEAN
    <2>1. CASE route \in PageRoutes(at) \cup NetworkRoutes(at) \cup ObservationRoutes(at)
        BY <2>1 DEF PageRoutes, NetworkRoutes, ObservationRoutes, On
    <2>2. CASE route \in StatusRoutes(at) \cup KeyRoutes(at)
        BY <2>2 DEF StatusRoutes, KeyRoutes, On
    <2>3. CASE route \in TokenRoutes(at) \cup PaymentRoutes(at) \cup ActivityRoutes(at)
        BY <2>3 DEF TokenRoutes, PaymentRoutes, ActivityRoutes, On
    <2> QED
        BY <1>1, <2>1, <2>2, <2>3
<1> QED
    BY <1>2

\* A route is answered by a service or by the faucet.
LEMMA RouteAt ==
    ASSUME NEW route \in Offered
    PROVE  route.at \in Dir \cup {"faucet"} /\ route.calls \in BOOLEAN
<1>1. CASE route \in EvmRoutes
    BY <1>1, EvmRouteAt DEF Dir
<1>2. CASE route \in SolanaRoutes
    BY <1>2 DEF SolanaRoutes, On, Dir, Chain
<1>3. CASE route \in TronRoutes
    BY <1>3 DEF TronRoutes, On, Dir, Chain
<1>4. CASE route \in FaucetRoutes
    BY <1>4 DEF FaucetRoutes, On
<1>5. CASE route = LoginRoute
    BY <1>5 DEF LoginRoute, Dir, EvmService
<1> QED
    BY <1>1, <1>2, <1>3, <1>4, <1>5, ServerAssumption DEF Route

----------------------------------------------------------------------------
(* The invariant. *)

\* A request under way.
Underway ==
    [step : Step \ {"idle"}, proc : Process, at : Dir, calls : BOOLEAN,
     mutex : Dir \cup {"none"}, gate : Limiter,
     slot : {"reads", "writes", "none"}, operator : BOOLEAN]

TypeInv ==
    /\ mode \in Mode /\ faucet \in BOOLEAN
    /\ lock \in [Dir -> Process \cup {None}]
    /\ phase \in [Process -> Phase]
    /\ open \in [Process -> SUBSET Dir]
    /\ alive \in [Process -> SUBSET Dir]
    /\ accountsMu \in [Process -> Request \cup {None}]
    /\ shuttingDown \in [Process -> BOOLEAN]
    /\ abandoned \in [Process -> BOOLEAN]
    /\ req \in [Request -> Underway \cup {Idle}]

\* Handlers may be running: the server listens, drains, or stops without them.
Live(p) == phase[p] \in {"serving", "draining"} \/ abandoned[p]

\* What a process has open at each point of run(): a prefix of the start order
\* until it listens, at least all of it while it serves, and the accounts with
\* their networks or without until they are sealed.  It holds the lock of
\* everything it has open, and the root's is the last it gives back.
ProcessPart ==
    \A p \in Process :
        /\ phase[p] # "stopping" => ~shuttingDown[p] /\ ~abandoned[p]
        /\ phase[p] = "down" => open[p] = {}
        /\ phase[p] = "starting" => \E n \in 0..Len(StartOrder) : open[p] = Opened(n)
        /\ phase[p] \in {"serving", "draining"} => Opened(Len(StartOrder)) \subseteq open[p]
        /\ Live(p) /\ ~shuttingDown[p] =>
              /\ {"root", "linked"} \subseteq open[p]
              /\ "account" \in open[p] <=> "child" \in open[p]
        /\ shuttingDown[p] => accountsMu[p] = None
        /\ alive[p] \subseteq open[p] \cap EvmService
        /\ \A d \in open[p] : lock[d] = p
        /\ open[p] # {} => "root" \in open[p]

Loads(r) == req[r].step \in {"loading", "loaded"}

\* A request runs at a live process; one that loads an account finds none open and
\* one that calls a service finds it open, unless run() stops without it.
RequestPart ==
    \A r \in Request : req[r].step # "idle" =>
        LET p == req[r].proc
        IN  /\ Live(p)
            /\ req[r].step \in {"waiting", "loading", "loaded"} => req[r].at \in AccountDir
            /\ Loads(r) => AccountDir \cap open[p] = {}
            /\ req[r].step = "loaded" => lock["account"] = p
            /\ req[r].step = "calling" => req[r].calls
            /\ req[r].step \in {"working", "calling"} /\ req[r].calls =>
                  req[r].at \in open[p] \/ abandoned[p]

\* accountsMu is held by the request that loads an account.
MutexPart ==
    \A p \in Process, r \in Request : accountsMu[p] = r <=> req[r].proc = p /\ Loads(r)

\* A lock belongs to something open, or to an account half loaded.
LockPart ==
    \A d \in Dir : lock[d] # None =>
        \/ d \in open[lock[d]]
        \/ d = "account" /\ \E r \in Request : req[r].step = "loaded" /\ req[r].proc = lock[d]

ServerInv == TypeInv /\ ProcessPart /\ RequestPart /\ MutexPart /\ LockPart

LEMMA InitServerInv ==
    ASSUME Init
    PROVE  ServerInv
<1>1. TypeInv
    BY ServerAssumption DEF Init, TypeInv, Phase
<1>2. \A r \in Request : req[r].step = "idle" /\ req[r].proc = None
    BY DEF Init, Idle
<1>3. ProcessPart
    BY DEF Init, ProcessPart, Live
<1>4. RequestPart
    BY <1>2 DEF RequestPart
<1>5. MutexPart
    BY <1>2, ServerAssumption DEF Init, MutexPart, Loads
<1>6. LockPart
    BY DEF Init, LockPart
<1> QED
    BY <1>1, <1>3, <1>4, <1>5, <1>6 DEF ServerInv

----------------------------------------------------------------------------
(* Requests move. *)

LEMMA RequestIs ==
    ASSUME TypeInv, NEW r \in Request
    PROVE  /\ req[r].step \in Step
           /\ req[r].step # "idle" => req[r] \in Underway /\ req[r].proc \in Process
           /\ req[r].step = "idle" => req[r] = Idle /\ req[r].proc = None
    BY DEF TypeInv, Underway, Idle, Step

\* A request that goes on keeps everything but its step.
LEMMA Advance ==
    ASSUME TypeInv, NEW r \in Request, req[r].step # "idle", NEW step \in Step \ {"idle"},
           GoTo(r, step)
    PROVE  /\ req' \in [Request -> Underway \cup {Idle}]
           /\ \A x \in Request \ {r} : req'[x] = req[x]
           /\ req'[r].step = step /\ req'[r].proc = req[r].proc /\ req'[r].at = req[r].at
           /\ req'[r].calls = req[r].calls
           /\ req'[r].gate = req[r].gate /\ req'[r].operator = req[r].operator
<1> DEFINE q == [req[r] EXCEPT !.step = step]
<1>1. req' = [req EXCEPT ![r] = q]
    BY DEF GoTo
<1>2. /\ q \in Underway
      /\ q.step = step /\ q.proc = req[r].proc /\ q.at = req[r].at /\ q.calls = req[r].calls
      /\ q.gate = req[r].gate /\ q.operator = req[r].operator
    BY RequestIs DEF Underway
<1> HIDE DEF q
<1> QED
    BY <1>1, <1>2 DEF TypeInv

\* One that ends leaves nothing.
LEMMA Leaves ==
    ASSUME TypeInv, NEW r \in Request, Finished(r)
    PROVE  /\ req' \in [Request -> Underway \cup {Idle}]
           /\ \A x \in Request \ {r} : req'[x] = req[x]
           /\ req'[r] = Idle /\ req'[r].step = "idle" /\ req'[r].proc = None
    BY DEF TypeInv, Finished, Idle

----------------------------------------------------------------------------
(* Every step keeps the invariant: start. *)

LEMMA BootStep ==
    ASSUME ServerInv, NEW p \in Process, Boot(p)
    PROVE  ServerInv'
<1> USE DEF ServerInv
<1>1. /\ phase[p] = "down" /\ phase' = [phase EXCEPT ![p] = "starting"]
      /\ UNCHANGED <<mode, faucet, lock, open, alive, accountsMu, shuttingDown, abandoned, req>>
    BY DEF Boot, config, locks
<1>2. open[p] = Opened(0) /\ 0 \in 0..Len(StartOrder)
    BY <1>1, StartOrderIs DEF ProcessPart, Opened, TypeInv
<1>3. StartOrder' = StartOrder /\ \A n : Opened(n)' = Opened(n)
    BY <1>1 DEF StartOrder, Opened
<1>4. TypeInv'
    BY <1>1 DEF TypeInv, Phase
<1>5. \A q \in Process : Live(q)' <=> Live(q)
    BY <1>1 DEF Live, TypeInv, ProcessPart
<1>6. ProcessPart'
    BY <1>1, <1>2, <1>3, <1>5 DEF ProcessPart, TypeInv
<1>7. RequestPart'
    BY <1>1, <1>5, RequestIs DEF RequestPart, Loads
<1>8. MutexPart' /\ LockPart'
    BY <1>1 DEF MutexPart, LockPart, Loads
<1> QED
    BY <1>4, <1>6, <1>7, <1>8

LEMMA StartServiceStep ==
    ASSUME ServerInv, NEW p \in Process, StartService(p)
    PROVE  ServerInv'
<1> USE DEF ServerInv
<1> DEFINE d == NextDir(p)
<1>1. /\ phase[p] = "starting" /\ ~Started(p) /\ lock[d] = None
      /\ lock' = [lock EXCEPT ![d] = p]
      /\ open' = [open EXCEPT ![p] = @ \cup {d}]
      /\ alive' = [alive EXCEPT ![p] = @ \cup Maintained(d)]
      /\ UNCHANGED <<mode, faucet, phase, accountsMu, shuttingDown, abandoned, req>>
    BY DEF StartService, config
<1>2. PICK n \in 0..Len(StartOrder) : open[p] = Opened(n)
    BY <1>1 DEF ProcessPart
<1>3. n \in 0..(Len(StartOrder) - 1) /\ d = StartOrder[n + 1]
    BY <1>1, <1>2, OpenedCount, StartOrderIs DEF Started, NextDir, TypeInv
<1>4. /\ open[p] \cup {d} = Opened(n + 1) /\ d \notin open[p] /\ d \in Dir
      /\ Maintained(d) \subseteq (open[p] \cup {d}) \cap EvmService
      /\ n + 1 \in 0..Len(StartOrder)
    BY <1>2, <1>3, OpenedNext, StartOrderIs DEF TypeInv
<1>5. "root" \in open[p] \cup {d}
    BY <1>4, OpenedRoot, StartOrderIs DEF TypeInv
<1>6. StartOrder' = StartOrder /\ \A i : Opened(i)' = Opened(i)
    BY <1>1 DEF StartOrder, Opened
<1> HIDE DEF d
<1>7. TypeInv'
    BY <1>1, <1>4 DEF TypeInv, EvmService, Dir
<1>8. \A q \in Process : Live(q)' <=> Live(q)
    BY <1>1 DEF Live
<1>9. ~Live(p)
    BY <1>1 DEF Live, ProcessPart
<1>10. \A q \in Process \ {p} : d \notin open[q]
    BY <1>1, <1>4, ServerAssumption DEF ProcessPart, TypeInv
<1>11. ProcessPart'
    <2> SUFFICES ASSUME NEW q \in Process
                 PROVE  ProcessPart!(q)'
        BY DEF ProcessPart
    <2>1. CASE q = p
        BY <1>1, <1>4, <1>5, <1>6, <1>8, <1>9, <2>1 DEF ProcessPart, TypeInv
    <2>2. CASE q # p
        BY <1>1, <1>4, <1>6, <1>8, <1>10, <2>2 DEF ProcessPart, TypeInv
    <2> QED
        BY <2>1, <2>2
<1>12. RequestPart'
    <2> SUFFICES ASSUME NEW r \in Request, req[r].step # "idle"
                 PROVE  RequestPart!(r)'
        BY <1>1 DEF RequestPart
    <2>1. req[r].proc \in Process /\ req[r].proc # p
        BY <1>9, RequestIs DEF RequestPart
    <2>2. req[r].step = "loaded" => d # "account"
        BY <1>1, <2>1, ServerAssumption DEF RequestPart
    <2> QED
        BY <1>1, <1>4, <1>8, <2>1, <2>2 DEF RequestPart, Loads, TypeInv, Dir, EvmService
<1>13. MutexPart'
    BY <1>1 DEF MutexPart, Loads
<1>14. LockPart'
    BY <1>1, <1>4 DEF LockPart, TypeInv
<1> QED
    BY <1>7, <1>11, <1>12, <1>13, <1>14

LEMMA ListenStep ==
    ASSUME ServerInv, NEW p \in Process, Listen(p)
    PROVE  ServerInv'
<1> USE DEF ServerInv
<1>1. /\ phase[p] = "starting" /\ Started(p) /\ phase' = [phase EXCEPT ![p] = "serving"]
      /\ UNCHANGED <<mode, faucet, lock, open, alive, accountsMu, shuttingDown, abandoned, req>>
    BY DEF Listen, config, locks
<1>2. open[p] = Opened(Len(StartOrder))
    BY <1>1, OpenedCount DEF ProcessPart, Started, TypeInv
<1>3. /\ {"root", "linked"} \subseteq open[p]
      /\ "account" \in open[p] <=> "child" \in open[p]
    BY <1>2, OpenedAll DEF TypeInv
<1>4. StartOrder' = StartOrder /\ \A i : Opened(i)' = Opened(i)
    BY <1>1 DEF StartOrder, Opened
<1>5. TypeInv'
    BY <1>1 DEF TypeInv, Phase
<1>6. \A q \in Process : (Live(q) => Live(q)') /\ (q # p => (Live(q)' <=> Live(q)))
    BY <1>1 DEF Live, TypeInv, ProcessPart
<1>7. ProcessPart'
    <2> SUFFICES ASSUME NEW q \in Process
                 PROVE  ProcessPart!(q)'
        BY DEF ProcessPart
    <2>1. CASE q = p
        BY <1>1, <1>2, <1>3, <1>4, <2>1 DEF ProcessPart, TypeInv
    <2>2. CASE q # p
        BY <1>1, <1>4, <1>6, <2>2 DEF ProcessPart, TypeInv
    <2> QED
        BY <2>1, <2>2
<1>8. RequestPart'
    BY <1>1, <1>6, RequestIs DEF RequestPart, Loads
<1>9. MutexPart' /\ LockPart'
    BY <1>1 DEF MutexPart, LockPart, Loads
<1> QED
    BY <1>5, <1>7, <1>8, <1>9

LEMMA StartFailsStep ==
    ASSUME ServerInv, NEW p \in Process, StartFails(p)
    PROVE  ServerInv'
<1> USE DEF ServerInv
<1>1. /\ phase[p] = "starting" /\ phase' = [phase EXCEPT ![p] = "stopping"]
      /\ UNCHANGED <<mode, faucet, lock, open, alive, accountsMu, shuttingDown, abandoned, req>>
    BY DEF StartFails, config, locks
<1>2. StartOrder' = StartOrder /\ \A i : Opened(i)' = Opened(i)
    BY <1>1 DEF StartOrder, Opened
<1>3. TypeInv'
    BY <1>1 DEF TypeInv, Phase
<1>4. \A q \in Process : Live(q)' <=> Live(q)
    BY <1>1 DEF Live, TypeInv
<1>5. ProcessPart'
    BY <1>1, <1>2, <1>4 DEF ProcessPart, TypeInv
<1>6. RequestPart'
    BY <1>1, <1>4, RequestIs DEF RequestPart, Loads
<1>7. MutexPart' /\ LockPart'
    BY <1>1 DEF MutexPart, LockPart, Loads
<1> QED
    BY <1>3, <1>5, <1>6, <1>7

----------------------------------------------------------------------------
(* Requests. *)

\* A step that leaves processes and locks alone.
StillRunning ==
    UNCHANGED <<mode, faucet, lock, phase, open, alive, shuttingDown, abandoned>>

LEMMA StillRunningIs ==
    ASSUME StillRunning
    PROVE  /\ StartOrder' = StartOrder /\ \A n : Opened(n)' = Opened(n)
           /\ \A p \in Process : Live(p)' <=> Live(p)
    BY DEF StillRunning, StartOrder, Opened, Live

LEMMA MinuteStep ==
    ASSUME ServerInv, NEW p \in Process, Minute(p)
    PROVE  ServerInv'
<1>1. UNCHANGED <<mode, faucet, lock, phase, open, alive, accountsMu, shuttingDown, abandoned, req>>
    BY DEF Minute, config, locks
<1>2. TypeInv' /\ MutexPart' /\ LockPart'
    BY <1>1 DEF ServerInv, TypeInv, MutexPart, LockPart, Loads
<1>3. ProcessPart'
    BY <1>1, StillRunningIs DEF ServerInv, ProcessPart, StillRunning
<1>4. RequestPart'
    BY <1>1, StillRunningIs, RequestIs DEF ServerInv, RequestPart, Loads, StillRunning
<1> QED
    BY <1>2, <1>3, <1>4 DEF ServerInv

\* An admitted request, with a gate of its own.
LEMMA AdmittedIs ==
    ASSUME TypeInv, NEW p \in Process, NEW route \in Offered, NEW gate \in Limiter, NEW who
    PROVE  LET a == Admitted(p, route, gate, who)
           IN  /\ a \in Underway
               /\ a.proc = p /\ a.step \in {"waiting", "working"}
               /\ a.step = "waiting" => a.at \in AccountDir
               /\ a.step = "working" /\ a.calls =>
                     a.at \in {"root", "linked", "solana", "tron"} \/ (faucet /\ a.at = "account")
               /\ a.gate = gate /\ (a.operator <=> who = "operator")
<1>1. /\ route.at \in {"root", "linked", "account", "child", "solana", "tron", "faucet"}
      /\ route.calls \in BOOLEAN
    BY RouteAt DEF Dir, EvmService, Chain
<1>2. faucet \in BOOLEAN
    BY DEF TypeInv
<1> DEFINE step == IF OfAccount(route) THEN "waiting" ELSE "working"
           at == Service(route)
           mutex == Mutex(route)
           calls == route.calls /\ (route.at = "faucet" => faucet)
           slot == IF Limited(route) THEN Slot(route) ELSE "none"
           own == who = "operator"
<1>3. step \in Step \ {"idle"} /\ at \in Dir /\ calls \in BOOLEAN /\ mutex \in Dir \cup {"none"}
    BY <1>1, <1>2 DEF Step, Dir, EvmService, Chain, Service, Mutex
<1>4. slot \in {"reads", "writes", "none"}
    BY DEF Slot
<1>5. /\ step \in {"waiting", "working"}
      /\ step = "waiting" => at \in AccountDir
      /\ step = "working" /\ calls =>
            at \in {"root", "linked", "solana", "tron"} \/ (faucet /\ at = "account")
    BY <1>1 DEF OfAccount, AccountDir, Service
<1>6. Admitted(p, route, gate, who) =
          [step |-> step, proc |-> p, at |-> at, calls |-> calls, mutex |-> mutex,
           gate |-> gate, slot |-> slot, operator |-> own]
    BY DEF Admitted
<1> own \in BOOLEAN
    OBVIOUS
<1> HIDE DEF step, at, calls, mutex, slot, own
<1>7. Admitted(p, route, gate, who) \in Underway
    BY <1>3, <1>4, <1>6 DEF Underway
<1> DEFINE a == Admitted(p, route, gate, who)
<1>8. a.proc = p /\ a.step = step /\ a.at = at /\ a.gate = gate
      /\ a.calls = calls /\ a.operator = own
    BY <1>6
<1> HIDE DEF a
<1>9. a.operator <=> who = "operator"
    BY <1>8 DEF own
<1> QED
    BY <1>5, <1>7, <1>8, <1>9 DEF a

LEMMA GateRange ==
    ASSUME NEW m \in Mode, NEW route, NEW who
    PROVE  Gate(m, route, who) \in Limiter \cup {"answered", "unauthorized", "forbidden"}
<1>1. AccessGate("token", route, who) \in Limiter \cup {"answered", "unauthorized"}
    BY DEF AccessGate, publicTraffic, Limiter
<1>2. AccessGate(m, route, who) \in Limiter \cup {"answered", "unauthorized"}
    BY DEF AccessGate, publicTraffic, Limiter, Mode
<1>3. SharedGate(route, who) \in Limiter \cup {"answered", "unauthorized", "forbidden"}
    BY <1>1 DEF SharedGate, Limiter
<1> QED
    BY <1>2, <1>3 DEF Gate

\* What an answer says of the gate and the limiter.
LEMMA AnswerIs ==
    ASSUME NEW p, NEW route, NEW counted,
           NEW gate \in Limiter \cup {"answered", "unauthorized", "forbidden"}
    PROVE  LET answer == Answer(p, route, gate, counted)
           IN  /\ answer = "admitted" => gate \in Limiter
               /\ answer \in {"rate", "busy"} => gate \in Limiter
               /\ answer = "rate" => OverRate(p, gate)
               /\ answer = "busy" => Limited(route) /\ ~OverRate(p, gate) /\ Busy(p, gate, Slot(route))
               /\ answer = "admitted" /\ Limited(route) => ~OverRate(p, gate)
    BY DEF Answer, Limiter

LEMMA ArriveStep ==
    ASSUME ServerInv, NEW r \in Request, NEW p \in Process, NEW route \in Offered, NEW who \in Who,
           Arrive(r, p, route, who)
    PROVE  ServerInv'
<1> USE DEF ServerInv
<1> DEFINE gate == Gate(mode, route, who)
           answer == Answer(p, route, gate, Counted(mode, route, who))
           a == Admitted(p, route, gate, who)
<1>1. /\ phase[p] = "serving" /\ req[r] = Idle
      /\ req' = IF answer = "admitted" THEN [req EXCEPT ![r] = a] ELSE req
      /\ StillRunning /\ accountsMu' = accountsMu
    BY DEF Arrive, config, locks, StillRunning
<1>2. CASE answer # "admitted"
    <2>1. UNCHANGED <<mode, faucet, lock, phase, open, alive, accountsMu, shuttingDown, abandoned, req>>
        BY <1>1, <1>2 DEF StillRunning
    <2>2. TypeInv' /\ MutexPart' /\ LockPart'
        BY <2>1 DEF TypeInv, MutexPart, LockPart, Loads
    <2>3. ProcessPart'
        BY <2>1, StillRunningIs DEF ProcessPart, StillRunning
    <2>4. RequestPart'
        BY <2>1, StillRunningIs, RequestIs DEF RequestPart, Loads, StillRunning
    <2> QED
        BY <2>2, <2>3, <2>4
<1>3. CASE answer = "admitted"
    <2>1. gate \in Limiter
        BY <1>3, GateRange, AnswerIs DEF TypeInv
    <2>2. /\ a \in Underway
          /\ a.proc = p /\ a.step \in {"waiting", "working"}
          /\ a.step = "waiting" => a.at \in AccountDir
          /\ a.step = "working" /\ a.calls =>
                a.at \in {"root", "linked", "solana", "tron"} \/ (faucet /\ a.at = "account")
        BY <2>1, AdmittedIs
    <2>3. req' = [req EXCEPT ![r] = a]
        BY <1>1, <1>3
    <2> HIDE DEF a, gate, answer
    <2>4. /\ req' \in [Request -> Underway \cup {Idle}]
          /\ \A x \in Request \ {r} : req'[x] = req[x]
          /\ req'[r] = a
        BY <2>2, <2>3 DEF TypeInv
    <2>5. TypeInv'
        BY <1>1, <2>4 DEF TypeInv, StillRunning
    <2>6. ProcessPart'
        BY <1>1, StillRunningIs DEF ProcessPart, StillRunning
    <2>7. RequestPart'
        <3> SUFFICES ASSUME NEW x \in Request, req'[x].step # "idle"
                     PROVE  RequestPart!(x)'
            BY DEF RequestPart
        <3>1. CASE x = r
            <4>1. a.step = "working" /\ a.calls => a.at \in open[p]
                BY <1>1, <2>2, OpenedAll DEF ProcessPart, TypeInv
            <4>2. Live(p)
                BY <1>1 DEF Live
            <4> QED
                BY <1>1, <2>2, <2>4, <3>1, <4>1, <4>2, StillRunningIs DEF Loads, StillRunning
        <3>2. CASE x # r
            BY <1>1, <2>4, <3>2, StillRunningIs, RequestIs DEF RequestPart, Loads, StillRunning
        <3> QED
            BY <3>1, <3>2
    <2>8. MutexPart'
        BY <1>1, <2>2, <2>4, ServerAssumption DEF MutexPart, Loads, Idle
    <2>9. LockPart'
        BY <1>1, <2>2, <2>4 DEF LockPart, StillRunning, Idle
    <2> QED
        BY <2>5, <2>6, <2>7, <2>8, <2>9
<1> QED
    BY <1>2, <1>3

LEMMA EnterAccountsStep ==
    ASSUME ServerInv, NEW r \in Request, EnterAccounts(r)
    PROVE  ServerInv'
<1> USE DEF ServerInv
<1> DEFINE p == req[r].proc
<1>1. /\ req[r].step = "waiting" /\ accountsMu[p] = None /\ p \in Process
      /\ StillRunning
      /\ \/ shuttingDown[p] /\ Finished(r) /\ accountsMu' = accountsMu
         \/ /\ ~shuttingDown[p] /\ "child" \in open[p]
            /\ GoTo(r, "working") /\ accountsMu' = accountsMu
         \/ /\ ~shuttingDown[p] /\ "child" \notin open[p]
            /\ GoTo(r, "loading") /\ accountsMu' = [accountsMu EXCEPT ![p] = r]
    BY RequestIs DEF EnterAccounts, config, locks, StillRunning
<1>2. /\ Live(p) /\ req[r].at \in AccountDir
      /\ ~shuttingDown[p] => ("account" \in open[p] <=> "child" \in open[p])
    BY <1>1 DEF RequestPart, ProcessPart
<1>3. CASE shuttingDown[p] /\ Finished(r) /\ accountsMu' = accountsMu
    <2>1. /\ req' \in [Request -> Underway \cup {Idle}]
          /\ \A x \in Request \ {r} : req'[x] = req[x]
          /\ req'[r].step = "idle" /\ req'[r].proc = None
        BY <1>3, Leaves
    <2>2. TypeInv'
        BY <1>1, <1>3, <2>1 DEF TypeInv, StillRunning
    <2>3. ProcessPart'
        BY <1>1, <1>3, StillRunningIs DEF ProcessPart, StillRunning
    <2>4. RequestPart'
        BY <1>1, <1>3, <2>1, StillRunningIs, RequestIs DEF RequestPart, Loads, StillRunning
    <2>5. MutexPart' /\ LockPart'
        BY <1>1, <1>3, <2>1, ServerAssumption DEF MutexPart, LockPart, Loads, StillRunning
    <2> QED
        BY <2>2, <2>3, <2>4, <2>5
<1>4. CASE ~shuttingDown[p] /\ "child" \in open[p] /\ GoTo(r, "working") /\ accountsMu' = accountsMu
    <2>1. /\ req' \in [Request -> Underway \cup {Idle}]
          /\ \A x \in Request \ {r} : req'[x] = req[x]
          /\ req'[r].step = "working" /\ req'[r].proc = p /\ req'[r].at = req[r].at
        BY <1>1, <1>4, Advance DEF Step
    <2>2. TypeInv'
        BY <1>1, <1>4, <2>1 DEF TypeInv, StillRunning
    <2>3. ProcessPart'
        BY <1>1, <1>4, StillRunningIs DEF ProcessPart, StillRunning
    <2>4. RequestPart'
        BY <1>1, <1>2, <1>4, <2>1, StillRunningIs, RequestIs
        DEF RequestPart, Loads, StillRunning, AccountDir
    <2>5. MutexPart' /\ LockPart'
        BY <1>1, <1>4, <2>1, ServerAssumption DEF MutexPart, LockPart, Loads, StillRunning
    <2> QED
        BY <2>2, <2>3, <2>4, <2>5
<1>5. CASE /\ ~shuttingDown[p] /\ "child" \notin open[p] /\ GoTo(r, "loading")
           /\ accountsMu' = [accountsMu EXCEPT ![p] = r]
    <2>1. /\ req' \in [Request -> Underway \cup {Idle}]
          /\ \A x \in Request \ {r} : req'[x] = req[x]
          /\ req'[r].step = "loading" /\ req'[r].proc = p /\ req'[r].at = req[r].at
        BY <1>1, <1>5, Advance DEF Step
    <2>2. TypeInv'
        BY <1>1, <1>5, <2>1 DEF TypeInv, StillRunning
    <2>3. ProcessPart'
        BY <1>1, <1>5, StillRunningIs DEF ProcessPart, StillRunning, TypeInv
    <2>4. RequestPart'
        BY <1>1, <1>2, <1>5, <2>1, StillRunningIs, RequestIs
        DEF RequestPart, Loads, StillRunning, AccountDir
    <2>5. MutexPart'
        <3>1. \A q \in Process, x \in Request :
                  accountsMu'[q] = x <=> (q = p /\ x = r) \/ (q # p /\ accountsMu[q] = x)
            BY <1>1, <1>5 DEF TypeInv
        <3>2. \A x \in Request : req[x].proc = p => ~Loads(x)
            BY <1>1, ServerAssumption DEF MutexPart
        <3> QED
            BY <1>1, <2>1, <3>1, <3>2 DEF MutexPart, Loads
    <2>6. LockPart'
        BY <1>1, <1>5, <2>1 DEF LockPart, StillRunning
    <2> QED
        BY <2>2, <2>3, <2>4, <2>5, <2>6
<1> QED
    BY <1>1, <1>3, <1>4, <1>5

\* The account's directory is locked; nobody had it open.
LEMMA LoadAccountStep ==
    ASSUME ServerInv, NEW r \in Request, LoadAccount(r)
    PROVE  ServerInv'
<1> USE DEF ServerInv
<1> DEFINE p == req[r].proc
<1>1. /\ req[r].step = "loading" /\ p \in Process
      /\ lock["account"] = None /\ lock' = [lock EXCEPT !["account"] = p]
      /\ GoTo(r, "loaded")
      /\ UNCHANGED <<mode, faucet, open, alive, phase, accountsMu, shuttingDown, abandoned>>
    BY RequestIs DEF LoadAccount, config
<1>2. /\ req' \in [Request -> Underway \cup {Idle}]
      /\ \A x \in Request \ {r} : req'[x] = req[x]
      /\ req'[r].step = "loaded" /\ req'[r].proc = p /\ req'[r].at = req[r].at
    BY <1>1, Advance DEF Step
<1>3. /\ StartOrder' = StartOrder /\ \A n : Opened(n)' = Opened(n)
      /\ \A q \in Process : Live(q)' <=> Live(q)
    BY <1>1 DEF StartOrder, Opened, Live
<1>4. "account" \in Dir
    BY DEF Dir, EvmService
<1>5. TypeInv'
    BY <1>1, <1>2, <1>4 DEF TypeInv
<1>6. ProcessPart'
    <2>1. \A q \in Process : \A d \in open[q] : lock'[d] = q
        BY <1>1, <1>4, ServerAssumption DEF ProcessPart, TypeInv
    <2> QED
        BY <1>1, <1>3, <2>1 DEF ProcessPart
<1>7. RequestPart'
    <2>1. \A x \in Request \ {r} : req[x].step # "loaded"
        BY <1>1, RequestIs, ServerAssumption DEF RequestPart
    <2>2. lock'["account"] = p
        BY <1>1, <1>4 DEF TypeInv
    <2> QED
        BY <1>1, <1>2, <1>3, <2>1, <2>2, RequestIs DEF RequestPart, Loads
<1>8. MutexPart'
    BY <1>1, <1>2 DEF MutexPart, Loads
<1>9. LockPart'
    <2> SUFFICES ASSUME NEW d \in Dir, lock'[d] # None
                 PROVE  LockPart!(d)'
        BY DEF LockPart
    <2>1. CASE d = "account"
        BY <1>1, <1>2, <1>4, <2>1 DEF TypeInv
    <2>2. CASE d # "account"
        BY <1>1, <1>2, <2>2 DEF LockPart, TypeInv
    <2> QED
        BY <2>1, <2>2
<1> QED
    BY <1>5, <1>6, <1>7, <1>8, <1>9

LEMMA LoadNetworksStep ==
    ASSUME ServerInv, NEW r \in Request, LoadNetworks(r)
    PROVE  ServerInv'
<1> USE DEF ServerInv
<1> DEFINE p == req[r].proc
<1>1. /\ req[r].step = "loaded" /\ p \in Process
      /\ lock["child"] = None /\ lock' = [lock EXCEPT !["child"] = p]
      /\ open' = [open EXCEPT ![p] = @ \cup AccountDir]
      /\ alive' = [alive EXCEPT ![p] = @ \cup AccountDir]
      /\ accountsMu' = [accountsMu EXCEPT ![p] = None]
      /\ GoTo(r, "working")
      /\ UNCHANGED <<mode, faucet, phase, shuttingDown, abandoned>>
    BY RequestIs DEF LoadNetworks, config
<1>2. /\ req' \in [Request -> Underway \cup {Idle}]
      /\ \A x \in Request \ {r} : req'[x] = req[x]
      /\ req'[r].step = "working" /\ req'[r].proc = p /\ req'[r].at = req[r].at
    BY <1>1, Advance DEF Step
<1>3. /\ StartOrder' = StartOrder /\ \A n : Opened(n)' = Opened(n)
      /\ \A q \in Process : Live(q)' <=> Live(q)
    BY <1>1 DEF StartOrder, Opened, Live
<1>4. AccountDir \subseteq EvmService /\ EvmService \subseteq Dir /\ "child" \in AccountDir
    BY DEF Dir, EvmService, AccountDir
<1>5. /\ Live(p) /\ accountsMu[p] = r /\ ~shuttingDown[p]
      /\ lock["account"] = p /\ AccountDir \cap open[p] = {}
      /\ req[r].at \in AccountDir
    BY <1>1, ServerAssumption DEF RequestPart, ProcessPart, MutexPart, Loads
<1>6. /\ \A q \in Process \ {p} : open'[q] = open[q] /\ alive'[q] = alive[q]
      /\ open'[p] = open[p] \cup AccountDir /\ alive'[p] = alive[p] \cup AccountDir
      /\ \A d \in Dir \ {"child"} : lock'[d] = lock[d]
      /\ lock'["child"] = p
    BY <1>1, <1>4 DEF TypeInv
<1>7. TypeInv'
    BY <1>1, <1>2, <1>4 DEF TypeInv
<1>8. \A q \in Process : \A d \in open'[q] : lock'[d] = q
    <2> SUFFICES ASSUME NEW q \in Process, NEW d \in open'[q]
                 PROVE  lock'[d] = q
        OBVIOUS
    <2>1. d \in Dir
        BY <1>7 DEF TypeInv
    <2>2. CASE d \in open[q]
        BY <1>1, <1>6, <2>1, <2>2, ServerAssumption DEF ProcessPart
    <2>3. CASE d \notin open[q]
        BY <1>5, <1>6, <2>1, <2>3 DEF AccountDir
    <2> QED
        BY <2>2, <2>3
<1>9. ProcessPart'
    <2> SUFFICES ASSUME NEW q \in Process
                 PROVE  ProcessPart!(q)'
        BY DEF ProcessPart
    <2>1. CASE q = p
        <3>1. phase[p] \notin {"down", "starting"}
            BY <1>1, <1>5 DEF Live, ProcessPart
        <3>2. {"root", "linked"} \subseteq open[p]
            BY <1>1, <1>5 DEF ProcessPart
        <3> QED
            BY <1>1, <1>3, <1>4, <1>5, <1>6, <1>8, <2>1, <3>1, <3>2 DEF ProcessPart, AccountDir
    <2>2. CASE q # p
        <3>1. accountsMu'[q] = accountsMu[q]
            BY <1>1, <2>2 DEF TypeInv
        <3> QED
            BY <1>1, <1>3, <1>6, <1>8, <2>2, <3>1 DEF ProcessPart
    <2> QED
        BY <2>1, <2>2
<1>10. \A x \in Request \ {r} : req[x].proc = p => ~Loads(x)
    BY <1>1, <1>5 DEF MutexPart
<1>11. RequestPart'
    <2> SUFFICES ASSUME NEW x \in Request, req'[x].step # "idle"
                 PROVE  RequestPart!(x)'
        BY DEF RequestPart
    <2>1. CASE x = r
        BY <1>1, <1>2, <1>3, <1>5, <1>6, <2>1 DEF Loads
    <2>2. CASE x # r
        <3>1. req'[x] = req[x] /\ req[x].proc \in Process
            BY <1>2, <2>2, RequestIs
        <3>2. open[req[x].proc] \subseteq open'[req[x].proc]
            BY <1>6, <3>1
        <3>3. Loads(x) => open'[req[x].proc] = open[req[x].proc]
            BY <1>6, <1>10, <2>2, <3>1
        <3>4. lock'["account"] = lock["account"]
            BY <1>6 DEF Dir, EvmService
        <3> QED
            BY <1>1, <1>3, <3>1, <3>2, <3>3, <3>4 DEF RequestPart, Loads
    <2> QED
        BY <2>1, <2>2
<1>12. MutexPart'
    <2>1. \A q \in Process : accountsMu'[q] = IF q = p THEN None ELSE accountsMu[q]
        BY <1>1 DEF TypeInv
    <2> QED
        BY <1>1, <1>2, <1>10, <2>1, ServerAssumption DEF MutexPart, Loads
<1>13. LockPart'
    <2> SUFFICES ASSUME NEW d \in Dir, lock'[d] # None
                 PROVE  LockPart!(d)'
        BY DEF LockPart
    <2>1. CASE d \in AccountDir
        <3>1. lock'[d] = p
            BY <1>4, <1>5, <1>6, <2>1 DEF AccountDir
        <3> QED
            BY <1>6, <2>1, <3>1
    <2>2. CASE d \notin AccountDir
        <3>1. lock'[d] = lock[d] /\ lock[d] \in Process
            BY <1>4, <1>6, <2>2 DEF TypeInv
        <3>2. d \in open[lock[d]]
            BY <2>2, <3>1 DEF LockPart, AccountDir
        <3> QED
            BY <1>6, <3>1, <3>2
    <2> QED
        BY <2>1, <2>2
<1> QED
    BY <1>7, <1>9, <1>11, <1>12, <1>13

LEMMA LoadFailsStep ==
    ASSUME ServerInv, NEW r \in Request, LoadFails(r)
    PROVE  ServerInv'
<1> USE DEF ServerInv
<1> DEFINE p == req[r].proc
<1>1. /\ Loads(r) /\ p \in Process
      /\ lock' = IF req[r].step = "loaded" THEN [lock EXCEPT !["account"] = None] ELSE lock
      /\ accountsMu' = [accountsMu EXCEPT ![p] = None]
      /\ Finished(r)
      /\ UNCHANGED <<mode, faucet, open, alive, phase, shuttingDown, abandoned>>
    BY RequestIs DEF LoadFails, config, Loads
<1>2. /\ req' \in [Request -> Underway \cup {Idle}]
      /\ \A x \in Request \ {r} : req'[x] = req[x]
      /\ req'[r].step = "idle" /\ req'[r].proc = None
    BY <1>1, Leaves
<1>3. /\ StartOrder' = StartOrder /\ \A n : Opened(n)' = Opened(n)
      /\ \A q \in Process : Live(q)' <=> Live(q)
    BY <1>1 DEF StartOrder, Opened, Live
<1>4. "account" \in Dir /\ "account" \in AccountDir
    BY DEF Dir, EvmService, AccountDir
<1>5. /\ accountsMu[p] = r /\ AccountDir \cap open[p] = {}
      /\ req[r].step = "loaded" => lock["account"] = p
    BY <1>1 DEF RequestPart, MutexPart, Loads
<1>6. \A x \in Request \ {r} : req[x].proc = p => ~Loads(x)
    BY <1>1, <1>5 DEF MutexPart
<1>7. \A q \in Process : accountsMu'[q] = IF q = p THEN None ELSE accountsMu[q]
    BY <1>1 DEF TypeInv
<1>8. /\ \A d \in Dir \ {"account"} : lock'[d] = lock[d]
      /\ lock'["account"] = IF req[r].step = "loaded" THEN None ELSE lock["account"]
    BY <1>1, <1>4 DEF TypeInv
<1>9. TypeInv'
    BY <1>1, <1>2, <1>4 DEF TypeInv
<1>10. ProcessPart'
    <2>1. ASSUME NEW q \in Process, NEW d \in open[q]
          PROVE  lock'[d] = q
        <3>1. d \in Dir /\ lock[d] = q
            BY DEF ProcessPart, TypeInv
        <3> QED
            BY <1>4, <1>5, <1>8, <3>1
    <2> QED
        BY <1>1, <1>3, <1>7, <2>1 DEF ProcessPart
<1>11. RequestPart'
    <2> SUFFICES ASSUME NEW x \in Request, req'[x].step # "idle"
                 PROVE  RequestPart!(x)'
        BY DEF RequestPart
    <2>1. x # r /\ req'[x] = req[x] /\ req[x].proc \in Process
        BY <1>2, RequestIs
    <2>2. req[x].step = "loaded" => lock'["account"] = lock["account"]
        BY <1>1, <1>5, <1>6, <1>8, <2>1 DEF RequestPart, Loads
    <2> QED
        BY <1>1, <1>3, <2>1, <2>2 DEF RequestPart, Loads
<1>12. MutexPart'
    BY <1>1, <1>2, <1>6, <1>7, ServerAssumption DEF MutexPart, Loads
<1>13. LockPart'
    <2> SUFFICES ASSUME NEW d \in Dir, lock'[d] # None
                 PROVE  LockPart!(d)'
        BY DEF LockPart
    <2>1. lock'[d] = lock[d]
        BY <1>8
    <2>2. CASE d \in open[lock[d]]
        BY <1>1, <2>1, <2>2
    <2>3. CASE d \notin open[lock[d]]
        <3>1. PICK x \in Request : d = "account" /\ req[x].step = "loaded" /\ req[x].proc = lock[d]
            BY <2>1, <2>3 DEF LockPart
        <3>2. x # r
            BY <1>8, <2>1, <3>1
        <3> QED
            BY <1>2, <2>1, <3>1, <3>2
    <2> QED
        BY <2>2, <2>3
<1> QED
    BY <1>9, <1>10, <1>11, <1>12, <1>13

LEMMA CallStep ==
    ASSUME ServerInv, NEW r \in Request, Call(r)
    PROVE  ServerInv'
<1> USE DEF ServerInv
<1>1. /\ req[r].step = "working" /\ req[r].calls /\ GoTo(r, "calling")
      /\ StillRunning /\ accountsMu' = accountsMu
    BY DEF Call, config, locks, StillRunning
<1>2. /\ req' \in [Request -> Underway \cup {Idle}]
      /\ \A x \in Request \ {r} : req'[x] = req[x]
      /\ req'[r].step = "calling" /\ req'[r].proc = req[r].proc /\ req'[r].at = req[r].at
      /\ req'[r].calls = req[r].calls
    BY <1>1, Advance DEF Step
<1>3. TypeInv'
    BY <1>1, <1>2 DEF TypeInv, StillRunning
<1>4. ProcessPart'
    BY <1>1, StillRunningIs DEF ProcessPart, StillRunning
<1>5. RequestPart'
    <2> SUFFICES ASSUME NEW x \in Request, req'[x].step # "idle"
                 PROVE  RequestPart!(x)'
        BY DEF RequestPart
    <2>1. req[x].step # "idle" /\ req[x].proc \in Process
        BY <1>1, <1>2, RequestIs
    <2>2. CASE x = r
        BY <1>1, <1>2, <2>1, <2>2, StillRunningIs DEF RequestPart, Loads, StillRunning
    <2>3. CASE x # r
        BY <1>1, <1>2, <2>1, <2>3, StillRunningIs DEF RequestPart, Loads, StillRunning
    <2> QED
        BY <2>2, <2>3
<1>6. MutexPart' /\ LockPart'
    BY <1>1, <1>2 DEF MutexPart, LockPart, Loads, StillRunning
<1> QED
    BY <1>3, <1>4, <1>5, <1>6

LEMMA FinishStep ==
    ASSUME ServerInv, NEW r \in Request, Finish(r)
    PROVE  ServerInv'
<1> USE DEF ServerInv
<1>1. /\ req[r].step \in {"working", "calling"} /\ Finished(r)
      /\ StillRunning /\ accountsMu' = accountsMu
    BY DEF Finish, config, locks, StillRunning
<1>2. /\ req' \in [Request -> Underway \cup {Idle}]
      /\ \A x \in Request \ {r} : req'[x] = req[x]
      /\ req'[r].step = "idle" /\ req'[r].proc = None
    BY <1>1, Leaves
<1>3. TypeInv'
    BY <1>1, <1>2 DEF TypeInv, StillRunning
<1>4. ProcessPart'
    BY <1>1, StillRunningIs DEF ProcessPart, StillRunning
<1>5. RequestPart'
    BY <1>1, <1>2, StillRunningIs, RequestIs DEF RequestPart, Loads, StillRunning
<1>6. MutexPart' /\ LockPart'
    BY <1>1, <1>2, ServerAssumption DEF MutexPart, LockPart, Loads, StillRunning
<1> QED
    BY <1>3, <1>4, <1>5, <1>6

----------------------------------------------------------------------------
(* Shutdown. *)

\* The requests at a process that stops listening go on.
LEMMA StopListeningIs ==
    ASSUME TypeInv, NEW p \in Process, StopListening(p)
    PROVE  /\ req' \in [Request -> Underway \cup {Idle}]
           /\ \A r \in Request : /\ req'[r].step = req[r].step /\ req'[r].proc = req[r].proc
                                /\ req'[r].at = req[r].at /\ req'[r].calls = req[r].calls
<1> DEFINE quiet(r) == [req[r] EXCEPT !.gate = "public", !.slot = "none", !.operator = FALSE]
<1>1. req' = [r \in Request |-> IF r \in Active(p) THEN quiet(r) ELSE req[r]]
    BY DEF StopListening
<1>2. ASSUME NEW r \in Request
      PROVE  /\ req'[r] \in Underway \cup {Idle}
             /\ req'[r].step = req[r].step /\ req'[r].proc = req[r].proc
             /\ req'[r].at = req[r].at /\ req'[r].calls = req[r].calls
    <2>1. CASE r \in Active(p)
        <3>1. req[r] \in Underway
            BY <2>1, RequestIs, ServerAssumption DEF Active
        <3>2. /\ quiet(r) \in Underway
              /\ quiet(r).step = req[r].step /\ quiet(r).proc = req[r].proc
              /\ quiet(r).at = req[r].at /\ quiet(r).calls = req[r].calls
            BY <3>1 DEF Underway, Limiter
        <3>3. req'[r] = quiet(r)
            BY <1>1, <2>1
        <3> HIDE DEF quiet
        <3> QED
            BY <3>2, <3>3
    <2>2. CASE r \notin Active(p)
        BY <1>1, <2>2 DEF TypeInv
    <2> QED
        BY <2>1, <2>2
<1>3. req' = [r \in Request |-> req'[r]]
    BY <1>1
<1> HIDE DEF quiet
<1> QED
    BY <1>2, <1>3

LEMMA SignalStep ==
    ASSUME ServerInv, NEW p \in Process, Signal(p)
    PROVE  ServerInv'
<1> USE DEF ServerInv
<1>1. /\ phase[p] = "serving" /\ phase' = [phase EXCEPT ![p] = "draining"]
      /\ UNCHANGED <<mode, faucet, lock, open, alive, accountsMu, shuttingDown, abandoned>>
    BY DEF Signal, config, locks
<1>2. /\ req' \in [Request -> Underway \cup {Idle}]
      /\ \A r \in Request : /\ req'[r].step = req[r].step /\ req'[r].proc = req[r].proc
                           /\ req'[r].at = req[r].at /\ req'[r].calls = req[r].calls
    BY StopListeningIs DEF Signal
<1>3. StartOrder' = StartOrder /\ \A i : Opened(i)' = Opened(i)
    BY <1>1 DEF StartOrder, Opened
<1>4. TypeInv'
    BY <1>1, <1>2 DEF TypeInv, Phase
<1>5. \A q \in Process : Live(q)' <=> Live(q)
    BY <1>1 DEF Live, TypeInv
<1>6. ProcessPart'
    BY <1>1, <1>3, <1>5 DEF ProcessPart, TypeInv
<1>7. RequestPart'
    BY <1>1, <1>2, <1>5, RequestIs DEF RequestPart, Loads
<1>8. MutexPart' /\ LockPart'
    BY <1>1, <1>2 DEF MutexPart, LockPart, Loads
<1> QED
    BY <1>4, <1>6, <1>7, <1>8

\* run() returns at once; the handlers under way are left behind.
LEMMA AcceptFailsStep ==
    ASSUME ServerInv, NEW p \in Process, AcceptFails(p)
    PROVE  ServerInv'
<1> USE DEF ServerInv
<1>1. /\ phase[p] = "serving" /\ phase' = [phase EXCEPT ![p] = "stopping"]
      /\ abandoned' = [abandoned EXCEPT ![p] = Active(p) # {}]
      /\ UNCHANGED <<mode, faucet, lock, open, alive, accountsMu, shuttingDown>>
    BY DEF AcceptFails, config, locks
<1>2. /\ req' \in [Request -> Underway \cup {Idle}]
      /\ \A r \in Request : /\ req'[r].step = req[r].step /\ req'[r].proc = req[r].proc
                           /\ req'[r].at = req[r].at /\ req'[r].calls = req[r].calls
    BY StopListeningIs DEF AcceptFails
<1>3. StartOrder' = StartOrder /\ \A i : Opened(i)' = Opened(i)
    BY <1>1 DEF StartOrder, Opened
<1>4. TypeInv'
    BY <1>1, <1>2 DEF TypeInv, Phase
<1>5. /\ \A q \in Process \ {p} : Live(q)' <=> Live(q)
      /\ Active(p) # {} => Live(p)'
      /\ Live(p)
      /\ \A q \in Process : abandoned[q] => abandoned'[q]
    BY <1>1 DEF Live, TypeInv, ProcessPart
<1>6. ProcessPart'
    <2> SUFFICES ASSUME NEW q \in Process
                 PROVE  ProcessPart!(q)'
        BY DEF ProcessPart
    <2>1. CASE q = p
        BY <1>1, <1>5, <2>1 DEF ProcessPart, TypeInv
    <2>2. CASE q # p
        BY <1>1, <1>3, <1>5, <2>2 DEF ProcessPart, TypeInv
    <2> QED
        BY <2>1, <2>2
<1>7. RequestPart'
    <2> SUFFICES ASSUME NEW r \in Request, req'[r].step # "idle"
                 PROVE  RequestPart!(r)'
        BY DEF RequestPart
    <2>1. PICK q \in Process : q = req[r].proc
        BY <1>2, RequestIs
    <2>2. Live(q)'
        BY <1>2, <1>5, <2>1 DEF RequestPart, Active
    <2> QED
        BY <1>1, <1>2, <1>5, <2>1, <2>2 DEF RequestPart, Loads
<1>8. MutexPart' /\ LockPart'
    BY <1>1, <1>2 DEF MutexPart, LockPart, Loads
<1> QED
    BY <1>4, <1>6, <1>7, <1>8

LEMMA DrainedStep ==
    ASSUME ServerInv, NEW p \in Process, Drained(p)
    PROVE  ServerInv'
<1> USE DEF ServerInv
<1>1. /\ phase[p] = "draining" /\ phase' = [phase EXCEPT ![p] = "stopping"]
      /\ abandoned' = [abandoned EXCEPT ![p] = Active(p) # {}]
      /\ UNCHANGED <<mode, faucet, lock, open, alive, accountsMu, shuttingDown, req>>
    BY DEF Drained, config, locks
<1>2. StartOrder' = StartOrder /\ \A i : Opened(i)' = Opened(i)
    BY <1>1 DEF StartOrder, Opened
<1>3. TypeInv'
    BY <1>1 DEF TypeInv, Phase
<1>4. /\ \A q \in Process \ {p} : Live(q)' <=> Live(q)
      /\ Active(p) # {} => Live(p)'
      /\ Live(p)
      /\ \A q \in Process : abandoned[q] => abandoned'[q]
    BY <1>1 DEF Live, TypeInv, ProcessPart
<1>5. ProcessPart'
    <2> SUFFICES ASSUME NEW q \in Process
                 PROVE  ProcessPart!(q)'
        BY DEF ProcessPart
    <2>1. CASE q = p
        BY <1>1, <1>4, <2>1 DEF ProcessPart, TypeInv
    <2>2. CASE q # p
        BY <1>1, <1>2, <1>4, <2>2 DEF ProcessPart, TypeInv
    <2> QED
        BY <2>1, <2>2
<1>6. RequestPart'
    <2> SUFFICES ASSUME NEW r \in Request, req[r].step # "idle"
                 PROVE  RequestPart!(r)'
        BY <1>1 DEF RequestPart
    <2>1. PICK q \in Process : q = req[r].proc
        BY RequestIs
    <2>2. Live(q)'
        BY <1>4, <2>1 DEF RequestPart, Active
    <2> QED
        BY <1>1, <1>4, <2>1, <2>2 DEF RequestPart, Loads
<1>7. MutexPart' /\ LockPart'
    BY <1>1 DEF MutexPart, LockPart, Loads
<1> QED
    BY <1>3, <1>5, <1>6, <1>7

LEMMA ShutDownAccountsStep ==
    ASSUME ServerInv, NEW p \in Process, ShutDownAccounts(p)
    PROVE  ServerInv'
<1> USE DEF ServerInv
<1>1. /\ phase[p] = "stopping" /\ accountsMu[p] = None
      /\ shuttingDown' = [shuttingDown EXCEPT ![p] = TRUE]
      /\ UNCHANGED <<mode, faucet, lock, phase, open, alive, accountsMu, abandoned, req>>
    BY DEF ShutDownAccounts, config, locks
<1>2. /\ StartOrder' = StartOrder /\ \A i : Opened(i)' = Opened(i)
      /\ \A q \in Process : Live(q)' <=> Live(q)
    BY <1>1 DEF StartOrder, Opened, Live
<1>3. TypeInv'
    BY <1>1 DEF TypeInv
<1>4. ProcessPart'
    BY <1>1, <1>2 DEF ProcessPart, TypeInv
<1>5. RequestPart'
    BY <1>1, <1>2, RequestIs DEF RequestPart, Loads
<1>6. MutexPart' /\ LockPart'
    BY <1>1 DEF MutexPart, LockPart, Loads
<1> QED
    BY <1>3, <1>4, <1>5, <1>6

LEMMA MaintenanceReturnsStep ==
    ASSUME ServerInv, NEW p \in Process, NEW d \in Dir, MaintenanceReturns(p, d)
    PROVE  ServerInv'
<1> USE DEF ServerInv
<1>1. /\ alive' = [alive EXCEPT ![p] = @ \ {d}]
      /\ UNCHANGED <<mode, faucet, lock, phase, open, accountsMu, shuttingDown, abandoned, req>>
    BY DEF MaintenanceReturns, config
<1>2. /\ StartOrder' = StartOrder /\ \A i : Opened(i)' = Opened(i)
      /\ \A q \in Process : Live(q)' <=> Live(q)
    BY <1>1 DEF StartOrder, Opened, Live
<1>3. TypeInv'
    BY <1>1 DEF TypeInv
<1>4. ProcessPart'
    BY <1>1, <1>2 DEF ProcessPart, TypeInv
<1>5. RequestPart'
    BY <1>1, <1>2, RequestIs DEF RequestPart, Loads
<1>6. MutexPart' /\ LockPart'
    BY <1>1 DEF MutexPart, LockPart, Loads
<1> QED
    BY <1>3, <1>4, <1>5, <1>6

\* EVM services are closed only after their accounts are sealed and nobody maintains
\* them, the root's last.
LEMMA CloseStep ==
    ASSUME ServerInv, NEW p \in Process, NEW d \in Dir, Close(p, d)
    PROVE  ServerInv'
<1> USE DEF ServerInv
<1>1. /\ phase[p] = "stopping" /\ d \in open[p] /\ open[p] \cap ClosedBefore(d) = {}
      /\ d \in EvmService => shuttingDown[p] /\ alive[p] = {}
      /\ lock' = [lock EXCEPT ![d] = None]
      /\ open' = [open EXCEPT ![p] = @ \ {d}]
      /\ UNCHANGED <<mode, faucet, alive, phase, accountsMu, shuttingDown, abandoned, req>>
    BY DEF Close, config, MaintenanceJoined
<1>2. /\ StartOrder' = StartOrder /\ \A i : Opened(i)' = Opened(i)
      /\ \A q \in Process : Live(q)' <=> Live(q)
    BY <1>1 DEF StartOrder, Opened, Live
<1>3. lock[d] = p /\ \A q \in Process \ {p} : d \notin open[q]
    BY <1>1 DEF ProcessPart
<1>4. /\ \A q \in Process \ {p} : open'[q] = open[q]
      /\ open'[p] = open[p] \ {d}
      /\ \A x \in Dir \ {d} : lock'[x] = lock[x]
      /\ lock'[d] = None
    BY <1>1 DEF TypeInv
<1>5. TypeInv'
    BY <1>1 DEF TypeInv
<1>6. \A q \in Process : \A x \in open'[q] : lock'[x] = q
    <2> SUFFICES ASSUME NEW q \in Process, NEW x \in open'[q]
                 PROVE  lock'[x] = q
        OBVIOUS
    <2>1. x \in open[q] /\ x # d /\ x \in Dir
        BY <1>3, <1>4 DEF TypeInv
    <2> QED
        BY <1>4, <2>1 DEF ProcessPart
<1>7. ProcessPart'
    <2> SUFFICES ASSUME NEW q \in Process
                 PROVE  ProcessPart!(q)'
        BY DEF ProcessPart
    <2>1. CASE q = p
        <3>1. Live(p) /\ ~shuttingDown[p] =>
                 /\ {"root", "linked"} \subseteq open'[p]
                 /\ "account" \in open'[p] <=> "child" \in open'[p]
            BY <1>1, <1>4 DEF ProcessPart, EvmService
        <3>2. alive[p] \subseteq open'[p] \cap EvmService
            BY <1>1, <1>4 DEF ProcessPart
        <3>3. open'[p] # {} => "root" \in open'[p]
            <4>1. CASE d = "root"
                BY <1>1, <1>4, <4>1 DEF ClosedBefore, TypeInv
            <4>2. CASE d # "root"
                BY <1>1, <1>4, <4>2 DEF ProcessPart
            <4> QED
                BY <4>1, <4>2
        <3> QED
            BY <1>1, <1>2, <1>6, <2>1, <3>1, <3>2, <3>3 DEF ProcessPart
    <2>2. CASE q # p
        BY <1>1, <1>2, <1>4, <1>6, <2>2 DEF ProcessPart
    <2> QED
        BY <2>1, <2>2
<1>8. RequestPart'
    <2> SUFFICES ASSUME NEW r \in Request, req[r].step # "idle"
                 PROVE  RequestPart!(r)'
        BY <1>1 DEF RequestPart
    <2>1. PICK q \in Process : q = req[r].proc
        BY RequestIs
    <2>2. Live(q)
        BY <2>1 DEF RequestPart
    <2>3. open'[q] \subseteq open[q] /\ (q # p => open'[q] = open[q])
        BY <1>4
    <2>4. q = p => abandoned[q]
        BY <1>1, <2>2 DEF Live
    <2>5. req[r].step = "loaded" => lock'["account"] = q
        <3> SUFFICES ASSUME req[r].step = "loaded"
                     PROVE  lock'["account"] = q
            OBVIOUS
        <3>1. lock["account"] = q /\ "account" \notin open[q]
            BY <2>1 DEF RequestPart, Loads, AccountDir
        <3>2. d # "account"
            BY <1>1, <1>3, <3>1
        <3> QED
            BY <1>4, <3>1, <3>2 DEF Dir, EvmService
    <2> QED
        BY <1>1, <1>2, <2>1, <2>2, <2>3, <2>4, <2>5 DEF RequestPart, Loads
<1>9. MutexPart'
    BY <1>1 DEF MutexPart, Loads
<1>10. LockPart'
    <2> SUFFICES ASSUME NEW x \in Dir, lock'[x] # None
                 PROVE  LockPart!(x)'
        BY DEF LockPart
    <2>1. x # d /\ lock'[x] = lock[x] /\ lock[x] \in Process
        BY <1>4 DEF TypeInv
    <2>2. open'[lock[x]] = open[lock[x]] \/ open'[lock[x]] = open[lock[x]] \ {d}
        BY <1>4, <2>1
    <2> QED
        BY <1>1, <2>1, <2>2 DEF LockPart
<1> QED
    BY <1>5, <1>7, <1>8, <1>9, <1>10

\* The system takes back the locks of a process that ends.
LEMMA GoneStep ==
    ASSUME ServerInv, NEW p \in Process, Gone(p)
    PROVE  ServerInv'
<1> USE DEF ServerInv
<1>1. /\ UNCHANGED <<mode, faucet>>
      /\ \A q \in Process \ {p} :
            /\ phase'[q] = phase[q] /\ open'[q] = open[q] /\ alive'[q] = alive[q]
            /\ accountsMu'[q] = accountsMu[q] /\ shuttingDown'[q] = shuttingDown[q]
            /\ abandoned'[q] = abandoned[q]
      /\ phase'[p] = "down" /\ open'[p] = {} /\ alive'[p] = {} /\ accountsMu'[p] = None
      /\ shuttingDown'[p] = FALSE /\ abandoned'[p] = FALSE
    BY DEF Gone, config, TypeInv
<1>2. /\ \A d \in Dir : lock'[d] = IF lock[d] = p THEN None ELSE lock[d]
      /\ \A r \in Request : req'[r] = IF req[r].proc = p THEN Idle ELSE req[r]
    BY DEF Gone, Active
<1>3. /\ StartOrder' = StartOrder /\ \A i : Opened(i)' = Opened(i)
      /\ \A q \in Process \ {p} : Live(q)' <=> Live(q)
    BY <1>1 DEF StartOrder, Opened, Live
<1>4. TypeInv'
    BY DEF Gone, config, TypeInv, Phase, Active
<1>5. p # None
    BY ServerAssumption
<1>6. ProcessPart'
    <2> SUFFICES ASSUME NEW q \in Process
                 PROVE  ProcessPart!(q)'
        BY DEF ProcessPart
    <2>1. CASE q = p
        BY <1>1, <2>1 DEF Live
    <2>2. CASE q # p
        <3>1. \A d \in open[q] : lock'[d] = q
            BY <1>2, <2>2 DEF ProcessPart, TypeInv
        <3> QED
            BY <1>1, <1>3, <2>2, <3>1 DEF ProcessPart
    <2> QED
        BY <2>1, <2>2
<1>7. RequestPart'
    <2> SUFFICES ASSUME NEW r \in Request, req'[r].step # "idle"
                 PROVE  RequestPart!(r)'
        BY DEF RequestPart
    <2>1. req'[r] = req[r] /\ req[r].proc \in Process \ {p}
        BY <1>2, RequestIs DEF Idle
    <2>2. req[r].step = "loaded" => lock'["account"] = lock["account"]
        BY <1>2, <2>1 DEF RequestPart, Dir, EvmService
    <2> QED
        BY <1>1, <1>3, <2>1, <2>2 DEF RequestPart, Loads
<1>8. MutexPart'
    <2> SUFFICES ASSUME NEW q \in Process, NEW r \in Request
                 PROVE  accountsMu'[q] = r <=> req'[r].proc = q /\ Loads(r)'
        BY DEF MutexPart
    <2>1. CASE q = p
        BY <1>1, <1>2, <2>1, ServerAssumption DEF Idle
    <2>2. CASE q # p
        BY <1>1, <1>2, <2>2, ServerAssumption DEF Idle, MutexPart, Loads
    <2> QED
        BY <2>1, <2>2
<1>9. LockPart'
    <2> SUFFICES ASSUME NEW d \in Dir, lock'[d] # None
                 PROVE  LockPart!(d)'
        BY DEF LockPart
    <2>1. lock'[d] = lock[d] /\ lock[d] \in Process \ {p}
        BY <1>2 DEF TypeInv
    <2> QED
        BY <1>1, <1>2, <2>1 DEF LockPart
<1> QED
    BY <1>4, <1>6, <1>7, <1>8, <1>9

LEMMA ServerInvNext ==
    ASSUME ServerInv, [Next]_vars
    PROVE  ServerInv'
<1>1. ASSUME NEW p \in Process, Stop(p)
      PROVE  ServerInv'
    <2>1. CASE Exit(p)
        BY <2>1, GoneStep DEF Exit
    <2>2. CASE \E d \in Dir : MaintenanceReturns(p, d) \/ Close(p, d)
        BY <2>2, MaintenanceReturnsStep, CloseStep
    <2> QED
        BY <1>1, <2>1, <2>2, DrainedStep, ShutDownAccountsStep DEF Stop
<1>2. ASSUME NEW p \in Process, Kill(p)
      PROVE  ServerInv'
    BY <1>2, GoneStep DEF Kill
<1>3. ASSUME NEW r \in Request, Serve(r)
      PROVE  ServerInv'
    BY <1>3, EnterAccountsStep, LoadAccountStep, LoadNetworksStep, LoadFailsStep, CallStep, FinishStep
    DEF Serve
<1>4. CASE UNCHANGED vars
    <2>1. UNCHANGED <<mode, faucet, lock, phase, open, alive, accountsMu, shuttingDown, abandoned, req>>
        BY <1>4 DEF vars, config, locks
    <2>2. TypeInv' /\ MutexPart' /\ LockPart'
        BY <2>1 DEF ServerInv, TypeInv, MutexPart, LockPart, Loads
    <2>3. ProcessPart'
        BY <2>1, StillRunningIs DEF ServerInv, ProcessPart, StillRunning
    <2>4. RequestPart'
        BY <2>1, StillRunningIs, RequestIs DEF ServerInv, RequestPart, Loads, StillRunning
    <2> QED
        BY <2>2, <2>3, <2>4 DEF ServerInv
<1> QED
    BY <1>1, <1>2, <1>3, <1>4, BootStep, StartServiceStep, ListenStep, StartFailsStep, SignalStep,
       AcceptFailsStep, MinuteStep, ArriveStep
    DEF Next

\* run(), its handlers and a second process keep the order of the locks and of the
\* deferred closes, whichever is signalled or killed.
THEOREM ServerInvariant == Spec => []ServerInv
    BY InitServerInv, ServerInvNext, PTL DEF Spec

----------------------------------------------------------------------------
(* What it says of the locks. *)

\* A process works in a directory only under its lock (RunMaintenance and every
\* handler that Shutdown still waits for).
THEOREM WorksUnderLock == Spec => []WorkUnderLock
<1>1. ASSUME ServerInv PROVE WorkUnderLock
    <2> USE <1>1 DEF ServerInv
    <2>1. ASSUME NEW p \in Process, NEW d \in alive[p]
          PROVE  lock[d] = p
        BY DEF ProcessPart
    <2>2. ASSUME NEW r \in Request, req[r].step = "calling"
          PROVE  lock[req[r].at] = req[r].proc \/ abandoned[req[r].proc]
        BY <2>2, RequestIs DEF RequestPart, ProcessPart
    <2> QED
        BY <2>1, <2>2 DEF WorkUnderLock
<1> QED
    BY <1>1, ServerInvariant, PTL

\* Whoever holds any lock holds the root's.
LEMMA RootFirst ==
    ASSUME ServerInv, NEW d \in Dir, lock[d] # None
    PROVE  /\ lock[d] \in Process /\ lock["root"] = lock[d]
           /\ d \in open[lock[d]] \/ \E r \in Request : req[r].step = "loaded" /\ req[r].proc = lock[d]
<1> DEFINE q == lock[d]
<1>1. q \in Process
    BY DEF ServerInv, TypeInv
<1>2. CASE d \in open[q]
    BY <1>1, <1>2 DEF ServerInv, ProcessPart
<1>3. CASE d \notin open[q]
    <2>1. PICK r \in Request : req[r].step = "loaded" /\ req[r].proc = q
        BY <1>3 DEF ServerInv, LockPart
    <2>2. Live(q) /\ accountsMu[q] = r
        BY <1>1, <2>1 DEF ServerInv, RequestPart, MutexPart, Loads
    <2>3. ~shuttingDown[q]
        BY <1>1, <2>2, ServerAssumption DEF ServerInv, ProcessPart
    <2> QED
        BY <1>1, <2>1, <2>2, <2>3 DEF ServerInv, ProcessPart
<1> QED
    BY <1>1, <1>2, <1>3

\* A lock that a load or a start needs is never somebody else's once the root's is
\* held: nothing that fails, ends or is killed leaves one behind.
THEOREM LocksNeverRefuse == Spec => []LockNeverRefuses
<1>1. ASSUME ServerInv PROVE LockNeverRefuses
    <2> USE <1>1 DEF ServerInv
    <2>1. ASSUME NEW p \in Process, phase[p] = "starting", open[p] # {}, ~Started(p)
          PROVE  lock[NextDir(p)] = None
        <3> DEFINE d == NextDir(p)
        <3>1. PICK n \in 0..Len(StartOrder) : open[p] = Opened(n)
            BY <2>1 DEF ProcessPart
        <3>2. n \in 0..(Len(StartOrder) - 1) /\ d = StartOrder[n + 1]
            BY <2>1, <3>1, OpenedCount, StartOrderIs DEF Started, NextDir, TypeInv
        <3>3. d \in Dir /\ d \notin open[p]
            BY <3>1, <3>2, OpenedNext DEF TypeInv
        <3> HIDE DEF d
        <3> SUFFICES ASSUME lock[d] # None
                     PROVE  FALSE
            BY DEF d
        <3>4. lock["root"] = p
            BY <2>1 DEF ProcessPart
        <3>5. lock[d] = p
            BY <3>3, <3>4, RootFirst
        <3>6. PICK r \in Request : req[r].step = "loaded" /\ req[r].proc = p
            BY <3>3, <3>5, RootFirst
        <3>7. Live(p)
            BY <3>6 DEF RequestPart
        <3> QED
            BY <2>1, <3>7 DEF Live, ProcessPart
    <2>2. ASSUME NEW r \in Request, Loads(r)
          PROVE  /\ req[r].proc \in Process /\ lock["root"] = req[r].proc
                 /\ AccountDir \cap open[req[r].proc] = {}
                 /\ \A x \in Request : req[x].proc = req[r].proc /\ Loads(x) => x = r
        <3>1. PICK p \in Process : p = req[r].proc
            BY <2>2, RequestIs DEF Loads
        <3>2. Live(p) /\ accountsMu[p] = r /\ AccountDir \cap open[p] = {}
            BY <2>2, <3>1 DEF RequestPart, MutexPart, Loads
        <3>3. ~shuttingDown[p]
            BY <3>2, ServerAssumption DEF ProcessPart
        <3>4. "root" \in open[p]
            BY <3>2, <3>3 DEF ProcessPart
        <3>5. \A x \in Request : req[x].proc = p /\ Loads(x) => x = r
            BY <3>2 DEF MutexPart
        <3> QED
            BY <3>1, <3>2, <3>4, <3>5 DEF ProcessPart
    <2>3. ASSUME NEW r \in Request, req[r].step = "loading"
          PROVE  lock["account"] = None
        <3> SUFFICES ASSUME lock["account"] # None
                     PROVE  FALSE
            OBVIOUS
        <3>1. "account" \in Dir /\ "account" \in AccountDir
            BY DEF Dir, EvmService, AccountDir
        <3>2. Loads(r)
            BY <2>3 DEF Loads
        <3>3. lock["account"] = req[r].proc
            BY <2>2, <3>1, <3>2, RootFirst
        <3>4. PICK x \in Request : req[x].step = "loaded" /\ req[x].proc = req[r].proc
            BY <2>2, <3>1, <3>2, <3>3, RootFirst
        <3>5. x = r
            BY <2>2, <3>2, <3>4 DEF Loads
        <3> QED
            BY <2>3, <3>4, <3>5
    <2>4. ASSUME NEW r \in Request, req[r].step = "loaded"
          PROVE  lock["child"] = None
        <3> SUFFICES ASSUME lock["child"] # None
                     PROVE  FALSE
            OBVIOUS
        <3>1. "child" \in Dir /\ "child" \in AccountDir
            BY DEF Dir, EvmService, AccountDir
        <3>2. Loads(r)
            BY <2>4 DEF Loads
        <3>3. lock["child"] = req[r].proc
            BY <2>2, <3>1, <3>2, RootFirst
        <3>4. "child" \in open[req[r].proc]
            BY <3>1, <3>3 DEF LockPart
        <3> QED
            BY <2>2, <3>1, <3>2, <3>4
    <2> QED
        BY <2>1, <2>3, <2>4 DEF LockNeverRefuses
<1> QED
    BY <1>1, ServerInvariant, PTL

----------------------------------------------------------------------------
(* The limits. *)

\* Counts stay within the limits, and an operator's within everybody's.  Where
\* there is an operator, only operators count against the administrator's limiter
\* or hold a slot of it.
GateInv ==
    /\ budget \in [Process -> [Limiter -> [all : 0..Rate, operator : 0..Rate]]]
    /\ tally \in [Process -> [Tally -> 0..Attempts]]
    /\ \A p \in Process, l \in Limiter : budget[p][l].operator <= budget[p][l].all
    /\ mode # "local" =>
          /\ \A p \in Process :
                budget[p]["authenticated"].all = budget[p]["authenticated"].operator
          /\ \A r \in Request : req[r].gate = "authenticated" => req[r].operator

LEMMA NoneCounted ==
    /\ NoBudget \in [Limiter -> [all : 0..Rate, operator : 0..Rate]]
    /\ \A l \in Limiter : NoBudget[l] = [all |-> 0, operator |-> 0]
    /\ NoTally \in [Tally -> 0..Attempts]
    BY LimitAssumption DEF NoBudget, NoTally

\* Where there is an operator, only the operator's requests go to "authenticated".
LEMMA GateOwner ==
    ASSUME NEW m \in Mode \ {"local"}, NEW route, NEW who, Gate(m, route, who) = "authenticated"
    PROVE  who = "operator"
<1>1. AccessGate("token", route, who) = "authenticated" => who = "operator"
    BY DEF AccessGate, publicTraffic
<1>2. AccessGate(m, route, who) = "authenticated" => who = "operator"
    BY DEF AccessGate, publicTraffic, Mode
<1>3. SharedGate(route, who) = "authenticated" => who = "operator"
    BY <1>1 DEF SharedGate
<1> QED
    BY <1>2, <1>3 DEF Gate

\* The administrator's requests go there, or nowhere.
LEMMA OperatorGate ==
    ASSUME mode \in Mode, NEW route, OwnLimiter(route)
    PROVE  /\ mode # "local"
           /\ Gate(mode, route, "operator") \in {"authenticated", "answered"}
<1>1. mode # "local"
    BY DEF OwnLimiter
<1>2. AccessGate("token", route, "operator") \in {"authenticated", "answered"}
    BY DEF AccessGate
<1>3. mode = "shared" => Gate(mode, route, "operator") \in {"authenticated", "answered"}
    <2>1. Initializes(route) => route.name # "login"
        BY DEF Initializes
    <2> QED
        BY <1>2, <2>1 DEF Gate, SharedGate, OwnLimiter
<1> QED
    BY <1>1, <1>2, <1>3 DEF Gate, OwnLimiter

LEMMA InitGateInv ==
    ASSUME Init
    PROVE  GateInv
    BY NoneCounted, LimitAssumption DEF Init, GateInv, Idle, Limiter

\* Nothing is counted and a request keeps its gate or gives it up.
LEMMA GatesKept ==
    ASSUME GateInv, UNCHANGED <<mode, budget, tally>>,
           \A r \in Request : \/ req'[r].gate = req[r].gate /\ req'[r].operator = req[r].operator
                             \/ req'[r].gate = "public"
    PROVE  GateInv'
    BY DEF GateInv

LEMMA GoToKeepsGates ==
    ASSUME TypeInv, GateInv, NEW r \in Request, req[r].step # "idle", NEW step \in Step \ {"idle"},
           GoTo(r, step), UNCHANGED <<mode, budget, tally>>
    PROVE  GateInv'
    BY Advance, GatesKept

LEMMA FinishedKeepsGates ==
    ASSUME TypeInv, GateInv, NEW r \in Request, Finished(r), UNCHANGED <<mode, budget, tally>>
    PROVE  GateInv'
<1>1. req'[r].gate = "public"
    BY Leaves DEF Idle
<1> QED
    BY <1>1, Leaves, GatesKept

LEMMA ServeKeepsGates ==
    ASSUME TypeInv, GateInv, NEW r \in Request, Serve(r)
    PROVE  GateInv'
<1>1. UNCHANGED <<mode, budget, tally>>
    BY DEF Serve, EnterAccounts, LoadAccount, LoadNetworks, LoadFails, Call, Finish, config, gates
<1>2. \/ Finished(r)
      \/ req[r].step # "idle" /\ \E step \in Step \ {"idle"} : GoTo(r, step)
    BY DEF Serve, EnterAccounts, LoadAccount, LoadNetworks, LoadFails, Call, Finish, Step
<1> QED
    BY <1>1, <1>2, GoToKeepsGates, FinishedKeepsGates

\* A limiter's window, or a tally's, begins anew.
LEMMA MinuteKeepsGates ==
    ASSUME TypeInv, GateInv, NEW p \in Process, Minute(p)
    PROVE  GateInv'
<1>1. UNCHANGED <<mode, req>>
    BY DEF Minute, config
<1>2. CASE \E l \in Limiter : budget' = [budget EXCEPT ![p][l] = NoBudget[l]] /\ UNCHANGED tally
    <2>1. PICK l \in Limiter : budget' = [budget EXCEPT ![p][l] = NoBudget[l]] /\ UNCHANGED tally
        BY <1>2
    <2>2. \A q \in Process, k \in Limiter :
              budget'[q][k] = IF q = p /\ k = l THEN [all |-> 0, operator |-> 0] ELSE budget[q][k]
        BY <2>1, NoneCounted DEF GateInv
    <2>3. budget' \in [Process -> [Limiter -> [all : 0..Rate, operator : 0..Rate]]]
        BY <2>1, NoneCounted DEF GateInv
    <2> QED
        BY <1>1, <2>1, <2>2, <2>3 DEF GateInv, Limiter
<1>3. CASE \E t \in Tally : tally' = [tally EXCEPT ![p][t] = 0] /\ UNCHANGED budget
    <2>1. tally' \in [Process -> [Tally -> 0..Attempts]]
        BY <1>3, LimitAssumption DEF GateInv
    <2> QED
        BY <1>1, <1>3, <2>1 DEF GateInv
<1> QED
    BY <1>2, <1>3 DEF Minute

\* A request is counted while the limit is not reached, and as an operator's where
\* it is one.
LEMMA ArriveKeepsGates ==
    ASSUME TypeInv, GateInv, NEW r \in Request, NEW p \in Process, NEW route \in Offered, NEW who \in Who,
           Arrive(r, p, route, who)
    PROVE  GateInv'
<1> DEFINE gate == Gate(mode, route, who)
           counted == Counted(mode, route, who)
           answer == Answer(p, route, gate, counted)
           a == Admitted(p, route, gate, who)
           more == [all |-> budget[p][gate].all + 1,
                    operator |-> IF who = "operator" THEN budget[p][gate].operator + 1
                                 ELSE budget[p][gate].operator]
<1>1. /\ mode' = mode /\ CountAttempt(p, counted) /\ CountRequest(p, route, gate, answer, who)
      /\ req' = IF answer = "admitted" THEN [req EXCEPT ![r] = a] ELSE req
    BY DEF Arrive, config
<1>2. tally' \in [Process -> [Tally -> 0..Attempts]]
    <2> DEFINE row == [t \in Tally |-> IF t \in counted /\ tally[p][t] < Attempts
                                       THEN tally[p][t] + 1 ELSE tally[p][t]]
    <2>1. tally' = [tally EXCEPT ![p] = row]
        BY <1>1 DEF CountAttempt
    <2>2. row \in [Tally -> 0..Attempts]
        BY LimitAssumption DEF GateInv
    <2> HIDE DEF row
    <2> QED
        BY <2>1, <2>2 DEF GateInv
<1>3. gate = "authenticated" /\ mode # "local" => who = "operator"
    BY GateOwner DEF TypeInv
<1>4. \A x \in Request : mode # "local" /\ req'[x].gate = "authenticated" => req'[x].operator
    <2>1. CASE answer = "admitted"
        <3>1. gate \in Limiter
            BY <2>1, GateRange, AnswerIs DEF TypeInv
        <3>2. a.gate = gate /\ (a.operator <=> who = "operator")
            BY <3>1, AdmittedIs
        <3>3. req' = [req EXCEPT ![r] = a]
            BY <1>1, <2>1
        <3> HIDE DEF a, gate, answer
        <3> QED
            BY <1>3, <3>2, <3>3 DEF GateInv, TypeInv
    <2>2. CASE answer # "admitted"
        BY <1>1, <2>2 DEF GateInv
    <2> QED
        BY <2>1, <2>2
<1>5. CASE answer = "busy" \/ (answer = "admitted" /\ Limited(route))
    <2>1. gate \in Limiter /\ ~OverRate(p, gate)
        BY <1>5, GateRange, AnswerIs DEF TypeInv
    <2>2. budget' = [budget EXCEPT ![p][gate] = more]
        BY <1>1, <1>5 DEF CountRequest
    <2>3. budget[p][gate] \in [all : 0..Rate, operator : 0..Rate]
        BY <2>1 DEF GateInv
    <2>4. /\ more \in [all : 0..Rate, operator : 0..Rate]
          /\ more.all = budget[p][gate].all + 1
          /\ who = "operator" => more.operator = budget[p][gate].operator + 1
          /\ more.operator <= more.all
        <3> DEFINE n == budget[p][gate].all
                   o == budget[p][gate].operator
        <3>1. n \in 0..Rate /\ o \in 0..Rate /\ n < Rate /\ o <= n
            BY <2>1, <2>3, LimitAssumption DEF OverRate, GateInv
        <3> HIDE DEF n, o
        <3>2. more = [all |-> n + 1, operator |-> IF who = "operator" THEN o + 1 ELSE o]
            BY DEF n, o
        <3> QED
            BY <3>1, <3>2, LimitAssumption DEF n, o
    <2> HIDE DEF more, gate, answer
    <2>5. budget' \in [Process -> [Limiter -> [all : 0..Rate, operator : 0..Rate]]]
        BY <2>1, <2>2, <2>4 DEF GateInv
    <2>6. \A q \in Process, k \in Limiter :
              budget'[q][k] = IF q = p /\ k = gate THEN more ELSE budget[q][k]
        BY <2>1, <2>2 DEF GateInv
    <2>7. \A q \in Process, k \in Limiter : budget'[q][k].operator <= budget'[q][k].all
        BY <2>4, <2>6 DEF GateInv
    <2>8. mode # "local" =>
              \A q \in Process : budget'[q]["authenticated"].all = budget'[q]["authenticated"].operator
        BY <1>3, <2>4, <2>6 DEF GateInv, Limiter
    <2> QED
        BY <1>1, <1>2, <1>4, <2>5, <2>7, <2>8 DEF GateInv
<1>6. CASE ~(answer = "busy" \/ (answer = "admitted" /\ Limited(route)))
    <2>1. budget' = budget
        BY <1>1, <1>6 DEF CountRequest
    <2> QED
        BY <1>1, <1>2, <1>4, <2>1 DEF GateInv
<1> QED
    BY <1>5, <1>6

\* Nothing is counted at a process that stops listening.
LEMMA ForgetKeepsGates ==
    ASSUME TypeInv, GateInv, NEW p \in Process,
           mode' = mode,
           budget' = [budget EXCEPT ![p] = NoBudget],
           tally' = [tally EXCEPT ![p] = NoTally],
           \A r \in Request : req'[r] = req[r] \/ req'[r].gate = "public"
    PROVE  GateInv'
<1>1. \A q \in Process, l \in Limiter :
          budget'[q][l] = IF q = p THEN [all |-> 0, operator |-> 0] ELSE budget[q][l]
    BY NoneCounted DEF GateInv
<1>2. /\ budget' \in [Process -> [Limiter -> [all : 0..Rate, operator : 0..Rate]]]
      /\ tally' \in [Process -> [Tally -> 0..Attempts]]
    BY NoneCounted DEF GateInv
<1>3. \A q \in Process, l \in Limiter : budget'[q][l].operator <= budget'[q][l].all
    <2> SUFFICES ASSUME NEW q \in Process, NEW l \in Limiter
                 PROVE  budget'[q][l].operator <= budget'[q][l].all
        OBVIOUS
    <2>1. CASE q = p
        BY <1>1, <2>1
    <2>2. CASE q # p
        BY <1>1, <2>2 DEF GateInv
    <2> QED
        BY <2>1, <2>2
<1>4. mode # "local" =>
          /\ \A q \in Process : budget'[q]["authenticated"].all = budget'[q]["authenticated"].operator
          /\ \A r \in Request : req'[r].gate = "authenticated" => req'[r].operator
    <2>1. \A r \in Request :
              mode # "local" /\ req'[r].gate = "authenticated" => req'[r].operator
        BY DEF GateInv
    <2>2. ASSUME NEW q \in Process, mode # "local"
          PROVE  budget'[q]["authenticated"].all = budget'[q]["authenticated"].operator
        <3>1. CASE q = p
            BY <1>1, <3>1 DEF Limiter
        <3>2. CASE q # p
            BY <1>1, <2>2, <3>2 DEF GateInv, Limiter
        <3> QED
            BY <3>1, <3>2
    <2> QED
        BY <2>1, <2>2
<1> QED
    BY <1>2, <1>3, <1>4 DEF GateInv

LEMMA StopListeningKeepsGates ==
    ASSUME TypeInv, GateInv, NEW p \in Process, StopListening(p), mode' = mode
    PROVE  GateInv'
<1>1. ASSUME NEW r \in Request
      PROVE  req'[r] = req[r] \/ req'[r].gate = "public"
    <2>1. CASE r \in Active(p)
        <3>1. req[r] \in Underway
            BY <2>1, RequestIs, ServerAssumption DEF Active
        <3>2. req'[r] = [req[r] EXCEPT !.gate = "public", !.slot = "none", !.operator = FALSE]
            BY <2>1 DEF StopListening
        <3> QED
            BY <3>1, <3>2 DEF Underway
    <2>2. CASE r \notin Active(p)
        BY <2>2 DEF StopListening
    <2> QED
        BY <2>1, <2>2
<1>2. /\ budget' = [budget EXCEPT ![p] = NoBudget]
      /\ tally' = [tally EXCEPT ![p] = NoTally]
    BY DEF StopListening
<1> QED
    BY <1>1, <1>2, ForgetKeepsGates

LEMMA GoneKeepsGates ==
    ASSUME TypeInv, GateInv, NEW p \in Process, Gone(p)
    PROVE  GateInv'
<1>1. /\ mode' = mode /\ budget' = [budget EXCEPT ![p] = NoBudget]
      /\ tally' = [tally EXCEPT ![p] = NoTally]
      /\ \A r \in Request : req'[r] = req[r] \/ req'[r].gate = "public"
    BY DEF Gone, config, Idle
<1> QED
    BY <1>1, ForgetKeepsGates

LEMMA GateInvNext ==
    ASSUME TypeInv, GateInv, [Next]_vars
    PROVE  GateInv'
<1>1. ASSUME NEW p \in Process,
             Boot(p) \/ StartService(p) \/ Listen(p) \/ StartFails(p) \/ Drained(p)
             \/ ShutDownAccounts(p) \/ \E d \in Dir : MaintenanceReturns(p, d) \/ Close(p, d)
      PROVE  GateInv'
    <2>1. UNCHANGED <<mode, budget, tally, req>>
        BY <1>1 DEF Boot, StartService, Listen, StartFails, Drained, ShutDownAccounts,
                    MaintenanceReturns, Close, config, gates
    <2> QED
        BY <2>1, GatesKept
<1>2. ASSUME NEW p \in Process, Exit(p) \/ Kill(p)
      PROVE  GateInv'
    BY <1>2, GoneKeepsGates DEF Exit, Kill
<1>3. ASSUME NEW p \in Process, Signal(p) \/ AcceptFails(p)
      PROVE  GateInv'
    BY <1>3, StopListeningKeepsGates DEF Signal, AcceptFails, config
<1>4. CASE UNCHANGED vars
    <2>1. UNCHANGED <<mode, budget, tally, req>>
        BY <1>4 DEF vars, config, gates
    <2> QED
        BY <2>1, GatesKept
<1> QED
    BY <1>1, <1>2, <1>3, <1>4, MinuteKeepsGates, ServeKeepsGates, ArriveKeepsGates
    DEF Next, Stop

\* What LimitTraffic counts for operators is part of what it counts for all, and unless
\* the server is local, its authenticated limiter has counted operators only.
THEOREM GateInvariant == Spec => []GateInv
<1>1. TypeInv /\ GateInv /\ [Next]_vars => GateInv'
    BY GateInvNext
<1>2. Init => GateInv
    BY InitGateInv
<1>3. ServerInv => TypeInv
    BY DEF ServerInv
<1> QED
    BY <1>1, <1>2, <1>3, ServerInvariant, PTL DEF Spec

\* Processes, requests, limits and locks keep their shape.
THEOREM ServerTypeCorrect == Spec => []TypeOK
<1>1. ASSUME ServerInv, GateInv PROVE TypeOK
    <2>1. budget \in [Process -> [Limiter -> [all : 0..Rate, operator : 0..Rate]]]
        BY <1>1 DEF GateInv
    <2>2. \A r \in Request : req[r].step \in Step /\ (req[r] = Idle <=> req[r].proc = None)
        <3> SUFFICES ASSUME NEW r \in Request
                     PROVE  req[r].step \in Step /\ (req[r] = Idle <=> req[r].proc = None)
            OBVIOUS
        <3>1. CASE req[r].step = "idle"
            BY <1>1, <3>1, RequestIs DEF ServerInv
        <3>2. CASE req[r].step # "idle"
            <4>1. req[r].proc # None /\ req[r].step \in Step
                BY <1>1, <3>2, RequestIs, ServerAssumption DEF ServerInv
            <4>2. Idle.step = "idle"
                BY DEF Idle
            <4> QED
                BY <3>2, <4>1, <4>2
        <3> QED
            BY <3>1, <3>2
    <2>3. \A p \in Process, r \in Request :
              accountsMu[p] = r <=> req[r].proc = p /\ req[r].step \in {"loading", "loaded"}
        BY <1>1 DEF ServerInv, MutexPart, Loads
    <2> QED
        BY <1>1, <2>1, <2>2, <2>3 DEF ServerInv, TypeInv, GateInv, TypeOK
<1> QED
    BY <1>1, ServerInvariant, GateInvariant, PTL

\* "External public traffic cannot exhaust the administrator's quota" (access.go),
\* and neither takes its slots: whoever an operator waits for is an operator.
THEOREM OperatorsAlone == Spec => []VisitorsNeverCrowdOut
<1>1. ASSUME TypeInv, GateInv PROVE VisitorsNeverCrowdOut
    <2> SUFFICES ASSUME NEW p \in Process, NEW route \in Offered, OwnLimiter(route)
                 PROVE  LET gate == Gate(mode, route, "operator")
                            answer == Answer(p, route, gate, {})
                        IN  /\ answer = "rate" => budget[p][gate].operator >= Rate
                            /\ answer = "busy" =>
                                  \A r \in Holders(p, gate, Slot(route)) : req[r].operator
        BY DEF VisitorsNeverCrowdOut
    <2> DEFINE gate == Gate(mode, route, "operator")
               answer == Answer(p, route, gate, {})
    <2>1. mode \in Mode /\ mode # "local" /\ gate \in {"authenticated", "answered"}
        BY <1>1, OperatorGate DEF TypeInv
    <2>2. gate \in Limiter \cup {"answered", "unauthorized", "forbidden"}
        BY <2>1, GateRange
    <2>3. answer \in {"rate", "busy"} => gate = "authenticated"
        BY <2>1, <2>2, AnswerIs DEF Limiter
    <2>4. answer = "rate" => OverRate(p, gate)
        BY <2>2, AnswerIs
    <2> HIDE DEF gate, answer
    <2>5. answer = "rate" => budget[p][gate].operator >= Rate
        BY <1>1, <2>1, <2>3, <2>4 DEF GateInv, OverRate
    <2>6. answer = "busy" => \A r \in Holders(p, gate, Slot(route)) : req[r].operator
        BY <1>1, <2>1, <2>3 DEF GateInv, Holders, Active
    <2> QED
        BY <2>5, <2>6 DEF gate, answer
<1>2. ServerInv => TypeInv
    BY DEF ServerInv
<1> QED
    BY <1>1, <1>2, ServerInvariant, GateInvariant, PTL
=============================================================================
