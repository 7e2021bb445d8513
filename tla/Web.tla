-------------------------------- MODULE Web --------------------------------
(***************************************************************************)
(* The HTTP surface, internal/web: which handler answers a request, and    *)
(* the gates it passes before (access.go, shared.go, public.go, origin.go, *)
(* traffic.go).  Module Server puts it into a process.                     *)
(*                                                                         *)
(* What is abstracted:                                                     *)
(*  - a route is its last path element, the service that answers it and    *)
(*    its method; request and answer bodies are left out, and so are the   *)
(*    host, origin and CSRF checks of a request the pages send             *)
(*    (localWalletFilter can only end a handler early);                    *)
(*  - who asks: an operator with the session cookie or valid credentials,  *)
(*    a visitor with none, a guesser with a wrong Authorization header;    *)
(*  - a gate decides under its own mutex without waiting, so passing all   *)
(*    of them is one step;                                                 *)
(*  - a counter's minute is over at any time (Server!Minute).              *)
(***************************************************************************)
EXTENDS Integers, FiniteSets

CONSTANTS
    Rate,        \* API requests a minute and limiter (300)
    Attempts,    \* password attempts a minute (10)
    ReadSlots,   \* reads a limiter lets run at once (8)
    WriteSlots   \* writes a limiter lets run at once (1)

ASSUME LimitAssumption ==
    /\ {Rate, Attempts} \subseteq Nat
    /\ {ReadSlots, WriteSlots} \subseteq Nat \ {0}

\* "token" is access by ACCESS_TOKEN with a public origin; a shared demo without
\* ACCESS_TOKEN has no operator, and nobody may initialize.
Mode == {"local", "token", "shared"}
Who == {"operator", "visitor", "guesser"}
EvmService == {"root", "linked", "account", "child"}
Limiter == {"authenticated", "public", "shared"}
Tally == {"login", "password"}

----------------------------------------------------------------------------
(* Routes.  `calls' says whether the handler calls the service it is on,   *)
(* rather than the chain only.                                             *)

On(at, names, method, calls) ==
    [name : names, at : {at}, method : {method}, calls : {calls}]

\* Pages and health checks: nothing under /api/.
PageRoutes(at) == On(at, {"page"}, "GET", FALSE)

NetworkRoutes(at) == On(at, {"network", "balance", "transactions"}, "GET", FALSE)

\* "Observation never creates a wallet, journal, scan cursor, quote, or signing
\* session": these call the chain client only.
ObservationRoutes(at) ==
    On(at, {"diagnostics", "watch/token", "watch/activity"}, "GET", FALSE)

StatusRoutes(at) ==
    On(at, {"pools"}, "POST", TRUE) \cup On(at, {"status", "vault"}, "GET", TRUE)

KeyRoutes(at) ==
    On(at, {"import-keystore", "password", "accounts", "update", "create", "import", "backup"},
       "POST", TRUE)
    \cup On(at, {"accounts"}, "GET", TRUE)

TokenRoutes(at) == On(at, {"token"}, "GET", TRUE) \cup On(at, {"token"}, "POST", TRUE)

PaymentRoutes(at) == On(at, {"quote", "send", "retry"}, "POST", TRUE)

ActivityRoutes(at) ==
    On(at, {"activity/import", "activity/sync", "scan"}, "POST", TRUE)
    \cup On(at, {"activity", "scan", "history"}, "GET", TRUE)

\* registerWalletRoutes and web.New: one handler for each EVM service.
EvmRoutes ==
    UNION {PageRoutes(at) \cup NetworkRoutes(at) \cup ObservationRoutes(at) \cup StatusRoutes(at)
           \cup KeyRoutes(at) \cup TokenRoutes(at) \cup PaymentRoutes(at) \cup ActivityRoutes(at)
           : at \in EvmService}

SolanaRoutes ==
    On("solana", {"page"}, "GET", FALSE)
    \cup On("solana", {"status", "balance", "history"}, "GET", TRUE)
    \cup On("solana", {"create", "quote", "send", "retry", "backup", "restore", "password"},
            "POST", TRUE)

TronRoutes ==
    On("tron", {"page"}, "GET", FALSE)
    \cup On("tron", {"status", "balance", "history", "token"}, "GET", TRUE)
    \cup On("tron", {"create", "quote", "send", "retry", "backup", "restore", "password"},
            "POST", TRUE)

\* The faucet pays from the services of its account and, for TRX and SOL, into
\* the wallets on those chains.
FaucetRoutes ==
    On("faucet", {"faucet"}, "GET", FALSE) \cup On("faucet", {"faucet"}, "POST", TRUE)

LoginRoute == [name |-> "login", at |-> "root", method |-> "POST", calls |-> FALSE]

Route == EvmRoutes \cup SolanaRoutes \cup TronRoutes \cup FaucetRoutes \cup {LoginRoute}

\* The calls that take neither sendMu nor historyMu of an EVM service, nor mu of one
\* on Solana or TRON: keystore, vault and scan have mutexes of their own.
Unlocked(route) ==
    \/ /\ route.at \in EvmService
       /\ route.name \in {"status", "vault", "pools", "token", "create", "import", "backup", "scan"}
    \/ route.at \in {"solana", "tron"} /\ route.name \in {"balance", "token"}

\* The service a route is answered from; a claim pays from the faucet's account.
Service(route) == IF route.at = "faucet" THEN "account" ELSE route.at

\* The service whose mutex the call holds, the one its Close takes as well.  The
\* catalog of accounts is the root's.
Mutex(route) ==
    IF ~route.calls \/ Unlocked(route) THEN "none"
    ELSE IF route.at \in EvmService /\ route.name \in {"accounts", "update"} THEN "root"
    ELSE Service(route)

\* The routes of an account name it in their path.
OfAccount(route) == route.at \in {"account", "child"}

----------------------------------------------------------------------------
(* Gates. *)

\* LimitTraffic passes whatever is not under /api/: pages and the login form.
Limited(route) == route.name \notin {"page", "login"}

\* Reads, and the two lookups that are posted, share the read slots.
Slot(route) ==
    IF route.method = "GET" \/ (route.name \in {"token", "pools"} /\ route.at \in EvmService)
    THEN "reads" ELSE "writes"

Slots(kind) == IF kind = "reads" THEN ReadSlots ELSE WriteSlots

\* publicReadAllowed: observation of the root and linked networks.
PublicRead(route) ==
    /\ route.at \in {"root", "linked"}
    /\ route.method = "GET"
    /\ route.name \in {"page", "network", "balance", "watch/token", "transactions"}

\* Mutant: one limiter for everyone.
publicTraffic_Authenticated == "authenticated"

\* "Public unauthenticated queries and authenticated sessions maintain separate
\* traffic budgets".
publicTraffic == "public"

\* RequireAccessToken behind its login limit: the limiter a request goes to, or
\* why it goes to none.
AccessGate(mode, route, who) ==
    CASE mode = "local" -> "authenticated"
      [] mode # "local" /\ route.name = "login" -> "answered"
      [] mode # "local" /\ route.name # "login" /\ who = "operator" -> "authenticated"
      [] mode # "local" /\ route.name # "login" /\ who # "operator" /\ PublicRead(route) ->
            IF Limited(route) THEN publicTraffic ELSE "answered"
      [] OTHER -> "unauthorized"

\* The operations a shared demo leaves open, beside every read.
SharedWrite(route) ==
    \/ route.at = "faucet"
    \/ route.at \in {"solana", "tron"} /\ route.name \in {"quote", "send", "retry", "backup"}
    \/ /\ route.at \in EvmService
       /\ route.name \in {"accounts", "quote", "send", "retry", "token", "pools", "backup"}

\* "Only the operator may initialize an absent chain wallet."
Initializes(route) ==
    route.at \in {"solana", "tron"} /\ route.name = "create" /\ route.method = "POST"

SharedGate(route, who) ==
    CASE route.name = "login" -> "answered"
      [] Initializes(route) -> AccessGate("token", route, who)
      [] route.name # "login" /\ ~Initializes(route) ->
            IF route.method = "GET" \/ SharedWrite(route) THEN "shared" ELSE "forbidden"

Gate(mode, route, who) ==
    IF mode = "shared" THEN SharedGate(route, who) ELSE AccessGate(mode, route, who)

\* The password attempts a request is counted with, if any.
Counted(mode, route, who) ==
    CASE mode = "local" -> {}
      [] mode = "token" \/ (mode = "shared" /\ Initializes(route)) ->
            IF route.name = "login" \/ who = "guesser" THEN {"login"} ELSE {}
      [] mode = "shared" /\ ~Initializes(route) ->
            IF /\ route.method = "POST"
               /\ SharedWrite(route)
               /\ route.name \in {"accounts", "send", "backup"}
            THEN {"password"} ELSE {}
=============================================================================
