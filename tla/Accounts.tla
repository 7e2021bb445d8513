------------------------------ MODULE Accounts ------------------------------
(***************************************************************************)
(* The catalogue of local EVM accounts: the keystore of each account       *)
(* (internal/wallet/keystore.go) and the files and directories that make   *)
(* it an account (internal/wallet/accounts.go), used by concurrent         *)
(* requests, with failing writes and a process that is killed.             *)
(*                                                                         *)
(* Locks, in the order in which they are taken: sendMu of the root         *)
(* service, which serialises the operations on the catalogue; catalogMu,   *)
(* which the keystores of all accounts share; mu of each keystore; and the *)
(* scrypt slot of each keystore, for which nobody waits.                   *)
(*                                                                         *)
(* What is abstracted: a keystore file is the address in it, and the       *)
(* account in which Create draws an address stands for that address;       *)
(* passwords, names and the checks on the request are left out, as is      *)
(* sendMu of the other services, which nothing else here takes.  An ID is  *)
(* random and given away once AddAccount has answered.                     *)
(***************************************************************************)
EXTENDS Integers, FiniteSets

CONSTANTS
    Account,         \* directories: accounts/<id>, and that of the root
    Root,            \* the root account, in the wallet directory itself
    Old,             \* the address of a mnemonic made elsewhere
    Request,         \* concurrent requests
    None,            \* no request, no address
    MaxAccounts,     \* 20
    MaxRestarts,     \* bound: times the process is killed
    MaxWriteErrors   \* bound: failed writes

ASSUME AccountsAssumption ==
    /\ Root \in Account
    /\ Old \notin Account /\ None \notin Account \cup Request \cup {Old}
    /\ {MaxRestarts, MaxWriteErrors} \subseteq Nat
    /\ MaxAccounts \in Nat \ {0}

VARIABLES
    dir,         \* the directories that exist
    key,         \* keystore.json of each
    meta,        \* account.json of each
    opened,      \* accounts with a service
    sendMu,      \* of the root service: the request holding it
    catalogMu,
    mu,
    scryptSem,
    req,         \* what each request is doing
    answered,    \* history: <<account, address>> whose creation was answered
    spent        \* restarts and write errors so far

fileVars == <<dir, key, meta>>
lockVars == <<sendMu, catalogMu, mu, scryptSem>>
vars == <<fileVars, opened, lockVars, req, answered, spent>>

Address == Account \cup {Old}
NewKey == {"create", "import", "keystore"}
Op == NewKey \cup {"password", "decrypt", "add", "update"}
Step == {"idle", "send", "list", "catalog", "file", "write", "unlock", "save", "key", "meta", "undo"}
Idle == [op |-> "add", step |-> "idle", account |-> Root, address |-> None, archived |-> FALSE]
WriteOutcome == {"ok", "lost", "kept"}

\* atomicWriteFile, as in module Journal.
Write(file, a, content, outcome) == IF outcome = "lost" THEN file ELSE [file EXCEPT ![a] = content]

Charge(outcome) ==
    /\ outcome # "ok" => spent.write < MaxWriteErrors
    /\ spent' = IF outcome = "ok" THEN spent ELSE [spent EXCEPT !.write = @ + 1]

Go(p, step) == req' = [req EXCEPT ![p].step = step]

Freed(holder, p) == IF holder = p THEN None ELSE holder

\* Mutant: a request returns without unlocking catalogMu.
Return_KeepsCatalog(p) ==
    /\ req' = [req EXCEPT ![p] = Idle]
    /\ sendMu' = Freed(sendMu, p)
    /\ mu' = [a \in Account |-> Freed(mu[a], p)]
    /\ scryptSem' = [a \in Account |-> Freed(scryptSem[a], p)]
    /\ UNCHANGED catalogMu

\* Every lock is released by a defer, on success and on error alike.
Return(p) ==
    /\ req' = [req EXCEPT ![p] = Idle]
    /\ sendMu' = Freed(sendMu, p)
    /\ catalogMu' = Freed(catalogMu, p)
    /\ mu' = [a \in Account |-> Freed(mu[a], p)]
    /\ scryptSem' = [a \in Account |-> Freed(scryptSem[a], p)]

Answer(a, x) == answered' = answered \cup {<<a, x>>}

----------------------------------------------------------------------------
(* The locks of the operations. *)

\* Operations on the catalogue, and the two of the root's own service that
\* take its sendMu.
LocksRoot(op, a) == op \in {"add", "update"} \/ (a = Root /\ op \in {"keystore", "password"})

Start(p, op, a, x, archived) ==
    /\ req[p] = Idle
    /\ req' = [req EXCEPT ![p] = [op |-> op, account |-> a, address |-> x, archived |-> archived,
                                  step |-> IF LocksRoot(op, a) THEN "send"
                                           ELSE IF op \in NewKey THEN "catalog" ELSE "file"]]
    /\ UNCHANGED <<fileVars, opened, lockVars, answered, spent>>

\* Mutant: each service locks its own sendMu.
SendMuFree_Own == TRUE

SendMuFree == sendMu = None

\* Mutant: ImportKeystore takes catalogMu before sendMu.
LockSend_CatalogFirst(p) ==
    /\ req[p].step = "send"
    /\ IF req[p].op = "keystore" /\ catalogMu # p
       THEN catalogMu = None /\ catalogMu' = p /\ UNCHANGED <<sendMu, req>>
       ELSE /\ SendMuFree /\ sendMu' = p
            /\ Go(p, IF req[p].op \in {"add", "update"} THEN "list" ELSE "file")
            /\ UNCHANGED catalogMu
    /\ UNCHANGED <<fileVars, opened, mu, scryptSem, answered, spent>>

\* ImportKeystore and ChangePassword, of the root, and the catalogue's two.
LockSend(p) ==
    /\ req[p].step = "send"
    /\ SendMuFree
    /\ sendMu' = p
    /\ \/ req[p].op = "keystore" /\ Go(p, "catalog")
       \/ req[p].op = "password" /\ Go(p, "file")
       \/ req[p].op \in {"add", "update"} /\ Go(p, "list")
    /\ UNCHANGED <<fileVars, opened, catalogMu, mu, scryptSem, answered, spent>>

\* Mutant: the service of an account keeps a catalogMu of its own.
CatalogMuFree_Own == TRUE

CatalogMuFree == catalogMu = None

LockCatalog(p) ==
    /\ req[p].step = "catalog"
    /\ CatalogMuFree
    /\ catalogMu' = p
    /\ Go(p, "file")
    /\ UNCHANGED <<fileVars, opened, sendMu, mu, scryptSem, answered, spent>>

----------------------------------------------------------------------------
(* KeystoreManager: Create, Import, ImportKeystore and ChangePassword. *)

Duplicate(a, x) == \E b \in Account \ {a} : key[b] = x

\* A new key is never written over another nor a second time.
Refused(r) ==
    IF r.op \in NewKey
    THEN key[r.account] # None \/ Duplicate(r.account, r.address)
    ELSE key[r.account] = None

OpenFile(p) ==
    LET a == req[p].account
    IN  /\ req[p].step = "file"
        /\ req[p].op \in NewKey \cup {"password"}
        /\ mu[a] = None
        /\ IF Refused(req[p]) \/ scryptSem[a] # None
           THEN Return(p)
           ELSE /\ mu' = [mu EXCEPT ![a] = p]
                /\ scryptSem' = [scryptSem EXCEPT ![a] = p]
                /\ Go(p, "write")
                /\ UNCHANGED <<sendMu, catalogMu>>
        /\ UNCHANGED <<fileVars, opened, answered, spent>>

WriteKey(p, outcome) ==
    LET a == req[p].account
        x == IF req[p].op \in NewKey THEN req[p].address ELSE key[a]
    IN  /\ req[p].step = "write"
        /\ Charge(outcome)
        /\ key' = Write(key, a, x, outcome)
        /\ IF outcome = "ok" THEN Answer(a, x) ELSE UNCHANGED answered
        /\ Return(p)
        /\ UNCHANGED <<dir, meta, opened>>

\* DecryptKey and Backup: the file is read under mu and decrypted after.
ReadFile(p) ==
    LET a == req[p].account
    IN  /\ req[p].step = "file"
        /\ req[p].op = "decrypt"
        /\ mu[a] = None
        /\ IF key[a] = None \/ scryptSem[a] # None
           THEN Return(p)
           ELSE /\ scryptSem' = [scryptSem EXCEPT ![a] = p]
                /\ Go(p, "unlock")
                /\ UNCHANGED <<sendMu, catalogMu, mu>>
        /\ UNCHANGED <<fileVars, opened, answered, spent>>

Unlocked(p) ==
    /\ req[p].step = "unlock"
    /\ Return(p)
    /\ UNCHANGED <<fileVars, opened, answered, spent>>

----------------------------------------------------------------------------
(* The catalogue.  listAccounts names every directory, with or without an  *)
(* account.json, and waits for mu of the root's keystore.                  *)

Listed == {Root} \cup dir
Archived(a) == meta[a] = "archived"
Unarchived == {a \in Listed : ~Archived(a)}

ListAccounts(p, op) ==
    /\ req[p].step = "list"
    /\ req[p].op = op
    /\ mu[Root] = None

Full == Cardinality(Listed) >= MaxAccounts

\* AddAccount with or without a password.
AddBegin(p, withKey) ==
    /\ ListAccounts(p, "add")
    /\ IF Full
       THEN Return(p) /\ UNCHANGED dir
       ELSE /\ dir' = dir \cup {req[p].account}
            /\ Go(p, IF withKey THEN "key" ELSE "meta")
            /\ UNCHANGED lockVars
    /\ UNCHANGED <<key, meta, opened, answered, spent>>

\* Create, of a manager nobody else has.
AddKey(p, outcome) ==
    LET a == req[p].account
    IN  /\ req[p].step = "key"
        /\ Charge(outcome)
        /\ key' = Write(key, a, a, outcome)
        /\ Go(p, IF outcome = "ok" THEN "meta" ELSE "undo")
        /\ UNCHANGED <<dir, meta, opened, lockVars, answered>>

AddPublish(p, outcome) ==
    LET a == req[p].account
    IN  /\ req[p].step = "meta"
        /\ Charge(outcome)
        /\ meta' = Write(meta, a, "open", outcome)
        /\ IF outcome = "ok"
           THEN Return(p) /\ (IF key[a] = None THEN UNCHANGED answered ELSE Answer(a, key[a]))
           ELSE Go(p, "undo") /\ UNCHANGED <<lockVars, answered>>
        /\ UNCHANGED <<dir, key, opened>>

\* RemoveAll.
AddUndo(p) ==
    LET a == req[p].account
    IN  /\ req[p].step = "undo"
        /\ dir' = dir \ {a}
        /\ key' = [key EXCEPT ![a] = None]
        /\ meta' = [meta EXCEPT ![a] = "none"]
        /\ Return(p)
        /\ UNCHANGED <<opened, answered, spent>>

\* UpdateAccount: the last wallet that is not archived stays so.
UpdateBegin(p) ==
    LET a == req[p].account
    IN  /\ ListAccounts(p, "update")
        /\ IF a \notin Listed \/ (req[p].archived /\ ~Archived(a) /\ Cardinality(Unarchived) <= 1)
           THEN Return(p)
           ELSE Go(p, "save") /\ UNCHANGED lockVars
        /\ UNCHANGED <<fileVars, opened, answered, spent>>

UpdateWrite(p, outcome) ==
    /\ req[p].step = "save"
    /\ Charge(outcome)
    /\ meta' = Write(meta, req[p].account, IF req[p].archived THEN "archived" ELSE "open", outcome)
    /\ Return(p)
    /\ UNCHANGED <<dir, key, opened, answered>>

\* Nobody knows an ID before AddAccount answers or a later list names it.
Secret == {req[p].account : p \in {r \in Request : req[r].op = "add" /\ req[r].step # "idle"}}

\* NewAccountService, on the first visit: account.json is the registration.
Open(a) ==
    /\ a \in dir \ (opened \cup Secret)
    /\ meta[a] # "none"
    /\ opened' = opened \cup {a}
    /\ UNCHANGED <<fileVars, lockVars, req, answered, spent>>

----------------------------------------------------------------------------
\* The process is killed and started again.
Restart ==
    /\ spent.restart < MaxRestarts
    /\ spent' = [spent EXCEPT !.restart = @ + 1]
    /\ opened' = {Root}
    /\ sendMu' = None
    /\ catalogMu' = None
    /\ mu' = [a \in Account |-> None]
    /\ scryptSem' = [a \in Account |-> None]
    /\ req' = [p \in Request |-> Idle]
    /\ UNCHANGED <<fileVars, answered>>

Init ==
    /\ dir = {}
    /\ key = [a \in Account |-> None]
    /\ meta = [a \in Account |-> "none"]
    /\ opened = {Root}
    /\ sendMu = None
    /\ catalogMu = None
    /\ mu = [a \in Account |-> None]
    /\ scryptSem = [a \in Account |-> None]
    /\ req = [p \in Request |-> Idle]
    /\ answered = {}
    /\ spent = [restart |-> 0, write |-> 0]

\* A mnemonic is from elsewhere, or of an account that can be backed up.
Known == {Old} \cup {key[a] : a \in {b \in opened : key[b] # None}}

\* IDs are drawn at random: no two requests add the same one.
Unused(a) == a \in Account \ (Listed \cup {req[p].account : p \in Request})

Starting(p) ==
    \/ \E a \in opened : Start(p, "create", a, a, FALSE)
    \/ \E a \in opened, op \in {"import", "keystore"} : \E x \in Known : Start(p, op, a, x, FALSE)
    \/ \E a \in opened, op \in {"password", "decrypt"} : Start(p, op, a, None, FALSE)
    \/ \E a \in Account : Unused(a) /\ Start(p, "add", a, a, FALSE)
    \/ \E a \in Listed, archived \in BOOLEAN : Start(p, "update", a, None, archived)

Working(p) ==
    \/ LockSend(p)
    \/ LockCatalog(p)
    \/ OpenFile(p)
    \/ \E outcome \in WriteOutcome : WriteKey(p, outcome)
    \/ ReadFile(p)
    \/ Unlocked(p)
    \/ \E withKey \in BOOLEAN : AddBegin(p, withKey)
    \/ \E outcome \in WriteOutcome : AddKey(p, outcome)
    \/ \E outcome \in WriteOutcome : AddPublish(p, outcome)
    \/ AddUndo(p)
    \/ UpdateBegin(p)
    \/ \E outcome \in WriteOutcome : UpdateWrite(p, outcome)

Next ==
    \/ \E p \in Request : Starting(p) \/ Working(p)
    \/ \E a \in Account : Open(a)
    \/ Restart

Spec == Init /\ [][Next]_vars

----------------------------------------------------------------------------
(* Properties. *)

TypeOK ==
    /\ dir \subseteq Account \ {Root}
    /\ key \in [Account -> Address \cup {None}]
    /\ meta \in [Account -> {"none", "open", "archived"}]
    /\ opened \subseteq Account
    /\ {sendMu, catalogMu} \subseteq Request \cup {None}
    /\ {mu, scryptSem} \subseteq [Account -> Request \cup {None}]
    /\ req \in [Request -> [op : Op, step : Step, account : Account,
                            address : Address \cup {None}, archived : BOOLEAN]]
    /\ spent \in [restart : 0..MaxRestarts, write : 0..MaxWriteErrors]
    /\ Cardinality(Listed) <= MaxAccounts

\* "Multiple aliases for one signing address would otherwise have independent
\* nonce journals": no address is in the keystores of two accounts, whatever is
\* created and imported at the same time and whatever a killed AddAccount left.
NoDuplicateAddress ==
    \A a, b \in Account : key[a] # None /\ key[a] = key[b] => a = b

\* "Never overwrites an existing wallet": once a wallet was announced, its key
\* stays where it is, and its account stays registered.
AnsweredKept ==
    \A w \in answered : key[w[1]] = w[2] /\ (w[1] # Root => w[1] \in dir /\ meta[w[1]] # "none")

\* A wallet that was announced keeps its key, and no other wallet has it.
OneKeyPerWallet == NoDuplicateAddress /\ AnsweredKept

\* UpdateAccount keeps at least one wallet that is not archived, although two
\* requests may archive the last two at the same time.
SomeUnarchived == Unarchived # {}

\* q holds the lock p needs next.
WaitsFor(p, q) ==
    \/ req[p].step = "send" /\ sendMu = q
    \/ req[p].step = "list" /\ mu[Root] = q
    \/ req[p].step = "catalog" /\ catalogMu = q
    \/ req[p].step = "file" /\ mu[req[p].account] = q

\* How far a request is in the order of the locks.
Level(p) ==
    CASE req[p].step = "idle" -> 0
      [] req[p].step = "send" -> 1
      [] req[p].step \in {"list", "catalog"} -> 2
      [] req[p].step = "file" -> 3
      [] OTHER -> 4

\* Who waits for a lock waits for a request that is further in the order of the
\* locks: no circle of requests waits for itself, and none for one that is gone.
LocksInOrder == \A p, q \in Request : WaitsFor(p, q) => Level(p) < Level(q)

\* While requests are under way one of them can go on: the locks are taken in
\* one order and released on every path.
SomeoneCanGoOn ==
    (\E p \in Request : req[p] # Idle) => \E p \in Request : ENABLED Working(p)
=============================================================================
