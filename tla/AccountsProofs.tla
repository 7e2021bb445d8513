--------------------------- MODULE AccountsProofs ---------------------------
(***************************************************************************)
(* Proofs about module Accounts, for any number of accounts and requests:  *)
(* no address is in two keystores, an announced wallet keeps its key and   *)
(* its registration, one wallet is never archived, and locks are waited    *)
(* for in one order.                                                       *)
(***************************************************************************)
EXTENDS Accounts, FiniteSetTheorems, TLAPS

Adding(p) == req[p].op = "add" /\ req[p].step # "idle"

TypeInv ==
    /\ dir \subseteq Account \ {Root}
    /\ key \in [Account -> Address \cup {None}]
    /\ meta \in [Account -> {"none", "open", "archived"}]
    /\ opened \subseteq Account
    /\ sendMu \in Request \cup {None}
    /\ catalogMu \in Request \cup {None}
    /\ mu \in [Account -> Request \cup {None}]
    /\ scryptSem \in [Account -> Request \cup {None}]
    /\ req \in [Request -> [op : Op, step : Step, account : Account,
                            address : Address \cup {None}, archived : BOOLEAN]]
    /\ spent \in [restart : 0..MaxRestarts, write : 0..MaxWriteErrors]

\* The files: a keystore holds the address drawn for it or the one mnemonic from
\* elsewhere, in one place; what an account has makes it listed, and what was
\* opened or announced is registered.
FilePart ==
    /\ IsFiniteSet(dir) /\ Cardinality(Listed) <= MaxAccounts
    /\ \A a \in Account : key[a] \in {a, Old, None}
    /\ \A a, b \in Account : key[a] = Old /\ key[b] = Old => a = b
    /\ \A a \in Account : key[a] # None \/ meta[a] # "none" => a \in Listed
    /\ \A a \in opened : a = Root \/ (a \in dir /\ meta[a] # "none")
    /\ SomeUnarchived
    /\ AnsweredKept /\ \A w \in answered : w[1] \in Account /\ w[2] # None

\* Who changes the catalogue holds sendMu, who adds a key catalogMu.
LockPart ==
    \A p \in Request :
        /\ req[p].step \in {"list", "key", "meta", "undo", "save"} => sendMu = p
        /\ req[p].op \in NewKey /\ req[p].step \in {"file", "write"} => catalogMu = p

\* No two requests add the same ID.
Distinct ==
    \A p, q \in Request : Adding(p) /\ Adding(q) /\ req[p].account = req[q].account => p = q

\* What a request that adds an account may rely on.
AddPart(p) ==
    LET a == req[p].account
    IN  /\ req[p].step \in {"send", "list", "key", "meta", "undo"}
        /\ a # Root /\ a \notin opened /\ (\A w \in answered : w[1] # a)
        /\ req[p].step \in {"send", "list", "key"} => key[a] = None
        /\ req[p].step \in {"send", "list"} => a \notin dir
        /\ req[p].step \notin {"send", "list"} => a \in dir /\ \E b \in Unarchived : b # a

\* One that writes a new key: what OpenFile found is still so.
KeyPart(p) ==
    LET a == req[p].account
        x == req[p].address
    IN  /\ req[p].op = "create" => x = a
        /\ req[p].op # "create" => x = Old \/ (x \in opened /\ key[x] = x)
        /\ req[p].step = "write" =>
              /\ key[a] = None /\ x \in {a, Old}
              /\ x = Old => \A b \in Account : key[b] # Old

\* One that writes an account.json over another: what UpdateBegin found is still so.
SavePart(p) ==
    LET a == req[p].account
    IN  /\ req[p].op = "update" /\ a \in Listed
        /\ req[p].archived => Archived(a) \/ \E b \in Unarchived : b # a

RequestPart(p) ==
    /\ req[p].op = "add" /\ req[p].step # "idle" => AddPart(p)
    /\ req[p].step \in {"key", "meta", "undo"} => req[p].op = "add"
    /\ req[p].op \in NewKey /\ req[p].step # "idle" => KeyPart(p)
    /\ req[p].step = "write" =>
          req[p].op \in NewKey \/ (req[p].op = "password" /\ key[req[p].account] # None)
    /\ req[p].step # "idle" /\ req[p].op \in NewKey \cup {"password", "decrypt"} =>
          req[p].account \in opened
    /\ req[p].step = "save" => SavePart(p)

AccountsInv ==
    TypeInv /\ FilePart /\ LockPart /\ Distinct /\ \A p \in Request : RequestPart(p)

----------------------------------------------------------------------------
(* The beginning. *)

LEMMA InitAccountsInv ==
    ASSUME Init
    PROVE  AccountsInv
<1>1. Listed = {Root} /\ Unarchived = {Root}
    BY AccountsAssumption DEF Init, Listed, Unarchived, Archived
<1>2. IsFiniteSet(dir) /\ Cardinality(Listed) = 1
    BY <1>1, FS_EmptySet, FS_Singleton DEF Init
<1>3. TypeInv
    BY AccountsAssumption DEF Init, TypeInv, Idle, Op, Step, Address
<1>4. FilePart
    BY <1>1, <1>2, AccountsAssumption DEF Init, FilePart, SomeUnarchived, AnsweredKept
<1>5. \A p \in Request : req[p].step = "idle"
    BY DEF Init, Idle
<1>6. LockPart /\ Distinct /\ \A p \in Request : RequestPart(p)
    BY <1>5 DEF LockPart, Distinct, Adding, RequestPart
<1> QED
    BY <1>3, <1>4, <1>6 DEF AccountsInv

----------------------------------------------------------------------------
(* Requests move and return. *)

ReqType == [Request -> [op : Op, step : Step, account : Account,
                        address : Address \cup {None}, archived : BOOLEAN]]

LockType ==
    /\ sendMu \in Request \cup {None} /\ catalogMu \in Request \cup {None}
    /\ mu \in [Account -> Request \cup {None}]
    /\ scryptSem \in [Account -> Request \cup {None}]

LEMMA RequestIs ==
    ASSUME TypeInv, NEW p \in Request
    PROVE  /\ req[p].op \in Op /\ req[p].step \in Step /\ req[p].account \in Account
           /\ req[p].address \in Address \cup {None}
    BY DEF TypeInv

LEMMA GoIs ==
    ASSUME TypeInv, NEW p \in Request, NEW step \in Step, Go(p, step)
    PROVE  /\ req' \in ReqType
           /\ \A q \in Request \ {p} : req'[q] = req[q]
           /\ req'[p].step = step /\ req'[p].op = req[p].op /\ req'[p].account = req[p].account
           /\ req'[p].address = req[p].address /\ req'[p].archived = req[p].archived
<1> DEFINE r == [req[p] EXCEPT !.step = step]
<1>1. req' = [req EXCEPT ![p] = r]
    BY DEF Go
<1>2. /\ r \in [op : Op, step : Step, account : Account,
                address : Address \cup {None}, archived : BOOLEAN]
      /\ r.step = step /\ r.op = req[p].op /\ r.account = req[p].account
      /\ r.address = req[p].address /\ r.archived = req[p].archived
    BY DEF TypeInv
<1> HIDE DEF r
<1> QED
    BY <1>1, <1>2 DEF TypeInv, ReqType

\* A request that returns gives back its own locks and no others.
LEMMA ReturnIs ==
    ASSUME TypeInv, LockPart, NEW p \in Request, Return(p)
    PROVE  /\ req' \in ReqType /\ LockType'
           /\ \A q \in Request \ {p} : req'[q] = req[q]
           /\ req'[p].step = "idle"
           /\ LockPart'
<1>1. /\ req' = [req EXCEPT ![p] = Idle]
      /\ sendMu' = Freed(sendMu, p) /\ catalogMu' = Freed(catalogMu, p)
      /\ mu' = [a \in Account |-> Freed(mu[a], p)]
      /\ scryptSem' = [a \in Account |-> Freed(scryptSem[a], p)]
    BY DEF Return
<1>2. Idle \in [op : Op, step : Step, account : Account,
                address : Address \cup {None}, archived : BOOLEAN]
    BY AccountsAssumption DEF Idle, Op, Step
<1>3. /\ req' \in ReqType /\ \A q \in Request \ {p} : req'[q] = req[q]
      /\ req'[p] = Idle
    BY <1>1, <1>2 DEF TypeInv, ReqType
<1>4. LockType'
    BY <1>1 DEF LockType, TypeInv, Freed
<1>5. LockPart'
    <2> SUFFICES ASSUME NEW q \in Request
                 PROVE  LockPart!(q)'
        BY DEF LockPart
    <2>1. CASE q = p
        BY <1>3, <2>1 DEF Idle
    <2>2. CASE q # p
        BY <1>1, <1>3, <2>2 DEF LockPart, Freed
    <2> QED
        BY <2>1, <2>2
<1> QED
    BY <1>3, <1>4, <1>5 DEF Idle

\* A step that leaves the files and what is known of them alone.
Quiet == UNCHANGED <<dir, key, meta, opened, answered>>

LEMMA QuietIs ==
    ASSUME Quiet, NEW q, req'[q] = req[q]
    PROVE  /\ FilePart => FilePart'
           /\ RequestPart(q) => RequestPart(q)'
<1>1. Unarchived' = Unarchived /\ Listed' = Listed /\ \A a : Archived(a)' = Archived(a)
    BY DEF Quiet, Unarchived, Listed, Archived
<1>2. FilePart => FilePart'
    BY <1>1 DEF Quiet, FilePart, SomeUnarchived, AnsweredKept
<1>3. RequestPart(q) => RequestPart(q)'
    BY <1>1 DEF Quiet, RequestPart, AddPart, KeyPart, SavePart
<1> QED
    BY <1>2, <1>3

\* A quiet step of one request: what remains is what the request itself may rely on.
LEMMA QuietStep ==
    ASSUME AccountsInv, Quiet, NEW p \in Request, req' \in ReqType, LockType', LockPart',
           spent' \in [restart : 0..MaxRestarts, write : 0..MaxWriteErrors],
           \A q \in Request \ {p} : req'[q] = req[q],
           RequestPart(p)',
           Adding(p)' => Adding(p) /\ req'[p].account = req[p].account
    PROVE  AccountsInv'
<1>1. TypeInv'
    BY DEF AccountsInv, TypeInv, Quiet, ReqType, LockType
<1>2. FilePart'
    <2>1. Unarchived' = Unarchived /\ Listed' = Listed
        BY DEF Quiet, Unarchived, Listed, Archived
    <2> QED
        BY <2>1 DEF AccountsInv, Quiet, FilePart, SomeUnarchived, AnsweredKept
<1>3. Distinct'
    BY DEF AccountsInv, Distinct, Adding
<1>4. \A q \in Request \ {p} : RequestPart(q)'
    BY QuietIs DEF AccountsInv
<1> QED
    BY <1>1, <1>2, <1>3, <1>4 DEF AccountsInv

LEMMA QuietReturn ==
    ASSUME AccountsInv, Quiet, NEW p \in Request, Return(p),
           spent' \in [restart : 0..MaxRestarts, write : 0..MaxWriteErrors]
    PROVE  AccountsInv'
<1>1. /\ req' \in ReqType /\ LockType' /\ LockPart'
      /\ \A q \in Request \ {p} : req'[q] = req[q]
      /\ req'[p].step = "idle"
    BY ReturnIs DEF AccountsInv
<1>2. RequestPart(p)' /\ ~Adding(p)'
    BY <1>1 DEF RequestPart, Adding
<1> QED
    BY <1>1, <1>2, QuietStep

\* A failed write is counted up to its bound.
LEMMA ChargeIs ==
    ASSUME TypeInv, NEW outcome, Charge(outcome)
    PROVE  spent' \in [restart : 0..MaxRestarts, write : 0..MaxWriteErrors]
<1>1. CASE outcome = "ok"
    BY <1>1 DEF Charge, TypeInv
<1>2. CASE outcome # "ok"
    <2> DEFINE s == [spent EXCEPT !.write = @ + 1]
    <2>1. spent.write \in 0..MaxWriteErrors /\ spent.write < MaxWriteErrors
        BY <1>2 DEF Charge, TypeInv
    <2>2. spent.write + 1 \in 0..MaxWriteErrors
        BY <2>1, AccountsAssumption
    <2> QED
        BY <1>2, <2>2 DEF Charge, TypeInv
<1> QED
    BY <1>1, <1>2

----------------------------------------------------------------------------
(* Requests begin and take locks. *)

LEMMA StartIs ==
    ASSUME TypeInv, LockPart, NEW p \in Request, NEW op \in Op, NEW a \in Account,
           NEW x \in Address \cup {None}, NEW archived \in BOOLEAN, Start(p, op, a, x, archived)
    PROVE  /\ req' \in ReqType /\ LockType' /\ LockPart' /\ Quiet /\ spent' = spent
           /\ req[p] = Idle /\ \A q \in Request \ {p} : req'[q] = req[q]
           /\ req'[p].op = op /\ req'[p].account = a /\ req'[p].address = x
           /\ req'[p].step \in {"send", "catalog", "file"}
           /\ op \in {"add", "update"} => req'[p].step = "send"
           /\ req'[p].step = "file" => op \notin NewKey
<1> DEFINE step == IF LocksRoot(op, a) THEN "send" ELSE IF op \in NewKey THEN "catalog" ELSE "file"
           r == [op |-> op, account |-> a, address |-> x, archived |-> archived, step |-> step]
<1>1. /\ req[p] = Idle /\ req' = [req EXCEPT ![p] = r]
      /\ UNCHANGED <<dir, key, meta, opened, sendMu, catalogMu, mu, scryptSem, answered, spent>>
    BY DEF Start, fileVars, lockVars
<1>2. /\ step \in {"send", "catalog", "file"} /\ step \in Step
      /\ op \in {"add", "update"} => step = "send"
      /\ step = "file" => op \notin NewKey
    BY DEF LocksRoot, Step
<1> HIDE DEF step
<1>3. /\ r \in [op : Op, step : Step, account : Account,
                address : Address \cup {None}, archived : BOOLEAN]
      /\ r.op = op /\ r.account = a /\ r.address = x /\ r.step = step
    BY <1>2
<1> HIDE DEF r
<1>4. /\ req' \in ReqType /\ \A q \in Request \ {p} : req'[q] = req[q]
      /\ req'[p] = r
    BY <1>1, <1>3 DEF TypeInv, ReqType
<1>5. LockType' /\ Quiet
    BY <1>1 DEF LockType, TypeInv, Quiet
<1>6. LockPart'
    <2> SUFFICES ASSUME NEW q \in Request
                 PROVE  LockPart!(q)'
        BY DEF LockPart
    <2>1. CASE q = p
        BY <1>2, <1>3, <1>4, <2>1
    <2>2. CASE q # p
        BY <1>1, <1>4, <2>2 DEF LockPart
    <2> QED
        BY <2>1, <2>2
<1> QED
    BY <1>1, <1>2, <1>3, <1>4, <1>5, <1>6

LEMMA KnownIs ==
    ASSUME AccountsInv, NEW x \in Known
    PROVE  x = Old \/ (x \in opened /\ x \in Account /\ key[x] = x)
<1>1. CASE x = Old
    BY <1>1
<1>2. CASE x # Old
    <2>1. PICK b \in opened : x = key[b] /\ key[b] # None
        BY <1>2 DEF Known
    <2>2. b \in Account /\ key[b] = b
        BY <1>2, <2>1 DEF AccountsInv, TypeInv, FilePart
    <2> QED
        BY <2>1, <2>2
<1> QED
    BY <1>1, <1>2

\* A request begins that adds no account.
LEMMA BeginStep ==
    ASSUME AccountsInv, NEW p \in Request, NEW op \in Op \ {"add"}, NEW a \in Account,
           NEW x \in Address \cup {None}, NEW archived \in BOOLEAN, Start(p, op, a, x, archived),
           op \in NewKey \cup {"password", "decrypt"} => a \in opened,
           op = "create" => x = a,
           op \in NewKey \ {"create"} => x = Old \/ (x \in opened /\ key[x] = x)
    PROVE  AccountsInv'
<1>1. /\ req' \in ReqType /\ LockType' /\ LockPart' /\ Quiet /\ spent' = spent
      /\ \A q \in Request \ {p} : req'[q] = req[q]
      /\ req'[p].op = op /\ req'[p].account = a /\ req'[p].address = x
      /\ req'[p].step \in {"send", "catalog", "file"}
    BY StartIs DEF AccountsInv
<1>2. op \in NewKey => KeyPart(p)'
    BY <1>1 DEF KeyPart, Quiet
<1>3. RequestPart(p)' /\ ~Adding(p)'
    BY <1>1, <1>2 DEF Adding, RequestPart, Quiet
<1>4. spent' \in [restart : 0..MaxRestarts, write : 0..MaxWriteErrors]
    BY <1>1 DEF AccountsInv, TypeInv
<1> QED
    BY <1>1, <1>3, <1>4, QuietStep

LEMMA AddStartStep ==
    ASSUME AccountsInv, NEW p \in Request, NEW a \in Account, Unused(a), NEW archived \in BOOLEAN,
           Start(p, "add", a, a, archived)
    PROVE  AccountsInv'
<1>1. "add" \in Op /\ a \in Address \cup {None} /\ "add" \notin NewKey
    BY DEF Op, NewKey, Address
<1>2. /\ req' \in ReqType /\ LockType' /\ LockPart' /\ Quiet /\ spent' = spent
      /\ \A q \in Request \ {p} : req'[q] = req[q]
      /\ req'[p].op = "add" /\ req'[p].account = a /\ req'[p].step = "send"
    BY <1>1, StartIs DEF AccountsInv
<1>3. a \notin Listed /\ \A q \in Request : req[q].account # a
    BY DEF Unused
<1>4. AddPart(p)'
    <2>1. a # Root /\ a \notin dir /\ a \notin opened /\ key[a] = None
        BY <1>3 DEF Listed, FilePart, AccountsInv
    <2>2. \A w \in answered : w[1] # a
        BY <1>3 DEF FilePart, AnsweredKept, Listed, AccountsInv
    <2> QED
        BY <1>2, <2>1, <2>2 DEF AddPart, Quiet
<1>5. RequestPart(p)'
    BY <1>1, <1>2, <1>4 DEF RequestPart
<1>6. Distinct'
    BY <1>2, <1>3 DEF Distinct, Adding, AccountsInv
<1>7. TypeInv'
    BY <1>2 DEF TypeInv, Quiet, ReqType, LockType, AccountsInv
<1>8. FilePart'
    <2>1. Unarchived' = Unarchived /\ Listed' = Listed
        BY <1>2 DEF Quiet, Unarchived, Listed, Archived
    <2> QED
        BY <1>2, <2>1 DEF Quiet, FilePart, SomeUnarchived, AnsweredKept, AccountsInv
<1>9. \A q \in Request \ {p} : RequestPart(q)'
    BY <1>2, QuietIs DEF AccountsInv
<1> QED
    BY <1>2, <1>5, <1>6, <1>7, <1>8, <1>9 DEF AccountsInv

LEMMA StartingStep ==
    ASSUME AccountsInv, NEW p \in Request, Starting(p)
    PROVE  AccountsInv'
<1>1. opened \subseteq Account /\ Listed \subseteq Account
    BY AccountsAssumption DEF AccountsInv, TypeInv, Listed
<1>2. /\ {"create", "import", "keystore", "password", "decrypt", "update"} \subseteq Op \ {"add"}
      /\ {"import", "keystore"} \subseteq NewKey \ {"create"} /\ "update" \notin NewKey
      /\ {"password", "decrypt"} \cap NewKey = {}
      /\ Account \subseteq Address \cup {None} /\ FALSE \in BOOLEAN
    BY DEF Op, NewKey, Address
<1>3. ASSUME NEW a \in opened, Start(p, "create", a, a, FALSE)
      PROVE  AccountsInv'
    BY <1>1, <1>2, <1>3, BeginStep
<1>4. ASSUME NEW a \in opened, NEW op \in {"import", "keystore"}, NEW x \in Known,
             Start(p, op, a, x, FALSE)
      PROVE  AccountsInv'
    <2>1. x = Old \/ (x \in opened /\ key[x] = x)
        BY KnownIs
    <2>2. x \in Address \cup {None}
        BY <2>1, <1>1 DEF Address
    <2> QED
        BY <1>1, <1>2, <1>4, <2>1, <2>2, BeginStep
<1>5. ASSUME NEW a \in opened, NEW op \in {"password", "decrypt"}, Start(p, op, a, None, FALSE)
      PROVE  AccountsInv'
    BY <1>1, <1>2, <1>5, BeginStep
<1>6. ASSUME NEW a \in Listed, NEW archived \in BOOLEAN, Start(p, "update", a, None, archived)
      PROVE  AccountsInv'
    BY <1>1, <1>2, <1>6, BeginStep
<1> QED
    BY <1>2, <1>3, <1>4, <1>5, <1>6, AddStartStep DEF Starting

\* A request that goes on keeps the others' locks, and takes its own only free.
LEMMA GoLocks ==
    ASSUME TypeInv, LockPart, NEW p \in Request, NEW step \in Step, Go(p, step),
           sendMu' = sendMu \/ (sendMu = None /\ sendMu' = p),
           catalogMu' = catalogMu \/ (catalogMu = None /\ catalogMu' = p),
           step \in {"list", "key", "meta", "undo", "save"} => sendMu' = p,
           req[p].op \in NewKey /\ step \in {"file", "write"} => catalogMu' = p
    PROVE  LockPart'
<1> SUFFICES ASSUME NEW q \in Request
             PROVE  LockPart!(q)'
    BY DEF LockPart
<1>1. CASE q = p
    BY <1>1, GoIs
<1>2. CASE q # p
    BY <1>2, GoIs, AccountsAssumption DEF LockPart
<1> QED
    BY <1>1, <1>2

LEMMA LockSendStep ==
    ASSUME AccountsInv, NEW p \in Request, LockSend(p)
    PROVE  AccountsInv'
<1> DEFINE step == CASE req[p].op = "keystore" -> "catalog"
                     [] req[p].op = "password" -> "file"
                     [] OTHER -> "list"
<1>1. /\ req[p].step = "send" /\ req[p].op \in {"keystore", "password", "add", "update"}
      /\ sendMu = None /\ sendMu' = p /\ Go(p, step)
      /\ UNCHANGED <<dir, key, meta, opened, catalogMu, mu, scryptSem, answered, spent>>
    BY DEF LockSend, SendMuFree, fileVars
<1>2. /\ step \in Step /\ step \in {"catalog", "file", "list"}
      /\ req[p].op \in NewKey => step = "catalog"
      /\ req[p].op = "add" => step = "list"
    BY <1>1 DEF Step, NewKey
<1> HIDE DEF step
<1>3. LockPart'
    BY <1>1, <1>2, GoLocks DEF AccountsInv
<1>4. LockType' /\ Quiet /\ spent' \in [restart : 0..MaxRestarts, write : 0..MaxWriteErrors]
    BY <1>1 DEF LockType, Quiet, AccountsInv, TypeInv
<1>5. /\ req' \in ReqType /\ \A q \in Request \ {p} : req'[q] = req[q]
      /\ req'[p].step = step /\ req'[p].op = req[p].op /\ req'[p].account = req[p].account
      /\ req'[p].address = req[p].address
    BY <1>1, <1>2, GoIs DEF AccountsInv
<1>6. RequestPart(p)' /\ (Adding(p)' => Adding(p))
    <2>1. RequestPart(p)
        BY DEF AccountsInv
    <2>2. req[p].op = "add" => AddPart(p)'
        BY <1>1, <1>2, <1>4, <1>5, <2>1 DEF RequestPart, AddPart, Quiet
    <2>3. req[p].op \in NewKey => KeyPart(p)'
        BY <1>1, <1>2, <1>4, <1>5, <2>1 DEF RequestPart, KeyPart, Quiet
    <2> QED
        BY <1>1, <1>2, <1>4, <1>5, <2>1, <2>2, <2>3 DEF RequestPart, Adding, Quiet
<1> QED
    BY <1>3, <1>4, <1>5, <1>6, QuietStep

LEMMA LockCatalogStep ==
    ASSUME AccountsInv, NEW p \in Request, LockCatalog(p)
    PROVE  AccountsInv'
<1>1. /\ req[p].step = "catalog" /\ catalogMu = None /\ catalogMu' = p /\ Go(p, "file")
      /\ UNCHANGED <<dir, key, meta, opened, sendMu, mu, scryptSem, answered, spent>>
    BY DEF LockCatalog, CatalogMuFree, fileVars
<1>2. "file" \in Step
    BY DEF Step
<1>3. LockPart'
    BY <1>1, <1>2, GoLocks DEF AccountsInv
<1>4. LockType' /\ Quiet /\ spent' \in [restart : 0..MaxRestarts, write : 0..MaxWriteErrors]
    BY <1>1 DEF LockType, Quiet, AccountsInv, TypeInv
<1>5. /\ req' \in ReqType /\ \A q \in Request \ {p} : req'[q] = req[q]
      /\ req'[p].step = "file" /\ req'[p].op = req[p].op /\ req'[p].account = req[p].account
      /\ req'[p].address = req[p].address
    BY <1>1, <1>2, GoIs DEF AccountsInv
<1>6. RequestPart(p)' /\ ~Adding(p)'
    <2>1. RequestPart(p)
        BY DEF AccountsInv
    <2>2. req[p].op # "add"
        BY <1>1, <2>1 DEF RequestPart, AddPart
    <2> QED
        BY <1>1, <1>4, <1>5, <2>1, <2>2 DEF RequestPart, KeyPart, Adding, Quiet
<1> QED
    BY <1>3, <1>4, <1>5, <1>6, QuietStep

----------------------------------------------------------------------------
(* The keystores. *)

LEMMA OpenFileStep ==
    ASSUME AccountsInv, NEW p \in Request, OpenFile(p)
    PROVE  AccountsInv'
<1> DEFINE a == req[p].account
           x == req[p].address
<1>1. /\ req[p].step = "file" /\ req[p].op \in NewKey \cup {"password"} /\ a \in Account
      /\ UNCHANGED <<dir, key, meta, opened, answered, spent>>
      /\ \/ Return(p)
         \/ /\ ~Refused(req[p])
            /\ mu' = [mu EXCEPT ![a] = p] /\ scryptSem' = [scryptSem EXCEPT ![a] = p]
            /\ Go(p, "write") /\ UNCHANGED <<sendMu, catalogMu>>
    BY RequestIs DEF OpenFile, fileVars, AccountsInv
<1>2. Quiet /\ spent' \in [restart : 0..MaxRestarts, write : 0..MaxWriteErrors]
    BY <1>1 DEF Quiet, AccountsInv, TypeInv
<1>3. CASE Return(p)
    BY <1>2, <1>3, QuietReturn
<1>4. CASE /\ ~Refused(req[p])
           /\ mu' = [mu EXCEPT ![a] = p] /\ scryptSem' = [scryptSem EXCEPT ![a] = p]
           /\ Go(p, "write") /\ UNCHANGED <<sendMu, catalogMu>>
    <2>1. "write" \in Step
        BY DEF Step
    <2>2. LockPart'
        <3>1. req[p].op \in NewKey => catalogMu = p
            BY <1>1 DEF AccountsInv, LockPart
        <3> QED
            BY <1>4, <2>1, <3>1, GoLocks DEF AccountsInv
    <2>3. LockType'
        BY <1>1, <1>4 DEF LockType, AccountsInv, TypeInv
    <2>4. /\ req' \in ReqType /\ \A q \in Request \ {p} : req'[q] = req[q]
          /\ req'[p].step = "write" /\ req'[p].op = req[p].op /\ req'[p].account = a
          /\ req'[p].address = x
        BY <1>4, <2>1, GoIs DEF AccountsInv
    <2>5. RequestPart(p)
        BY DEF AccountsInv
    <2>6. req[p].op \in NewKey => KeyPart(p)'
        <3> SUFFICES ASSUME req[p].op \in NewKey
                     PROVE  KeyPart(p)'
            OBVIOUS
        <3>1. KeyPart(p)
            BY <1>1, <2>5 DEF RequestPart
        <3>2. key[a] = None /\ ~Duplicate(a, x)
            BY <1>4 DEF Refused
        <3>3. x \in {a, Old}
            <4>1. CASE req[p].op = "create"
                BY <3>1, <4>1 DEF KeyPart
            <4>2. CASE x \in opened /\ key[x] = x
                <5>1. x \in Account /\ x # None
                    BY <4>2, AccountsAssumption DEF AccountsInv, TypeInv
                <5> QED
                    BY <3>2, <4>2, <5>1 DEF Duplicate
            <4> QED
                BY <3>1, <4>1, <4>2 DEF KeyPart
        <3>4. x = Old => \A b \in Account : key[b] # Old
            <4>1. None # Old
                BY AccountsAssumption
            <4> QED
                BY <3>2, <4>1 DEF Duplicate
        <3> QED
            BY <1>2, <2>4, <3>1, <3>2, <3>3, <3>4 DEF KeyPart, Quiet
    <2>7. req[p].op = "password" => key[a] # None
        BY <1>4 DEF Refused, NewKey
    <2>8. RequestPart(p)' /\ ~Adding(p)'
        BY <1>1, <1>2, <2>4, <2>5, <2>6, <2>7 DEF RequestPart, Adding, Quiet, NewKey
    <2> QED
        BY <1>2, <2>2, <2>3, <2>4, <2>8, QuietStep
<1> QED
    BY <1>1, <1>3, <1>4

\* The key is written where there was none, or again as it was.
LEMMA WriteKeyStep ==
    ASSUME AccountsInv, NEW p \in Request, NEW outcome \in WriteOutcome, WriteKey(p, outcome)
    PROVE  AccountsInv'
<1> USE DEF AccountsInv
<1> DEFINE a == req[p].account
           x == IF req[p].op \in NewKey THEN req[p].address ELSE key[a]
<1>1. /\ req[p].step = "write" /\ Charge(outcome) /\ key' = Write(key, a, x, outcome) /\ Return(p)
      /\ IF outcome = "ok" THEN Answer(a, x) ELSE answered' = answered
      /\ UNCHANGED <<dir, meta, opened>>
    BY DEF WriteKey
<1>2. a \in Account /\ a \in opened /\ req[p].op \in NewKey \cup {"password"}
    BY <1>1, RequestIs DEF RequestPart
<1>3. \/ x = key[a] /\ key[a] # None
      \/ req[p].op \in NewKey /\ key[a] = None /\ x \in {a, Old} /\ (x = Old => \A b \in Account : key[b] # Old)
    BY <1>1, <1>2 DEF RequestPart, KeyPart
<1>4. x \in {a, Old} /\ x \in Address \cup {None} /\ x # None
    BY <1>2, <1>3, AccountsAssumption DEF FilePart, Address
<1> HIDE DEF x
<1>5. /\ key' \in [Account -> Address \cup {None}]
      /\ \A b \in Account \ {a} : key'[b] = key[b]
      /\ key'[a] \in {key[a], x}
      /\ outcome = "ok" => key'[a] = x
    BY <1>1, <1>2, <1>4 DEF Write, TypeInv
<1>6. /\ req' \in ReqType /\ LockType' /\ LockPart'
      /\ \A q \in Request \ {p} : req'[q] = req[q]
      /\ req'[p].step = "idle"
    BY <1>1, ReturnIs
<1>7. spent' \in [restart : 0..MaxRestarts, write : 0..MaxWriteErrors]
    BY <1>1, ChargeIs
<1>8. TypeInv'
    BY <1>1, <1>5, <1>6, <1>7 DEF TypeInv, ReqType, LockType
<1>9. /\ Listed' = Listed /\ Unarchived' = Unarchived /\ \A b : Archived(b)' = Archived(b)
    BY <1>1 DEF Listed, Unarchived, Archived
<1>10. \A w \in answered' : w \in answered \/ w = <<a, key'[a]>>
    BY <1>1, <1>5 DEF Answer
<1>11. a = Root \/ (a \in dir /\ meta[a] # "none")
    BY <1>2 DEF FilePart
<1>12. /\ AnsweredKept'
       /\ \A w \in answered' : w[1] \in Account /\ w[2] # None
    <2> SUFFICES ASSUME NEW w \in answered'
                 PROVE  /\ key'[w[1]] = w[2]
                        /\ w[1] # Root => w[1] \in dir /\ meta[w[1]] # "none"
                        /\ w[1] \in Account /\ w[2] # None
        BY <1>1 DEF AnsweredKept
    <2>1. CASE w \notin answered
        <3>1. w = <<a, x>> /\ key'[a] = x
            BY <1>1, <1>5, <2>1 DEF Answer
        <3> QED
            BY <1>2, <1>4, <1>11, <3>1
    <2>2. CASE w \in answered
        <3>1. /\ key[w[1]] = w[2] /\ (w[1] # Root => w[1] \in dir /\ meta[w[1]] # "none")
              /\ w[1] \in Account /\ w[2] # None
            BY <2>2 DEF FilePart, AnsweredKept
        <3>2. key'[w[1]] = key[w[1]]
            BY <1>3, <1>5, <3>1
        <3> QED
            BY <3>1, <3>2
    <2> QED
        BY <2>1, <2>2
<1>13. FilePart'
    <2>1. \A b, c \in Account : key'[b] = Old /\ key'[c] = Old => b = c
        BY <1>3, <1>5 DEF FilePart
    <2>2. \A b \in Account : key'[b] \in {b, Old, None}
        BY <1>4, <1>5 DEF FilePart
    <2>3. \A b \in Account : key'[b] # None \/ meta[b] # "none" => b \in Listed
        BY <1>5, <1>11 DEF FilePart, Listed
    <2> QED
        BY <1>1, <1>9, <1>12, <2>1, <2>2, <2>3 DEF FilePart, SomeUnarchived
<1>14. Distinct'
    BY <1>6 DEF Distinct, Adding
<1>15. ASSUME NEW q \in Request PROVE RequestPart(q)'
    <2>1. CASE q = p
        BY <1>6, <2>1 DEF RequestPart
    <2>2. CASE q # p
        <3>1. req'[q] = req[q] /\ RequestPart(q)
            BY <1>6, <2>2
        <3>2. Adding(q) => AddPart(q)'
            BY <1>1, <1>2, <1>5, <1>9, <1>10, <3>1, RequestIs DEF RequestPart, AddPart, Adding
        <3>3. req[q].op \in NewKey /\ req[q].step # "idle" => KeyPart(q)'
            <4> SUFFICES ASSUME req[q].op \in NewKey, req[q].step # "idle"
                         PROVE  KeyPart(q)'
                OBVIOUS
            <4>1. KeyPart(q)
                BY <3>1 DEF RequestPart
            <4>2. req[q].step = "write" => req[p].op \notin NewKey
                BY <1>1, <2>2 DEF LockPart
            <4>3. req[q].step = "write" => \A b \in Account : key'[b] = key[b]
                BY <1>3, <1>5, <4>2
            <4>4. \A b \in opened : key[b] = b => key'[b] = b
                BY <1>3, <1>5, AccountsAssumption DEF TypeInv
            <4> QED
                BY <1>1, <3>1, <4>1, <4>3, <4>4, RequestIs DEF KeyPart
        <3>4. req[q].step = "save" => SavePart(q)'
            BY <1>1, <1>9, <3>1 DEF RequestPart, SavePart
        <3>5. req[q].op = "password" /\ key[req[q].account] # None => key'[req[q].account] # None
            BY <1>3, <1>5, RequestIs
        <3> QED
            BY <1>1, <3>1, <3>2, <3>3, <3>4, <3>5 DEF RequestPart, Adding
    <2> QED
        BY <2>1, <2>2
<1> QED
    BY <1>6, <1>8, <1>13, <1>14, <1>15

LEMMA ReadFileStep ==
    ASSUME AccountsInv, NEW p \in Request, ReadFile(p)
    PROVE  AccountsInv'
<1> DEFINE a == req[p].account
<1>1. /\ req[p].step = "file" /\ req[p].op = "decrypt" /\ a \in Account
      /\ UNCHANGED <<dir, key, meta, opened, answered, spent>>
      /\ \/ Return(p)
         \/ /\ scryptSem' = [scryptSem EXCEPT ![a] = p]
            /\ Go(p, "unlock") /\ UNCHANGED <<sendMu, catalogMu, mu>>
    BY RequestIs DEF ReadFile, fileVars, AccountsInv
<1>2. Quiet /\ spent' \in [restart : 0..MaxRestarts, write : 0..MaxWriteErrors]
    BY <1>1 DEF Quiet, AccountsInv, TypeInv
<1>3. CASE Return(p)
    BY <1>2, <1>3, QuietReturn
<1>4. CASE scryptSem' = [scryptSem EXCEPT ![a] = p] /\ Go(p, "unlock") /\ UNCHANGED <<sendMu, catalogMu, mu>>
    <2>1. "unlock" \in Step
        BY DEF Step
    <2>2. LockPart'
        BY <1>4, <2>1, GoLocks DEF AccountsInv
    <2>3. LockType'
        BY <1>1, <1>4 DEF LockType, AccountsInv, TypeInv
    <2>4. /\ req' \in ReqType /\ \A q \in Request \ {p} : req'[q] = req[q]
          /\ req'[p].step = "unlock" /\ req'[p].op = "decrypt" /\ req'[p].account = a
        BY <1>1, <1>4, <2>1, GoIs DEF AccountsInv
    <2>5. RequestPart(p)
        BY DEF AccountsInv
    <2>6. RequestPart(p)' /\ ~Adding(p)'
        BY <1>1, <1>2, <2>4, <2>5 DEF RequestPart, Adding, Quiet, NewKey
    <2> QED
        BY <1>2, <2>2, <2>3, <2>4, <2>6, QuietStep
<1> QED
    BY <1>1, <1>3, <1>4

LEMMA UnlockedStep ==
    ASSUME AccountsInv, NEW p \in Request, Unlocked(p)
    PROVE  AccountsInv'
<1>1. Return(p) /\ Quiet /\ spent' = spent
    BY DEF Unlocked, Quiet, fileVars
<1> QED
    BY <1>1, QuietReturn DEF AccountsInv, TypeInv

----------------------------------------------------------------------------
(* The catalogue. *)

\* While one request changes the catalogue no other does.
LEMMA Sole ==
    ASSUME LockPart, NEW p \in Request, sendMu = None \/ sendMu = p, NEW q \in Request \ {p}
    PROVE  req[q].step \notin {"key", "meta", "undo", "save"}
    BY AccountsAssumption DEF LockPart

\* The directory is made, with the accounts still within their bound.
LEMMA AddBeginStep ==
    ASSUME AccountsInv, NEW p \in Request, NEW withKey \in BOOLEAN, AddBegin(p, withKey)
    PROVE  AccountsInv'
<1> USE DEF AccountsInv
<1> DEFINE a == req[p].account
           step == IF withKey THEN "key" ELSE "meta"
<1>1. /\ req[p].step = "list" /\ req[p].op = "add" /\ sendMu = p
      /\ UNCHANGED <<key, meta, opened, answered, spent>>
      /\ \/ Return(p) /\ UNCHANGED dir
         \/ /\ ~Full /\ dir' = dir \cup {a} /\ Go(p, step)
            /\ UNCHANGED <<sendMu, catalogMu, mu, scryptSem>>
    BY DEF AddBegin, ListAccounts, lockVars, LockPart
<1>2. CASE Return(p) /\ UNCHANGED dir
    <2>1. Quiet /\ spent' \in [restart : 0..MaxRestarts, write : 0..MaxWriteErrors]
        BY <1>1, <1>2 DEF Quiet, TypeInv
    <2> HIDE DEF AccountsInv
    <2> QED
        BY <1>2, <2>1, QuietReturn
<1>3. CASE /\ ~Full /\ dir' = dir \cup {a} /\ Go(p, step)
           /\ UNCHANGED <<sendMu, catalogMu, mu, scryptSem>>
    <2>1. step \in {"key", "meta"} /\ step \in Step
        BY DEF Step
    <2> HIDE DEF step
    <2>2. /\ a \in Account /\ AddPart(p) /\ a # Root /\ a \notin dir
        BY <1>1, RequestIs DEF RequestPart, AddPart
    <2>3. /\ req' \in ReqType /\ \A q \in Request \ {p} : req'[q] = req[q]
          /\ req'[p].step = step /\ req'[p].op = "add" /\ req'[p].account = a
        BY <1>1, <1>3, <2>1, GoIs
    <2>4. LockPart'
        BY <1>1, <1>3, <2>1, GoLocks DEF NewKey
    <2>5. TypeInv'
        BY <1>1, <1>3, <2>2, <2>3 DEF TypeInv, ReqType
    <2>6. /\ Listed' = Listed \cup {a} /\ a \notin Listed
          /\ Unarchived \subseteq Unarchived' /\ Unarchived' \subseteq Unarchived \cup {a}
          /\ \A b : Archived(b)' = Archived(b)
        BY <1>1, <1>3, <2>2 DEF Listed, Unarchived, Archived
    <2>7. IsFiniteSet(dir') /\ Cardinality(Listed') <= MaxAccounts
        <3>1. IsFiniteSet(dir) /\ IsFiniteSet(Listed)
            BY FS_AddElement, FS_EmptySet, FS_Singleton, FS_Union DEF FilePart, Listed
        <3>2. Cardinality(Listed') = Cardinality(Listed) + 1
            BY <2>6, <3>1, FS_AddElement
        <3>3. Cardinality(Listed) \in Nat /\ Cardinality(Listed) < MaxAccounts
            BY <1>3, <3>1, FS_CardinalityType, AccountsAssumption DEF Full
        <3>4. IsFiniteSet(dir')
            BY <1>3, <3>1, FS_AddElement
        <3> QED
            BY <3>2, <3>3, <3>4, AccountsAssumption
    <2>8. FilePart'
        BY <1>1, <1>3, <2>6, <2>7 DEF FilePart, SomeUnarchived, AnsweredKept
    <2>9. Distinct'
        BY <1>1, <2>3 DEF Distinct, Adding
    <2>10. ASSUME NEW q \in Request PROVE RequestPart(q)'
        <3>1. CASE q = p
            <4>1. AddPart(p)'
                <5>1. PICK b \in Unarchived : TRUE
                    BY DEF FilePart, SomeUnarchived
                <5>2. b \in Unarchived' /\ b # a
                    BY <2>6 DEF Unarchived
                <5> QED
                    BY <1>1, <1>3, <2>1, <2>2, <2>3, <5>2 DEF AddPart
            <4> QED
                BY <2>1, <2>3, <3>1, <4>1 DEF RequestPart, NewKey
        <3>2. CASE q # p
            <4>1. req'[q] = req[q] /\ RequestPart(q)
                BY <2>3, <3>2
            <4>2. req[q].step \notin {"key", "meta", "undo", "save"}
                BY <1>1, <3>2, Sole
            <4>3. Adding(q) => AddPart(q)'
                <5>1. Adding(q) => req[q].account # a
                    BY <1>1, <3>2 DEF Distinct, Adding
                <5> QED
                    BY <1>1, <1>3, <4>1, <4>2, <5>1 DEF RequestPart, AddPart, Adding
            <4> QED
                BY <1>1, <4>1, <4>2, <4>3 DEF RequestPart, Adding, KeyPart
        <3> QED
            BY <3>1, <3>2
    <2> QED
        BY <2>4, <2>5, <2>8, <2>9, <2>10
<1> QED
    BY <1>1, <1>2, <1>3

\* The key of an account that is being added is drawn for it, so nobody else has it.
LEMMA AddKeyStep ==
    ASSUME AccountsInv, NEW p \in Request, NEW outcome \in WriteOutcome, AddKey(p, outcome)
    PROVE  AccountsInv'
<1> USE DEF AccountsInv
<1> DEFINE a == req[p].account
           step == IF outcome = "ok" THEN "meta" ELSE "undo"
<1>1. /\ req[p].step = "key" /\ Charge(outcome) /\ key' = Write(key, a, a, outcome) /\ Go(p, step)
      /\ UNCHANGED <<dir, meta, opened, sendMu, catalogMu, mu, scryptSem, answered>>
    BY DEF AddKey, lockVars
<1>2. step \in {"meta", "undo"} /\ step \in Step
    BY DEF Step
<1> HIDE DEF step
<1>3. a \in Account /\ Adding(p) /\ AddPart(p) /\ key[a] = None /\ sendMu = p /\ req[p].op = "add"
    BY <1>1, RequestIs DEF RequestPart, AddPart, Adding, LockPart
<1>4. /\ key' \in [Account -> Address \cup {None}]
      /\ \A b \in Account \ {a} : key'[b] = key[b]
      /\ key'[a] \in {a, None}
    BY <1>1, <1>3 DEF Write, TypeInv, Address
<1>5. /\ req' \in ReqType /\ \A q \in Request \ {p} : req'[q] = req[q]
      /\ req'[p].step = step /\ req'[p].op = "add" /\ req'[p].account = a
    BY <1>1, <1>2, <1>3, GoIs
<1>6. LockPart'
    BY <1>1, <1>2, <1>3, GoLocks DEF NewKey
<1>7. spent' \in [restart : 0..MaxRestarts, write : 0..MaxWriteErrors]
    BY <1>1, ChargeIs
<1>8. TypeInv'
    BY <1>1, <1>4, <1>5, <1>7 DEF TypeInv, ReqType
<1>9. /\ Listed' = Listed /\ Unarchived' = Unarchived /\ \A b : Archived(b)' = Archived(b)
    BY <1>1 DEF Listed, Unarchived, Archived
<1>10. a \in dir /\ a \notin opened /\ a # Old /\ \A w \in answered : w[1] # a
    BY <1>1, <1>3, AccountsAssumption DEF AddPart
<1>11. FilePart'
    <2>1. \A b, c \in Account : key'[b] = Old /\ key'[c] = Old => b = c
        BY <1>4, <1>10, AccountsAssumption DEF FilePart
    <2>2. \A b \in Account : key'[b] \in {b, Old, None}
        BY <1>4 DEF FilePart
    <2>3. \A b \in Account : key'[b] # None \/ meta[b] # "none" => b \in Listed
        BY <1>4, <1>10 DEF FilePart, Listed
    <2>4. AnsweredKept'
        BY <1>1, <1>4, <1>10 DEF FilePart, AnsweredKept
    <2> QED
        BY <1>1, <1>9, <2>1, <2>2, <2>3, <2>4 DEF FilePart, SomeUnarchived
<1>12. Distinct'
    BY <1>3, <1>5 DEF Distinct, Adding
<1>13. ASSUME NEW q \in Request PROVE RequestPart(q)'
    <2>1. CASE q = p
        <3>1. AddPart(p)'
            BY <1>1, <1>2, <1>3, <1>5, <1>9 DEF AddPart
        <3> QED
            BY <1>2, <1>5, <2>1, <3>1 DEF RequestPart, NewKey
    <2>2. CASE q # p
        <3>1. req'[q] = req[q] /\ RequestPart(q) /\ req[q].account \in Account
            BY <1>5, <2>2, RequestIs
        <3>2. req[q].step \notin {"key", "meta", "undo", "save"}
            BY <1>3, <2>2, Sole
        <3>3. Adding(q) => AddPart(q)'
            <4>1. Adding(q) => req[q].account # a
                BY <1>3, <2>2 DEF Distinct
            <4> QED
                BY <1>1, <1>4, <1>9, <3>1, <4>1 DEF RequestPart, AddPart, Adding
        <3>4. \A b \in opened : key'[b] = key[b]
            BY <1>4, <1>10 DEF TypeInv
        <3>5. req[q].op \in NewKey /\ req[q].step # "idle" => KeyPart(q)'
            BY <1>1, <1>4, <1>10, <3>1, <3>4, AccountsAssumption DEF RequestPart, KeyPart
        <3>6. req[q].step = "write" /\ req[q].op = "password" => key'[req[q].account] # None
            BY <3>1, <3>4 DEF RequestPart, NewKey
        <3> QED
            BY <1>1, <3>1, <3>2, <3>3, <3>5, <3>6 DEF RequestPart, Adding
    <2> QED
        BY <2>1, <2>2
<1> QED
    BY <1>6, <1>8, <1>11, <1>12, <1>13

\* account.json makes the directory an account; it is announced with its key.
LEMMA AddPublishStep ==
    ASSUME AccountsInv, NEW p \in Request, NEW outcome \in WriteOutcome, AddPublish(p, outcome)
    PROVE  AccountsInv'
<1> USE DEF AccountsInv
<1> DEFINE a == req[p].account
<1>1. /\ req[p].step = "meta" /\ Charge(outcome) /\ meta' = Write(meta, a, "open", outcome)
      /\ IF outcome = "ok"
         THEN Return(p) /\ (IF key[a] = None THEN answered' = answered ELSE Answer(a, key[a]))
         ELSE Go(p, "undo") /\ UNCHANGED <<sendMu, catalogMu, mu, scryptSem, answered>>
      /\ UNCHANGED <<dir, key, opened>>
    BY DEF AddPublish, lockVars
<1>2. a \in Account /\ Adding(p) /\ AddPart(p) /\ sendMu = p /\ req[p].op = "add"
    BY <1>1, RequestIs DEF RequestPart, AddPart, Adding, LockPart
<1>3. /\ a \in dir /\ a \notin opened /\ (\A w \in answered : w[1] # a)
      /\ \E b \in Unarchived : b # a
    BY <1>1, <1>2 DEF AddPart
<1>4. /\ meta' \in [Account -> {"none", "open", "archived"}]
      /\ \A b \in Account \ {a} : meta'[b] = meta[b]
      /\ outcome = "ok" => meta'[a] = "open"
    BY <1>1, <1>2 DEF Write, TypeInv
<1>5. "undo" \in Step
    BY DEF Step
<1>6. /\ req' \in ReqType /\ LockType' /\ LockPart'
      /\ \A q \in Request \ {p} : req'[q] = req[q]
      /\ \/ outcome = "ok" /\ req'[p].step = "idle"
         \/ outcome # "ok" /\ req'[p].step = "undo" /\ req'[p].op = "add" /\ req'[p].account = a
    <2>1. CASE outcome = "ok"
        BY <1>1, <2>1, ReturnIs
    <2>2. CASE outcome # "ok"
        <3>1. LockPart'
            BY <1>1, <1>2, <1>5, <2>2, GoLocks DEF NewKey
        <3>2. LockType'
            BY <1>1, <2>2 DEF LockType, TypeInv
        <3> QED
            BY <1>1, <1>2, <1>5, <2>2, <3>1, <3>2, GoIs
    <2> QED
        BY <2>1, <2>2
<1>7. spent' \in [restart : 0..MaxRestarts, write : 0..MaxWriteErrors]
    BY <1>1, ChargeIs
<1>8. TypeInv'
    BY <1>1, <1>4, <1>6, <1>7 DEF TypeInv, ReqType, LockType
<1>9. Listed' = Listed /\ \A b \in Unarchived : b # a => b \in Unarchived'
    BY <1>1, <1>4, AccountsAssumption DEF Listed, Unarchived, Archived, TypeInv
<1>10. \A w \in answered' : w \in answered \/ (outcome = "ok" /\ key[a] # None /\ w = <<a, key[a]>>)
    BY <1>1 DEF Answer
<1>11. FilePart'
    <2>1. \A b \in Account : key[b] # None \/ meta'[b] # "none" => b \in Listed
        BY <1>3, <1>4 DEF FilePart, Listed
    <2>2. \A b \in opened : b = Root \/ (b \in dir /\ meta'[b] # "none")
        BY <1>3, <1>4 DEF FilePart, TypeInv
    <2>3. SomeUnarchived'
        BY <1>3, <1>9 DEF SomeUnarchived
    <2>4. /\ AnsweredKept'
          /\ \A w \in answered' : w[1] \in Account /\ w[2] # None
        <3> SUFFICES ASSUME NEW w \in answered'
                     PROVE  /\ key[w[1]] = w[2]
                            /\ w[1] # Root => w[1] \in dir /\ meta'[w[1]] # "none"
                            /\ w[1] \in Account /\ w[2] # None
            BY <1>1 DEF AnsweredKept
        <3>1. CASE w \notin answered
            BY <1>2, <1>3, <1>4, <1>10, <3>1
        <3>2. CASE w \in answered
            BY <1>3, <1>4, <3>2 DEF FilePart, AnsweredKept
        <3> QED
            BY <3>1, <3>2
    <2> QED
        BY <1>1, <1>9, <2>1, <2>2, <2>3, <2>4 DEF FilePart
<1>12. Distinct'
    BY <1>2, <1>6 DEF Distinct, Adding
<1>13. ASSUME NEW q \in Request PROVE RequestPart(q)'
    <2>1. CASE q = p
        <3>1. CASE outcome = "ok"
            BY <1>6, <2>1, <3>1 DEF RequestPart
        <3>2. CASE outcome # "ok"
            <4>1. AddPart(p)'
                BY <1>1, <1>2, <1>3, <1>6, <1>9, <3>2 DEF AddPart
            <4> QED
                BY <1>6, <2>1, <3>2, <4>1 DEF RequestPart, NewKey
        <3> QED
            BY <3>1, <3>2
    <2>2. CASE q # p
        <3>1. req'[q] = req[q] /\ RequestPart(q)
            BY <1>6, <2>2
        <3>2. req[q].step \notin {"key", "meta", "undo", "save"}
            BY <1>2, <2>2, Sole
        <3>3. Adding(q) => AddPart(q)'
            <4>1. Adding(q) => req[q].account # a
                BY <1>2, <2>2 DEF Distinct
            <4> QED
                BY <1>1, <1>10, <3>1, <3>2, <4>1 DEF RequestPart, AddPart, Adding
        <3> QED
            BY <1>1, <3>1, <3>2, <3>3 DEF RequestPart, Adding, KeyPart
    <2> QED
        BY <2>1, <2>2
<1> QED
    BY <1>6, <1>8, <1>11, <1>12, <1>13

\* What is undone was never opened nor announced, and is not the last open wallet.
LEMMA AddUndoStep ==
    ASSUME AccountsInv, NEW p \in Request, AddUndo(p)
    PROVE  AccountsInv'
<1> USE DEF AccountsInv
<1> DEFINE a == req[p].account
<1>1. /\ req[p].step = "undo" /\ dir' = dir \ {a} /\ key' = [key EXCEPT ![a] = None]
      /\ meta' = [meta EXCEPT ![a] = "none"] /\ Return(p)
      /\ UNCHANGED <<opened, answered, spent>>
    BY DEF AddUndo
<1>2. a \in Account /\ Adding(p) /\ AddPart(p) /\ sendMu = p
    BY <1>1, RequestIs DEF RequestPart, AddPart, Adding, LockPart
<1>3. /\ a # Root /\ a \notin opened /\ (\A w \in answered : w[1] # a)
      /\ \E b \in Unarchived : b # a
    BY <1>1, <1>2 DEF AddPart
<1>4. /\ key' \in [Account -> Address \cup {None}]
      /\ meta' \in [Account -> {"none", "open", "archived"}]
      /\ \A b \in Account \ {a} : key'[b] = key[b] /\ meta'[b] = meta[b]
      /\ key'[a] = None /\ meta'[a] = "none"
    BY <1>1, <1>2 DEF TypeInv
<1>5. /\ req' \in ReqType /\ LockType' /\ LockPart'
      /\ \A q \in Request \ {p} : req'[q] = req[q]
      /\ req'[p].step = "idle"
    BY <1>1, ReturnIs
<1>6. TypeInv'
    BY <1>1, <1>4, <1>5 DEF TypeInv, ReqType, LockType
<1>7. /\ Listed' = Listed \ {a}
      /\ \A b \in Unarchived : b # a => b \in Unarchived'
    BY <1>1, <1>3, <1>4, AccountsAssumption DEF Listed, Unarchived, Archived, TypeInv
<1>8. IsFiniteSet(dir') /\ Cardinality(Listed') <= MaxAccounts
    <2>1. IsFiniteSet(dir) /\ IsFiniteSet(Listed)
        BY FS_EmptySet, FS_Singleton, FS_Union DEF FilePart, Listed
    <2>2. IsFiniteSet(dir')
        BY <1>1, <2>1, FS_Subset
    <2>3. Cardinality(Listed') <= Cardinality(Listed)
        BY <1>7, <2>1, FS_Subset
    <2>4. Cardinality(Listed') \in Nat /\ Cardinality(Listed) \in Nat
        BY <1>7, <2>1, FS_Subset, FS_CardinalityType
    <2> QED
        BY <2>2, <2>3, <2>4, AccountsAssumption DEF FilePart
<1>9. FilePart'
    <2>1. \A b \in Account : key'[b] # None \/ meta'[b] # "none" => b \in Listed'
        BY <1>4, <1>7 DEF FilePart
    <2>2. \A b \in opened : b = Root \/ (b \in dir' /\ meta'[b] # "none")
        BY <1>1, <1>3, <1>4 DEF FilePart, TypeInv
    <2>3. SomeUnarchived'
        BY <1>3, <1>7 DEF SomeUnarchived
    <2>4. AnsweredKept'
        BY <1>1, <1>3, <1>4 DEF FilePart, AnsweredKept
    <2>5. \A b \in Account : key'[b] \in {b, Old, None}
        BY <1>4 DEF FilePart
    <2>6. \A b, c \in Account : key'[b] = Old /\ key'[c] = Old => b = c
        BY <1>4, AccountsAssumption DEF FilePart
    <2> QED
        BY <1>1, <1>8, <2>1, <2>2, <2>3, <2>4, <2>5, <2>6 DEF FilePart
<1>10. Distinct'
    BY <1>5 DEF Distinct, Adding
<1>11. ASSUME NEW q \in Request PROVE RequestPart(q)'
    <2>1. CASE q = p
        BY <1>5, <2>1 DEF RequestPart
    <2>2. CASE q # p
        <3>1. req'[q] = req[q] /\ RequestPart(q) /\ req[q].account \in Account
            BY <1>5, <2>2, RequestIs
        <3>2. req[q].step \notin {"key", "meta", "undo", "save"}
            BY <1>2, <2>2, Sole
        <3>3. Adding(q) => AddPart(q)'
            <4>1. Adding(q) => req[q].account # a
                BY <1>2, <2>2 DEF Distinct
            <4> QED
                BY <1>1, <1>4, <3>1, <3>2, <4>1 DEF RequestPart, AddPart, Adding
        <3>4. \A b \in opened : key'[b] = key[b]
            BY <1>3, <1>4 DEF TypeInv
        <3>5. req[q].op \in NewKey /\ req[q].step # "idle" => KeyPart(q)'
            BY <1>1, <1>4, <3>1, <3>4, AccountsAssumption DEF RequestPart, KeyPart
        <3>6. req[q].step = "write" /\ req[q].op = "password" => key'[req[q].account] # None
            BY <3>1, <3>4 DEF RequestPart, NewKey
        <3> QED
            BY <1>1, <3>1, <3>2, <3>3, <3>5, <3>6 DEF RequestPart, Adding
    <2> QED
        BY <2>1, <2>2
<1> QED
    BY <1>5, <1>6, <1>9, <1>10, <1>11

\* A set with more than one element has one beside any other.
LEMMA Another ==
    ASSUME NEW S, IsFiniteSet(S), Cardinality(S) > 1, NEW a
    PROVE  \E b \in S : b # a
<1> SUFFICES ASSUME \A b \in S : b = a
             PROVE  FALSE
    OBVIOUS
<1>1. S \subseteq {a} /\ IsFiniteSet({a}) /\ Cardinality({a}) = 1
    BY FS_Singleton
<1>2. Cardinality(S) <= 1 /\ Cardinality(S) \in Nat
    BY <1>1, FS_Subset, FS_CardinalityType
<1> QED
    BY <1>2

\* The last wallet is not archived.
LEMMA UpdateBeginStep ==
    ASSUME AccountsInv, NEW p \in Request, UpdateBegin(p)
    PROVE  AccountsInv'
<1> DEFINE a == req[p].account
<1>1. /\ req[p].step = "list" /\ req[p].op = "update" /\ sendMu = p
      /\ UNCHANGED <<dir, key, meta, opened, answered, spent>>
      /\ \/ Return(p)
         \/ /\ a \in Listed
            /\ ~(req[p].archived /\ ~Archived(a) /\ Cardinality(Unarchived) <= 1)
            /\ Go(p, "save") /\ UNCHANGED <<sendMu, catalogMu, mu, scryptSem>>
    BY DEF UpdateBegin, ListAccounts, fileVars, lockVars, AccountsInv, LockPart
<1>2. Quiet /\ spent' \in [restart : 0..MaxRestarts, write : 0..MaxWriteErrors]
    BY <1>1 DEF Quiet, AccountsInv, TypeInv
<1>3. CASE Return(p)
    BY <1>2, <1>3, QuietReturn
<1>4. CASE /\ a \in Listed
           /\ ~(req[p].archived /\ ~Archived(a) /\ Cardinality(Unarchived) <= 1)
           /\ Go(p, "save") /\ UNCHANGED <<sendMu, catalogMu, mu, scryptSem>>
    <2>1. "save" \in Step
        BY DEF Step
    <2>2. LockPart'
        BY <1>1, <1>4, <2>1, GoLocks DEF AccountsInv
    <2>3. LockType'
        BY <1>4 DEF LockType, AccountsInv, TypeInv
    <2>4. /\ req' \in ReqType /\ \A q \in Request \ {p} : req'[q] = req[q]
          /\ req'[p].step = "save" /\ req'[p].op = "update" /\ req'[p].account = a
          /\ req'[p].archived = req[p].archived
        BY <1>1, <1>4, <2>1, GoIs DEF AccountsInv
    <2>5. req[p].archived => Archived(a) \/ \E b \in Unarchived : b # a
        <3>1. IsFiniteSet(Unarchived) /\ Cardinality(Unarchived) \in Nat
            BY FS_EmptySet, FS_Singleton, FS_Union, FS_Subset, FS_CardinalityType
            DEF AccountsInv, FilePart, Listed, Unarchived
        <3> QED
            BY <1>4, <3>1, Another
    <2>6. /\ Listed' = Listed /\ Unarchived' = Unarchived /\ \A b : Archived(b)' = Archived(b)
        BY <1>1 DEF Listed, Unarchived, Archived
    <2>7. SavePart(p)'
        BY <1>4, <2>4, <2>5, <2>6 DEF SavePart
    <2>8. RequestPart(p)' /\ ~Adding(p)'
        BY <2>4, <2>7 DEF RequestPart, Adding, NewKey
    <2> QED
        BY <1>2, <2>2, <2>3, <2>4, <2>8, QuietStep
<1> QED
    BY <1>1, <1>3, <1>4

LEMMA UpdateWriteStep ==
    ASSUME AccountsInv, NEW p \in Request, NEW outcome \in WriteOutcome, UpdateWrite(p, outcome)
    PROVE  AccountsInv'
<1> USE DEF AccountsInv
<1> DEFINE a == req[p].account
           state == IF req[p].archived THEN "archived" ELSE "open"
<1>1. /\ req[p].step = "save" /\ Charge(outcome) /\ meta' = Write(meta, a, state, outcome) /\ Return(p)
      /\ UNCHANGED <<dir, key, opened, answered>>
    BY DEF UpdateWrite
<1>2. /\ a \in Account /\ sendMu = p /\ a \in Listed
      /\ req[p].archived => Archived(a) \/ \E b \in Unarchived : b # a
    BY <1>1, RequestIs DEF RequestPart, SavePart, LockPart
<1>3. state \in {"archived", "open"} /\ (~req[p].archived => state = "open")
    OBVIOUS
<1> HIDE DEF state
<1>4. /\ meta' \in [Account -> {"none", "open", "archived"}]
      /\ \A b \in Account \ {a} : meta'[b] = meta[b]
      /\ meta'[a] \in {meta[a], state}
    BY <1>1, <1>2, <1>3 DEF Write, TypeInv
<1>5. /\ req' \in ReqType /\ LockType' /\ LockPart'
      /\ \A q \in Request \ {p} : req'[q] = req[q]
      /\ req'[p].step = "idle"
    BY <1>1, ReturnIs
<1>6. spent' \in [restart : 0..MaxRestarts, write : 0..MaxWriteErrors]
    BY <1>1, ChargeIs
<1>7. TypeInv'
    BY <1>1, <1>4, <1>5, <1>6 DEF TypeInv, ReqType, LockType
<1>8. /\ Listed' = Listed /\ Listed \subseteq Account
      /\ \A b \in Unarchived : b # a => b \in Unarchived'
    BY <1>1, <1>4, AccountsAssumption DEF Listed, Unarchived, Archived, TypeInv
<1>9. Unarchived' # {}
    <2>1. CASE req[p].archived /\ ~Archived(a)
        BY <1>2, <1>8, <2>1
    <2>2. CASE Archived(a)
        <3>1. PICK b \in Unarchived : TRUE
            BY DEF FilePart, SomeUnarchived
        <3> QED
            BY <1>8, <2>2, <3>1 DEF Unarchived
    <2>3. CASE ~req[p].archived /\ ~Archived(a)
        <3>1. a \in Unarchived'
            BY <1>2, <1>3, <1>4, <1>8, <2>3 DEF Unarchived, Archived
        <3> QED
            BY <3>1
    <2> QED
        BY <2>1, <2>2, <2>3
<1>10. FilePart'
    <2>1. \A b \in Account : key[b] # None \/ meta'[b] # "none" => b \in Listed
        BY <1>2, <1>4 DEF FilePart
    <2>2. \A b \in Account : meta[b] # "none" => meta'[b] # "none"
        BY <1>3, <1>4
    <2>3. \A b \in opened : b = Root \/ (b \in dir /\ meta'[b] # "none")
        BY <2>2 DEF FilePart, TypeInv
    <2>4. AnsweredKept'
        BY <1>1, <2>2 DEF FilePart, AnsweredKept
    <2> QED
        BY <1>1, <1>8, <1>9, <2>1, <2>3, <2>4 DEF FilePart, SomeUnarchived
<1>11. Distinct'
    BY <1>5 DEF Distinct, Adding
<1>12. ASSUME NEW q \in Request PROVE RequestPart(q)'
    <2>1. CASE q = p
        BY <1>5, <2>1 DEF RequestPart
    <2>2. CASE q # p
        <3>1. req'[q] = req[q] /\ RequestPart(q)
            BY <1>5, <2>2
        <3>2. req[q].step \notin {"key", "meta", "undo", "save"}
            BY <1>2, <2>2, Sole
        <3>3. Adding(q) => AddPart(q)'
            BY <1>1, <3>1, <3>2 DEF RequestPart, AddPart, Adding
        <3> QED
            BY <1>1, <3>1, <3>2, <3>3 DEF RequestPart, Adding, KeyPart
    <2> QED
        BY <2>1, <2>2
<1> QED
    BY <1>5, <1>7, <1>10, <1>11, <1>12

\* Nobody opens what is being added.
LEMMA OpenStep ==
    ASSUME AccountsInv, NEW a \in Account, Open(a)
    PROVE  AccountsInv'
<1> USE DEF AccountsInv
<1>1. /\ a \in dir /\ a \notin opened /\ a \notin Secret /\ meta[a] # "none" /\ opened' = opened \cup {a}
      /\ UNCHANGED <<dir, key, meta, sendMu, catalogMu, mu, scryptSem, req, answered, spent>>
    BY DEF Open, fileVars, lockVars
<1>2. TypeInv'
    BY <1>1 DEF TypeInv
<1>3. Listed' = Listed /\ Unarchived' = Unarchived /\ \A b : Archived(b)' = Archived(b)
    BY <1>1 DEF Listed, Unarchived, Archived
<1>4. FilePart'
    BY <1>1, <1>3 DEF FilePart, SomeUnarchived, AnsweredKept
<1>5. LockPart' /\ Distinct'
    BY <1>1 DEF LockPart, Distinct, Adding
<1>6. ASSUME NEW q \in Request PROVE RequestPart(q)'
    <2>1. RequestPart(q)
        OBVIOUS
    <2>2. Adding(q) => AddPart(q)'
        <3>1. Adding(q) => req[q].account # a
            BY <1>1 DEF Secret, Adding
        <3> QED
            BY <1>1, <1>3, <2>1, <3>1 DEF RequestPart, AddPart, Adding
    <2>3. req[q].step = "save" => SavePart(q)'
        BY <1>1, <1>3, <2>1 DEF RequestPart, SavePart
    <2>4. req[q].op \in NewKey /\ req[q].step # "idle" => KeyPart(q)'
        BY <1>1, <2>1 DEF RequestPart, KeyPart
    <2> QED
        BY <1>1, <2>1, <2>2, <2>3, <2>4 DEF RequestPart, Adding
<1> QED
    BY <1>2, <1>4, <1>5, <1>6

\* A killed process leaves the files as they are.
LEMMA RestartStep ==
    ASSUME AccountsInv, Restart
    PROVE  AccountsInv'
<1> USE DEF AccountsInv
<1>1. /\ spent.restart < MaxRestarts /\ spent' = [spent EXCEPT !.restart = @ + 1]
      /\ opened' = {Root} /\ sendMu' = None /\ catalogMu' = None
      /\ mu' = [a \in Account |-> None] /\ scryptSem' = [a \in Account |-> None]
      /\ req' = [p \in Request |-> Idle]
      /\ UNCHANGED <<dir, key, meta, answered>>
    BY DEF Restart, fileVars
<1>2. Idle \in [op : Op, step : Step, account : Account,
                address : Address \cup {None}, archived : BOOLEAN]
    BY AccountsAssumption DEF Idle, Op, Step
<1>3. spent' \in [restart : 0..MaxRestarts, write : 0..MaxWriteErrors]
    <2>1. spent.restart + 1 \in 0..MaxRestarts
        BY <1>1, AccountsAssumption DEF TypeInv
    <2> QED
        BY <1>1, <2>1 DEF TypeInv
<1>4. TypeInv'
    BY <1>1, <1>2, <1>3, AccountsAssumption DEF TypeInv
<1>5. \A p \in Request : req'[p].step = "idle"
    BY <1>1 DEF Idle
<1>6. Listed' = Listed /\ Unarchived' = Unarchived
    BY <1>1 DEF Listed, Unarchived, Archived
<1>7. FilePart'
    BY <1>1, <1>6 DEF FilePart, SomeUnarchived, AnsweredKept
<1>8. LockPart' /\ Distinct' /\ \A p \in Request : RequestPart(p)'
    BY <1>5 DEF LockPart, Distinct, Adding, RequestPart
<1> QED
    BY <1>4, <1>7, <1>8

LEMMA AccountsInvNext ==
    ASSUME AccountsInv, [Next]_vars
    PROVE  AccountsInv'
<1>1. ASSUME NEW p \in Request, Working(p)
      PROVE  AccountsInv'
    BY <1>1, LockSendStep, LockCatalogStep, OpenFileStep, WriteKeyStep, ReadFileStep, UnlockedStep,
       AddBeginStep, AddKeyStep, AddPublishStep, AddUndoStep, UpdateBeginStep, UpdateWriteStep
    DEF Working
<1>2. CASE UNCHANGED vars
    <2>1. Quiet /\ UNCHANGED <<sendMu, catalogMu, mu, scryptSem, req, spent>>
        BY <1>2 DEF vars, fileVars, lockVars, Quiet
    <2>2. TypeInv' /\ LockPart' /\ Distinct'
        BY <2>1 DEF AccountsInv, TypeInv, LockPart, Distinct, Adding, Quiet
    <2>3. FilePart'
        <3>1. Unarchived' = Unarchived /\ Listed' = Listed
            BY <2>1 DEF Quiet, Unarchived, Listed, Archived
        <3> QED
            BY <2>1, <3>1 DEF AccountsInv, Quiet, FilePart, SomeUnarchived, AnsweredKept
    <2>4. \A q \in Request : RequestPart(q)'
        BY <2>1, QuietIs DEF AccountsInv
    <2> QED
        BY <2>2, <2>3, <2>4 DEF AccountsInv
<1> QED
    BY <1>1, <1>2, StartingStep, OpenStep, RestartStep DEF Next

\* However Create, Import, ChangePassword, AddAccount, UpdateAccount and restarts
\* interleave, the locks and files of the accounts stay as AccountsInv says.
THEOREM AccountsInvariant == Spec => []AccountsInv
    BY InitAccountsInv, AccountsInvNext, PTL DEF Spec

----------------------------------------------------------------------------
(* The locks. *)

\* A lock is held by a request at a step for which it was taken.
HolderPart ==
    \A p \in Request :
        /\ sendMu = p => req[p].step \notin {"idle", "send"}
        /\ catalogMu = p => req[p].op \in NewKey /\ req[p].step \in {"file", "write"}
        /\ \A a \in Account : mu[a] = p => req[p].step = "write"
        /\ req[p].step = "catalog" => req[p].op \in NewKey

\* Return gives back every lock of the request.
LEMMA HeldReturn ==
    ASSUME AccountsInv, HolderPart, NEW p \in Request, Return(p)
    PROVE  HolderPart'
<1> SUFFICES ASSUME NEW q \in Request
             PROVE  HolderPart!(q)'
    BY DEF HolderPart
<1>1. /\ sendMu' = Freed(sendMu, p) /\ catalogMu' = Freed(catalogMu, p)
      /\ mu' = [a \in Account |-> Freed(mu[a], p)]
    BY DEF Return
<1>2. CASE q = p
    <2>1. req'[p].step = "idle"
        BY ReturnIs DEF AccountsInv
    <2> QED
        BY <1>1, <1>2, <2>1, AccountsAssumption DEF Freed
<1>3. CASE q # p
    <2>1. req'[q] = req[q]
        BY <1>3, ReturnIs DEF AccountsInv
    <2> QED
        BY <1>1, <1>3, <2>1, AccountsAssumption DEF Freed, HolderPart
<1> QED
    BY <1>2, <1>3

\* A request that goes on takes its locks for the step it goes to.
LEMMA HeldGo ==
    ASSUME AccountsInv, HolderPart, NEW p \in Request, NEW step \in Step \ {"idle", "send"},
           Go(p, step), sendMu' \in {sendMu, p}, catalogMu' \in {catalogMu, p},
           catalogMu' = p => req[p].op \in NewKey /\ step \in {"file", "write"},
           \A a \in Account : mu'[a] \in {mu[a], p} /\ (mu'[a] = p => step = "write"),
           step = "catalog" => req[p].op \in NewKey
    PROVE  HolderPart'
<1> SUFFICES ASSUME NEW q \in Request
             PROVE  HolderPart!(q)'
    BY DEF HolderPart
<1>1. CASE q = p
    <2>1. req'[p].step = step /\ req'[p].op = req[p].op
        BY GoIs DEF AccountsInv
    <2> QED
        BY <1>1, <2>1
<1>2. CASE q # p
    <2>1. req'[q] = req[q]
        BY <1>2, GoIs DEF AccountsInv
    <2> QED
        BY <1>2, <2>1 DEF HolderPart
<1> QED
    BY <1>1, <1>2

\* Who has not begun holds nothing.
LEMMA HeldStart ==
    ASSUME AccountsInv, HolderPart, NEW p \in Request, Starting(p)
    PROVE  HolderPart'
<1>1. /\ req[p] = Idle /\ UNCHANGED <<sendMu, catalogMu, mu>>
      /\ \E r : req' = [req EXCEPT ![p] = r] /\ (r.step = "catalog" => r.op \in NewKey)
    <2>1. PICK op, a, x, archived : Start(p, op, a, x, archived)
        BY DEF Starting
    <2> DEFINE r == [op |-> op, account |-> a, address |-> x, archived |-> archived,
                     step |-> IF LocksRoot(op, a) THEN "send" ELSE IF op \in NewKey THEN "catalog" ELSE "file"]
    <2>2. /\ req[p] = Idle /\ UNCHANGED <<sendMu, catalogMu, mu>>
          /\ req' = [req EXCEPT ![p] = r]
        BY <2>1 DEF Start, lockVars
    <2>3. r.step = "catalog" => r.op \in NewKey
        OBVIOUS
    <2> QED
        BY <2>2, <2>3
<1>2. /\ sendMu # p /\ catalogMu # p /\ \A a \in Account : mu[a] # p
    BY <1>1 DEF HolderPart, Idle
<1>3. /\ \A q \in Request \ {p} : req'[q] = req[q]
      /\ req'[p].step = "catalog" => req'[p].op \in NewKey
    BY <1>1 DEF AccountsInv, TypeInv
<1> QED
    BY <1>1, <1>2, <1>3 DEF HolderPart

\* AddAccount and UpdateAccount take no lock after sendMu that they keep.
CatalogueGoes(p) ==
    /\ req[p].step \in {"list", "key", "meta"}
    /\ \/ Return(p)
       \/ \E step \in {"key", "meta", "undo", "save"} :
             Go(p, step) /\ UNCHANGED <<sendMu, catalogMu, mu>>

LEMMA HeldWorking ==
    ASSUME AccountsInv, HolderPart, NEW p \in Request, Working(p)
    PROVE  HolderPart'
<1> USE DEF AccountsInv
<1>1. req[p].op \in Op /\ req[p].step \in Step /\ req[p].account \in Account
    BY RequestIs
<1>2. CASE LockSend(p)
    <2>1. /\ req[p].step = "send" /\ sendMu' = p /\ UNCHANGED <<catalogMu, mu>>
          /\ \E step \in {"catalog", "file", "list"} :
                Go(p, step) /\ (step = "catalog" => req[p].op \in NewKey)
        BY <1>2 DEF LockSend, NewKey
    <2>2. PICK step \in {"catalog", "file", "list"} :
              Go(p, step) /\ (step = "catalog" => req[p].op \in NewKey)
        BY <2>1
    <2>3. step \in Step \ {"idle", "send"} /\ step # "write"
        BY DEF Step
    <2>4. catalogMu # p /\ \A a \in Account : mu[a] # p
        BY <2>1 DEF HolderPart
    <2> HIDE DEF AccountsInv
    <2> QED
        BY <2>1, <2>2, <2>3, <2>4, HeldGo
<1>3. CASE LockCatalog(p)
    <2>1. /\ req[p].step = "catalog" /\ catalogMu' = p /\ UNCHANGED <<sendMu, mu>> /\ Go(p, "file")
        BY <1>3 DEF LockCatalog
    <2>2. req[p].op \in NewKey
        BY <2>1 DEF HolderPart
    <2>3. "file" \in Step \ {"idle", "send"} /\ \A a \in Account : mu[a] # p
        BY <2>1 DEF HolderPart, Step
    <2> HIDE DEF AccountsInv
    <2> QED
        BY <2>1, <2>2, <2>3, HeldGo
<1>4. CASE OpenFile(p)
    <2>1. /\ req[p].step = "file"
          /\ Return(p) \/ (/\ mu' = [mu EXCEPT ![req[p].account] = p] /\ Go(p, "write")
                           /\ UNCHANGED <<sendMu, catalogMu>>)
        BY <1>4 DEF OpenFile
    <2>2. "write" \in Step \ {"idle", "send"} /\ (catalogMu = p => req[p].op \in NewKey)
        BY DEF Step, HolderPart
    <2>3. ASSUME mu' = [mu EXCEPT ![req[p].account] = p]
          PROVE  \A a \in Account : mu'[a] \in {mu[a], p}
        BY <1>1, <2>3 DEF TypeInv
    <2> HIDE DEF AccountsInv
    <2> QED
        BY <2>1, <2>2, <2>3, HeldGo, HeldReturn
<1>5. CASE ReadFile(p)
    <2>1. /\ req[p].step = "file" /\ req[p].op = "decrypt"
          /\ Return(p) \/ (Go(p, "unlock") /\ UNCHANGED <<sendMu, catalogMu, mu>>)
        BY <1>5 DEF ReadFile
    <2>2. /\ "unlock" \in Step \ {"idle", "send"} /\ catalogMu # p
          /\ \A a \in Account : mu[a] # p
        BY <2>1 DEF Step, HolderPart, NewKey
    <2> HIDE DEF AccountsInv
    <2> QED
        BY <2>1, <2>2, HeldGo, HeldReturn
<1>6. CASE CatalogueGoes(p)
    <2>1. /\ {"key", "meta", "undo", "save"} \subseteq Step \ {"idle", "send", "write"}
          /\ catalogMu # p /\ \A a \in Account : mu[a] # p
        BY <1>6 DEF CatalogueGoes, Step, HolderPart
    <2> HIDE DEF AccountsInv
    <2> QED
        BY <1>6, <2>1, HeldGo, HeldReturn DEF CatalogueGoes
<1>7. \A withKey \in BOOLEAN : AddBegin(p, withKey) => CatalogueGoes(p)
    BY DEF CatalogueGoes, AddBegin, ListAccounts, lockVars
<1>8. \A outcome \in WriteOutcome : AddKey(p, outcome) \/ AddPublish(p, outcome) => CatalogueGoes(p)
    BY DEF CatalogueGoes, AddKey, AddPublish, lockVars
<1>9. UpdateBegin(p) => CatalogueGoes(p)
    BY DEF CatalogueGoes, UpdateBegin, ListAccounts, lockVars
<1>10. \A outcome \in WriteOutcome : WriteKey(p, outcome) \/ UpdateWrite(p, outcome) => Return(p)
    BY DEF WriteKey, UpdateWrite
<1>11. Unlocked(p) \/ AddUndo(p) => Return(p)
    BY DEF Unlocked, AddUndo
<1> HIDE DEF AccountsInv
<1> QED
    BY <1>2, <1>3, <1>4, <1>5, <1>6, <1>7, <1>8, <1>9, <1>10, <1>11, HeldReturn DEF Working

LEMMA HolderNext ==
    ASSUME AccountsInv, HolderPart, [Next]_vars
    PROVE  HolderPart'
<1>1. CASE UNCHANGED vars
    BY <1>1 DEF vars, lockVars, HolderPart
<1>2. ASSUME NEW a \in Account, Open(a)
      PROVE  HolderPart'
    BY <1>2 DEF Open, lockVars, HolderPart
<1>3. CASE Restart
    <2>1. /\ sendMu' = None /\ catalogMu' = None /\ mu' = [a \in Account |-> None]
          /\ \A p \in Request : req'[p].step = "idle"
        BY <1>3 DEF Restart, Idle
    <2> QED
        BY <2>1, AccountsAssumption DEF HolderPart
<1> QED
    BY <1>1, <1>2, <1>3, HeldStart, HeldWorking DEF Next

\* Every lock is held by a request at a step for which AddAccount, UpdateAccount,
\* Create, Import, ImportKeystore or ChangePassword takes it.
THEOREM LocksHaveHolders == Spec => []HolderPart
<1>1. Init => HolderPart
    <2> SUFFICES ASSUME Init
                 PROVE  HolderPart
        OBVIOUS
    <2>1. /\ sendMu = None /\ catalogMu = None /\ mu = [a \in Account |-> None]
          /\ \A p \in Request : req[p].step = "idle"
        BY DEF Init, Idle
    <2> QED
        BY <2>1, AccountsAssumption DEF HolderPart
<1> QED
    BY <1>1, HolderNext, AccountsInvariant, PTL DEF Spec

\* Whoever waits for sendMu, catalogMu or mu waits for a request that took its
\* locks further in their order, so that no circle of requests waits for itself.
THEOREM LockOrder == Spec => []LocksInOrder
<1>1. AccountsInv /\ HolderPart => LocksInOrder
    <2> SUFFICES ASSUME AccountsInv, HolderPart, NEW p \in Request, NEW q \in Request, WaitsFor(p, q)
                 PROVE  Level(p) < Level(q)
        BY DEF LocksInOrder
    <2>1. req[q].step \in Step /\ req[p].account \in Account /\ Root \in Account
        BY RequestIs, AccountsAssumption DEF AccountsInv
    <2>2. CASE req[p].step = "send" /\ sendMu = q
        BY <2>1, <2>2 DEF Level, HolderPart, Step
    <2>3. CASE req[p].step = "list" /\ mu[Root] = q
        BY <2>1, <2>3 DEF Level, HolderPart
    <2>4. CASE req[p].step = "catalog" /\ catalogMu = q
        BY <2>1, <2>4 DEF Level, HolderPart
    <2>5. CASE req[p].step = "file" /\ mu[req[p].account] = q
        BY <2>1, <2>5 DEF Level, HolderPart
    <2> QED
        BY <2>2, <2>3, <2>4, <2>5 DEF WaitsFor
<1> QED
    BY <1>1, LocksHaveHolders, AccountsInvariant, PTL

\* The lock the next step of p takes, if any, is free.
Unblocked(p) ==
    /\ req[p].step = "send" => SendMuFree
    /\ req[p].step = "list" => mu[Root] = None
    /\ req[p].step = "catalog" => CatalogMuFree
    /\ req[p].step = "file" => mu[req[p].account] = None

\* Of the requests under way one is at work or finds the lock free that it takes
\* next, whatever the others hold.
THEOREM SomeoneUnblocked ==
    Spec => []((\E p \in Request : req[p].step # "idle")
                 => \E p \in Request : req[p].step # "idle" /\ Unblocked(p))
<1>1. ASSUME AccountsInv, LocksInOrder, NEW p \in Request, req[p].step # "idle"
      PROVE  \E q \in Request : req[q].step # "idle" /\ Unblocked(q)
    <2> DEFINE Busy(n) == \E q \in Request : req[q].step # "idle" /\ Level(q) >= n
    <2>1. ASSUME NEW q \in Request, req[q].step # "idle", ~Unblocked(q)
          PROVE  \E r \in Request : req[r].step # "idle" /\ Level(q) < Level(r)
        <3>1. \E r \in Request : WaitsFor(q, r)
            BY <1>1, <2>1, RequestIs, AccountsAssumption
            DEF Unblocked, WaitsFor, SendMuFree, CatalogMuFree, AccountsInv, TypeInv
        <3>2. PICK r \in Request : WaitsFor(q, r)
            BY <3>1
        <3>3. Level(q) < Level(r)
            BY <1>1, <3>2 DEF LocksInOrder
        <3>4. Level(q) \in 1..4 /\ (req[r].step = "idle" => Level(r) = 0)
            BY <2>1 DEF Level
        <3> QED
            BY <3>3, <3>4
    <2>2. \A q \in Request : Level(q) \in 0..4 /\ (req[q].step # "idle" => Level(q) >= 1)
        BY DEF Level
    <2> SUFFICES ASSUME \A q \in Request : req[q].step # "idle" => ~Unblocked(q)
                 PROVE  FALSE
        OBVIOUS
    <2>3. \A n \in 1..4 : Busy(n) => Busy(n + 1)
        <3> SUFFICES ASSUME NEW n \in 1..4, NEW q \in Request, req[q].step # "idle", Level(q) >= n
                     PROVE  Busy(n + 1)
            OBVIOUS
        <3>1. PICK r \in Request : req[r].step # "idle" /\ Level(q) < Level(r)
            BY <2>1
        <3>2. Level(r) >= n + 1
            BY <2>2, <3>1
        <3> QED
            BY <3>1, <3>2
    <2>4. Busy(1)
        BY <1>1, <2>2
    <2>5. ~Busy(5)
        BY <2>2
    <2> HIDE DEF Busy
    <2>6. Busy(2) /\ Busy(3) /\ Busy(4) /\ Busy(5)
        <3>1. Busy(2)
            BY <2>3, <2>4
        <3>2. Busy(3)
            BY <2>3, <3>1
        <3>3. Busy(4)
            BY <2>3, <3>2
        <3> QED
            BY <2>3, <3>1, <3>2, <3>3
    <2> QED
        BY <2>5, <2>6
<1>2. AccountsInv /\ LocksInOrder
         => ((\E p \in Request : req[p].step # "idle")
               => \E p \in Request : req[p].step # "idle" /\ Unblocked(p))
    BY <1>1
<1> QED
    BY <1>2, LockOrder, AccountsInvariant, PTL

----------------------------------------------------------------------------
(* What it says. *)

\* Requests, key files, registrations and locks keep their shape.
THEOREM AccountsTypeCorrect == Spec => []TypeOK
<1>1. AccountsInv => TypeOK
    BY DEF AccountsInv, TypeInv, FilePart, LockPart, TypeOK
<1> QED
    BY <1>1, AccountsInvariant, PTL

\* An address is never in two keystores and an announced wallet keeps its key and
\* its registration (Create, Import, ImportKeystore and AddAccount, of any number of
\* requests, with failed writes and kills).
THEOREM OneKey == Spec => []OneKeyPerWallet
<1>1. AccountsInv => OneKeyPerWallet
    <2> SUFFICES ASSUME AccountsInv
                 PROVE  OneKeyPerWallet
        OBVIOUS
    <2>1. NoDuplicateAddress
        BY AccountsAssumption DEF AccountsInv, FilePart, NoDuplicateAddress
    <2> QED
        BY <2>1 DEF AccountsInv, FilePart, OneKeyPerWallet
<1> QED
    BY <1>1, AccountsInvariant, PTL

\* UpdateAccount leaves a wallet that is not archived, whoever else updates.
THEOREM OneUnarchived == Spec => []SomeUnarchived
<1>1. AccountsInv => SomeUnarchived
    BY DEF AccountsInv, FilePart
<1> QED
    BY <1>1, AccountsInvariant, PTL
=============================================================================
