------------------------------ MODULE Scanner ------------------------------
(***************************************************************************)
(* The background scan of an EVM wallet (internal/wallet/scanner.go) and   *)
(* the index of transaction hashes it shares with manual imports           *)
(* (addActivityHashes of internal/wallet/activity.go).                     *)
(*                                                                         *)
(* ScanOnce takes one finalized block: it adds the block's related hashes  *)
(* to activity.json and then moves the cursor in scan.json.  It holds      *)
(* scanMu from start to end, as ConfigureScan does; addActivityHashes      *)
(* holds sendMu from reading the file to writing it.  Nothing is kept in   *)
(* memory between calls, and the process may be killed at any point.       *)
(*                                                                         *)
(* What is abstracted: the hash of the one related transaction of a block  *)
(* is the block's number; the tokens found, the error text and the time in *)
(* scan.json are left out; RPC calls return or fail.  A finalized block    *)
(* does not change, but endpoints may lag behind each other; the calls of  *)
(* one ScanFinalizedBlock are answered by one endpoint.                    *)
(***************************************************************************)
EXTENDS Integers

CONSTANTS
    MaxBlock,        \* bound: the last block that is ever finalized
    Related,         \* blocks with a transaction of this wallet
    Back,            \* how far behind the head a scan without a start begins (19)
    MaxConfigures,   \* bound: calls of ConfigureScan
    MaxRestarts,     \* bound: times the process is killed
    MaxWriteErrors   \* bound: failed writes

ASSUME ScannerAssumption ==
    /\ {MaxBlock, Back, MaxConfigures, MaxRestarts, MaxWriteErrors} \subseteq Nat
    /\ Related \subseteq 0..MaxBlock

VARIABLES
    scanFile,   \* scan.json
    index,      \* activity.json: the set of hashes
    scan,       \* the ScanOnce holding scanMu
    user,       \* the ImportActivity or SyncActivity under way
    sendMu,     \* who holds sendMu: "scan", "user" or "free"
    old,        \* the index as the holder of sendMu read it
    final,      \* external: the newest finalized block
    spent       \* bounded events so far

vars == <<scanFile, index, scan, user, sendMu, old, final, spent>>

Block == 0..MaxBlock
WriteOutcome == {"ok", "lost", "kept"}
ScanState == [enabled : BOOLEAN, start : Block, next : 0..(MaxBlock + 1)]
NoState == [enabled |-> FALSE, start |-> 0, next |-> 0]
IdleScan == [step |-> "idle", state |-> NoState, found |-> {}]
IdleUser == [step |-> "idle", ids |-> {}]

\* atomicWriteFile, as in module Journal.
Written(file, content, outcome) == IF outcome = "lost" THEN file ELSE content

Charge(outcome) ==
    /\ outcome # "ok" => spent.write < MaxWriteErrors
    /\ spent' = IF outcome = "ok" THEN spent ELSE [spent EXCEPT !.write = @ + 1]

----------------------------------------------------------------------------
\* Mutant: the configuration does not wait for a scan under way.
ScanMuFree_Always == TRUE

ScanMuFree == scan = IdleScan

\* ConfigureScan turns the scan on or off, with or without a new start.
ConfigureScan(enabled, starts, outcome) ==
    /\ ScanMuFree
    /\ spent.configure < MaxConfigures
    /\ outcome # "ok" => spent.write < MaxWriteErrors
    /\ spent' = [spent EXCEPT !.configure = @ + 1, !.write = IF outcome = "ok" THEN @ ELSE @ + 1]
    /\ \E s \in starts :
          scanFile' = Written(scanFile, [enabled |-> enabled, start |-> s[1], next |-> s[2]], outcome)
    /\ UNCHANGED <<index, scan, user, sendMu, old, final>>

SameStart == {<<scanFile.start, scanFile.next>>}
NewStart == {<<b, b>> : b \in Block}

----------------------------------------------------------------------------
(* ScanOnce. *)

ScanBegin ==
    /\ ScanMuFree
    /\ scanFile.enabled
    /\ scan' = [step |-> "head", state |-> scanFile, found |-> {}]
    /\ UNCHANGED <<scanFile, index, user, sendMu, old, final, spent>>

\* A cursor that was never set begins a little behind the finalized block.
Begin(f) == IF f > Back THEN f - Back ELSE f
Started(state, f) ==
    IF state.next = 0 THEN [state EXCEPT !.start = Begin(f), !.next = Begin(f)] ELSE state

\* Mutant: the newest finalized block is left for later.
Due_Before(state, f) == state.next < f

Due(state, f) == state.next <= f

\* FinalizedNumber: f is what the endpoint asked says.
ScanHead(f) ==
    /\ scan.step = "head"
    /\ scan' = [step |-> IF Due(Started(scan.state, f), f) THEN "fetch" ELSE "save",
                state |-> Started(scan.state, f), found |-> {}]
    /\ UNCHANGED <<scanFile, index, user, sendMu, old, final, spent>>

\* Any RPC call fails, or another endpoint is behind the block: the error is
\* saved and the cursor stays.
ScanFail ==
    /\ scan.step \in {"head", "fetch"}
    /\ scan' = [scan EXCEPT !.step = "save"]
    /\ UNCHANGED <<scanFile, index, user, sendMu, old, final, spent>>

Hashes(n) == {n} \cap Related

\* What an endpoint whose finalized block is f may show as block n: before it is
\* final there, a block of a fork, without the transaction.
Shown(n, f) == IF n <= f THEN {Hashes(n)} ELSE SUBSET Hashes(n)

\* An endpoint that does not call the block final is not asked for it.
Answers(n, f) == n <= f

\* ScanFinalizedBlock, at an endpoint whose finalized block is f: the hashes of the
\* block that concern the wallet.
ScanFetch(f) ==
    /\ scan.step = "fetch"
    /\ Answers(scan.state.next, f)
    /\ \E found \in Shown(scan.state.next, f) :
          scan' = [scan EXCEPT !.step = "add", !.found = found]
    /\ UNCHANGED <<scanFile, index, user, sendMu, old, final, spent>>

Advanced == [step |-> "save", state |-> [scan.state EXCEPT !.next = @ + 1], found |-> {}]

\* Mutant: the cursor moves whether or not the hashes were saved.
Indexed_Anyway(outcome) == Advanced

\* The cursor moves only past a block whose hashes are saved.
Indexed(outcome) == IF outcome = "ok" THEN Advanced ELSE [scan EXCEPT !.step = "save", !.found = {}]

\* The state, as it was read when the scan began and changed since, is saved.
ScanSave(outcome) ==
    /\ scan.step = "save"
    /\ Charge(outcome)
    /\ scanFile' = Written(scanFile, scan.state, outcome)
    /\ scan' = IdleScan
    /\ UNCHANGED <<index, user, sendMu, old, final>>

----------------------------------------------------------------------------
(* ImportActivity and SyncActivity: hashes the RPC confirmed are added. *)

UserFound(ids) ==
    /\ user = IdleUser
    /\ user' = [step |-> "add", ids |-> ids]
    /\ UNCHANGED <<scanFile, index, scan, sendMu, old, final, spent>>

----------------------------------------------------------------------------
(* addActivityHashes, called by both. *)

Wants(who) == IF who = "scan" THEN scan.step = "add" ELSE user.step = "add"
Ids(who) == IF who = "scan" THEN scan.found ELSE user.ids

\* Mutant: the file is read without the lock.
SendMuFree_Always == TRUE

SendMuFree == sendMu = "free"

AddRead(who) ==
    /\ Wants(who)
    /\ SendMuFree
    /\ sendMu' = who
    /\ old' = index
    /\ scan' = IF who = "scan" THEN [scan EXCEPT !.step = "write"] ELSE scan
    /\ user' = IF who = "user" THEN [user EXCEPT !.step = "write"] ELSE user
    /\ UNCHANGED <<scanFile, index, final, spent>>

Writes(who) == IF who = "scan" THEN scan.step = "write" ELSE user.step = "write"

\* Nothing is written when nothing is new.
AddWrite(who, outcome) ==
    /\ Writes(who)
    /\ IF Ids(who) \subseteq old
       THEN outcome = "ok" /\ UNCHANGED <<index, spent>>
       ELSE Charge(outcome) /\ index' = Written(index, old \cup Ids(who), outcome)
    /\ sendMu' = "free"
    /\ old' = {}
    /\ scan' = IF who = "scan" THEN Indexed(outcome) ELSE scan
    /\ user' = IF who = "user" THEN IdleUser ELSE user
    /\ UNCHANGED <<scanFile, final>>

----------------------------------------------------------------------------
Finalize ==
    /\ final < MaxBlock
    /\ final' = final + 1
    /\ UNCHANGED <<scanFile, index, scan, user, sendMu, old, spent>>

\* The process is killed and started again: only the two files are left.
Restart ==
    /\ spent.restart < MaxRestarts
    /\ spent' = [spent EXCEPT !.restart = @ + 1]
    /\ scan' = IdleScan
    /\ user' = IdleUser
    /\ sendMu' = "free"
    /\ old' = {}
    /\ UNCHANGED <<scanFile, index, final>>

Init ==
    /\ scanFile = NoState
    /\ index = {}
    /\ scan = IdleScan
    /\ user = IdleUser
    /\ sendMu = "free"
    /\ old = {}
    /\ final = 0
    /\ spent = [configure |-> 0, restart |-> 0, write |-> 0]

Scanning ==
    \/ ScanBegin
    \/ \E f \in 0..final : ScanHead(f)
    \/ ScanFail
    \/ \E f \in 0..final : ScanFetch(f)
    \/ \E outcome \in WriteOutcome : ScanSave(outcome)

Adding ==
    \/ \E ids \in SUBSET Related \ {{}} : UserFound(ids)
    \/ \E who \in {"scan", "user"} : AddRead(who)
    \/ \E who \in {"scan", "user"}, outcome \in WriteOutcome : AddWrite(who, outcome)

Configuring ==
    \E enabled \in BOOLEAN, outcome \in WriteOutcome :
        ConfigureScan(enabled, SameStart, outcome) \/ ConfigureScan(enabled, NewStart, outcome)

Next == Configuring \/ Scanning \/ Adding \/ Finalize \/ Restart

Spec == Init /\ [][Next]_vars

\* RunMaintenance calls ScanOnce every two seconds; a call ends by its deadline,
\* and the RPC and the lock are not refused to it for ever.
AddDone(who) == \E outcome \in WriteOutcome : AddWrite(who, outcome)
Maintenance ==
    /\ WF_vars(Finalize)
    /\ WF_vars(ScanBegin)
    /\ SF_vars(ScanHead(final))
    /\ SF_vars(ScanFetch(final))
    /\ SF_vars(AddRead("scan"))
    /\ \A who \in {"scan", "user"} : WF_vars(AddDone(who))
    /\ WF_vars(\E outcome \in WriteOutcome : ScanSave(outcome))

FairSpec == Spec /\ Maintenance

----------------------------------------------------------------------------
(* Properties. *)

TypeOK ==
    /\ {scanFile, scan.state} \subseteq ScanState
    /\ index \subseteq Related
    /\ scan.found \subseteq Hashes(scan.state.next)
    /\ user.ids \subseteq Related
    /\ sendMu \in {"free", "scan", "user"}
    /\ Writes("scan") => sendMu = "scan"
    /\ Writes("user") => sendMu = "user"
    /\ final \in Block

\* What scan.json calls scanned was scanned: the related hashes of every block
\* between its start and its cursor are in activity.json, whatever writes failed
\* wherever the process was killed between the two files and however far the
\* endpoints lag.
NoBlockSkipped ==
    \A b \in Related : scanFile.start <= b /\ b < scanFile.next => b \in index

\* The index never loses a hash, although a scan and an import may read it and
\* write it back at the same time.
IndexOnlyGrows == [][index \subseteq index']_vars

\* Only ConfigureScan turns the scan on or off or changes a start that is set:
\* the state a scan saves never undoes what was configured while it ran.
ConfigurationStands ==
    [][scanFile'.enabled # scanFile.enabled
          \/ (scanFile'.start # scanFile.start /\ scanFile.next # 0) =>
       spent'.configure # spent.configure]_vars

\* A scan that is left on reaches every finalized block.
CatchesUp == <>[](scanFile.enabled) => <>(scanFile.next > MaxBlock)
=============================================================================
