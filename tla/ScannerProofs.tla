---------------------------- MODULE ScannerProofs ----------------------------
(***************************************************************************)
(* Proofs about module Scanner, for any number of blocks and any bounds:   *)
(* the cursor never passes a block whose hashes are not saved, the index   *)
(* never loses a hash, and a scan never undoes what was configured.        *)
(***************************************************************************)
EXTENDS Scanner, TLAPS

TypeInv ==
    /\ scanFile \in ScanState
    /\ index \subseteq Related
    /\ scan \in [step : {"idle", "head", "fetch", "add", "write", "save"}, state : ScanState,
                 found : SUBSET Related]
    /\ scan.step = "idle" => scan = IdleScan
    /\ user \in [step : {"idle", "add", "write"}, ids : SUBSET Related]
    /\ sendMu \in {"free", "scan", "user"}
    /\ final \in Block
    /\ spent \in [configure : Nat, restart : Nat, write : Nat]

\* The holder of sendMu, and nobody else, is about to write, and finds the file as
\* it read it.
LockPart ==
    /\ Writes("scan") => sendMu = "scan"
    /\ Writes("user") => sendMu = "user"
    /\ sendMu # "free" => old = index

\* The hashes of the blocks from a start up to a cursor are saved.
Covered(state) == \A b \in Related : state.start <= b /\ b < state.next => b \in index

\* A scan under way carries the configuration it began with, has a block to look at
\* and all its hashes once it did, and a cursor that is covered.
ScanPart ==
    scan.step # "idle" =>
        /\ scan.state.enabled = scanFile.enabled
        /\ scan.step = "head" => scan.state = scanFile
        /\ scanFile.next # 0 => scan.state.start = scanFile.start
        /\ scan.step \in {"fetch", "add", "write"} => scan.state.next \in Block
        /\ scan.found = IF scan.step \in {"add", "write"} THEN Hashes(scan.state.next) ELSE {}
        /\ Covered(scan.state)

ScannerInv == TypeInv /\ LockPart /\ ScanPart /\ Covered(scanFile)

LEMMA InitScannerInv ==
    ASSUME Init
    PROVE  ScannerInv
<1>1. NoState \in ScanState
    BY ScannerAssumption DEF NoState, ScanState, Block
<1>2. TypeInv
    BY <1>1, ScannerAssumption DEF Init, TypeInv, IdleScan, IdleUser, Block
<1>3. LockPart /\ ScanPart
    BY DEF Init, LockPart, ScanPart, Writes, IdleScan, IdleUser
<1>4. Covered(scanFile)
    BY ScannerAssumption DEF Init, Covered, NoState
<1> QED
    BY <1>2, <1>3, <1>4 DEF ScannerInv

----------------------------------------------------------------------------
(* Steps. *)

LEMMA ConfigureStep ==
    ASSUME ScannerInv, NEW enabled \in BOOLEAN, NEW outcome \in WriteOutcome,
           NEW starts \in {SameStart, NewStart}, ConfigureScan(enabled, starts, outcome)
    PROVE  ScannerInv' /\ spent'.configure # spent.configure /\ index' = index
<1> USE DEF ScannerInv
<1>1. /\ scan = IdleScan
      /\ spent' = [spent EXCEPT !.configure = @ + 1, !.write = IF outcome = "ok" THEN @ ELSE @ + 1]
      /\ UNCHANGED <<index, scan, user, sendMu, old, final>>
    BY DEF ConfigureScan, ScanMuFree
<1>2. PICK s \in starts :
          scanFile' = Written(scanFile, [enabled |-> enabled, start |-> s[1], next |-> s[2]], outcome)
    BY DEF ConfigureScan
<1> DEFINE state == [enabled |-> enabled, start |-> s[1], next |-> s[2]]
<1>3. /\ s[1] \in Block /\ s[2] \in 0..(MaxBlock + 1)
      /\ (s[1] = scanFile.start /\ s[2] = scanFile.next) \/ s[1] = s[2]
    <2>1. CASE starts = SameStart
        BY <2>1 DEF SameStart, TypeInv, ScanState
    <2>2. CASE starts = NewStart
        BY <2>2, ScannerAssumption DEF NewStart, Block
    <2> QED
        BY <2>1, <2>2
<1>4. state \in ScanState /\ Covered(state)
    <2>1. state \in ScanState /\ state.start = s[1] /\ state.next = s[2]
        BY <1>3 DEF ScanState
    <2>2. CASE s[1] = scanFile.start /\ s[2] = scanFile.next
        BY <2>1, <2>2 DEF Covered
    <2>3. CASE s[1] = s[2]
        BY <1>3, <2>1, <2>3, ScannerAssumption DEF Covered, Block
    <2> QED
        BY <1>3, <2>1, <2>2, <2>3
<1> HIDE DEF state
<1>5. scanFile' \in {scanFile, state}
    BY <1>2 DEF Written, state
<1>6. scanFile' \in ScanState /\ Covered(scanFile)'
    BY <1>1, <1>4, <1>5 DEF Covered, TypeInv
<1>7. /\ spent' \in [configure : Nat, restart : Nat, write : Nat]
      /\ spent'.configure # spent.configure
    <2> DEFINE c == spent.configure + 1
               w == IF outcome = "ok" THEN spent.write ELSE spent.write + 1
    <2>1. /\ spent \in [configure : Nat, restart : Nat, write : Nat]
          /\ c \in Nat /\ c # spent.configure /\ w \in Nat
        BY DEF TypeInv
    <2>2. spent' = [spent EXCEPT !.configure = c, !.write = w]
        BY <1>1
    <2> HIDE DEF c, w
    <2> QED
        BY <2>1, <2>2
<1>8. TypeInv'
    BY <1>1, <1>6, <1>7 DEF TypeInv, IdleScan
<1>9. LockPart' /\ ScanPart'
    BY <1>1 DEF LockPart, ScanPart, Writes, IdleScan
<1> QED
    BY <1>1, <1>6, <1>7, <1>8, <1>9

\* A step of the scan that leaves the files and the lock alone.
LEMMA ScanMoves ==
    ASSUME ScannerInv, UNCHANGED <<scanFile, index, user, sendMu, old, final, spent>>,
           scan' \in [step : {"head", "fetch", "add", "save"}, state : ScanState,
                      found : SUBSET Related],
           scan.step # "write",
           ScanPart'
    PROVE  ScannerInv'
<1>1. scan'.step \notin {"idle", "write"}
    OBVIOUS
<1>2. TypeInv'
    BY <1>1 DEF ScannerInv, TypeInv
<1>3. LockPart'
    BY <1>1 DEF ScannerInv, LockPart, Writes
<1>4. Covered(scanFile)'
    BY DEF ScannerInv, Covered
<1> QED
    BY <1>2, <1>3, <1>4 DEF ScannerInv

LEMMA ScanBeginStep ==
    ASSUME ScannerInv, ScanBegin
    PROVE  ScannerInv'
<1>1. /\ scan = IdleScan /\ scan' = [step |-> "head", state |-> scanFile, found |-> {}]
      /\ UNCHANGED <<scanFile, index, user, sendMu, old, final, spent>>
    BY DEF ScanBegin, ScanMuFree
<1>2. ScanPart'
    BY <1>1 DEF ScannerInv, ScanPart, Covered
<1> QED
    BY <1>1, <1>2, ScanMoves DEF ScannerInv, TypeInv, IdleScan

\* A start is chosen only where none was, and what it covers is nothing yet.
LEMMA ScanHeadStep ==
    ASSUME ScannerInv, NEW f \in 0..final, ScanHead(f)
    PROVE  ScannerInv'
<1> DEFINE s == Started(scan.state, f)
<1>1. /\ scan.step = "head"
      /\ scan' = [step |-> IF Due(s, f) THEN "fetch" ELSE "save", state |-> s, found |-> {}]
      /\ UNCHANGED <<scanFile, index, user, sendMu, old, final, spent>>
    BY DEF ScanHead
<1>2. scan.state \in ScanState /\ scan.state = scanFile /\ f \in Block /\ Covered(scan.state)
    BY <1>1, ScannerAssumption DEF ScannerInv, TypeInv, ScanPart, Block
<1>3. /\ s \in ScanState /\ s.enabled = scan.state.enabled
      /\ scan.state.next # 0 => s = scan.state
      /\ s.next = s.start \/ s = scan.state
    <2>1. Begin(f) \in Block
        BY <1>2, ScannerAssumption DEF Begin, Block
    <2>2. CASE scan.state.next = 0
        <3>1. s = [scan.state EXCEPT !.start = Begin(f), !.next = Begin(f)]
            BY <2>2 DEF Started
        <3>2. Begin(f) \in 0..(MaxBlock + 1)
            BY <2>1, ScannerAssumption DEF Block
        <3> HIDE DEF s
        <3> QED
            BY <1>2, <2>1, <2>2, <3>1, <3>2 DEF ScanState
    <2>3. CASE scan.state.next # 0
        BY <1>2, <2>3 DEF Started
    <2> QED
        BY <2>2, <2>3
<1> HIDE DEF s
<1>4. Covered(s)
    BY <1>2, <1>3, ScannerAssumption DEF Covered, ScanState, Block
<1>5. Due(s, f) => s.next \in Block
    BY <1>2, <1>3, ScannerAssumption DEF Due, ScanState, Block
<1>6. ScanPart'
    BY <1>1, <1>2, <1>3, <1>4, <1>5 DEF ScanPart, Covered
<1> QED
    BY <1>1, <1>3, <1>6, ScanMoves

LEMMA ScanFailStep ==
    ASSUME ScannerInv, ScanFail
    PROVE  ScannerInv'
<1>1. /\ scan.step \in {"head", "fetch"} /\ scan' = [scan EXCEPT !.step = "save"]
      /\ UNCHANGED <<scanFile, index, user, sendMu, old, final, spent>>
    BY DEF ScanFail
<1>2. scan' \in [step : {"head", "fetch", "add", "save"}, state : ScanState,
                 found : SUBSET Related] /\ scan'.state = scan.state
          /\ scan'.step = "save"
    BY <1>1 DEF ScannerInv, TypeInv
<1>3. ScanPart'
    BY <1>1, <1>2 DEF ScannerInv, ScanPart, Covered
<1> QED
    BY <1>1, <1>2, <1>3, ScanMoves

LEMMA ScanFetchStep ==
    ASSUME ScannerInv, NEW f \in 0..final, ScanFetch(f)
    PROVE  ScannerInv'
<1>1. /\ scan.step = "fetch"
      /\ scan' = [scan EXCEPT !.step = "add", !.found = Hashes(scan.state.next)]
      /\ UNCHANGED <<scanFile, index, user, sendMu, old, final, spent>>
    BY DEF ScanFetch, Answers, Shown
<1>2. scan' \in [step : {"head", "fetch", "add", "save"}, state : ScanState,
                 found : SUBSET Related] /\ scan'.state = scan.state
          /\ scan'.step = "add" /\ scan'.found = Hashes(scan.state.next)
    BY <1>1 DEF ScannerInv, TypeInv, Hashes
<1>3. ScanPart'
    BY <1>1, <1>2 DEF ScannerInv, ScanPart, Covered
<1> QED
    BY <1>1, <1>2, <1>3, ScanMoves

LEMMA ChargeIs ==
    ASSUME TypeInv, NEW outcome, Charge(outcome)
    PROVE  spent' \in [configure : Nat, restart : Nat, write : Nat]
    BY DEF TypeInv, Charge

\* What is saved was configured before the scan and is covered.
LEMMA ScanSaveStep ==
    ASSUME ScannerInv, NEW outcome \in WriteOutcome, ScanSave(outcome)
    PROVE  ScannerInv'
<1> USE DEF ScannerInv
<1>1. /\ scan.step = "save" /\ Charge(outcome) /\ scanFile' \in {scanFile, scan.state}
      /\ scan' = IdleScan /\ UNCHANGED <<index, user, sendMu, old, final>>
    BY DEF ScanSave, Written
<1>2. scanFile' \in ScanState /\ Covered(scanFile)'
    BY <1>1 DEF TypeInv, ScanPart, Covered
<1>3. NoState \in ScanState
    BY ScannerAssumption DEF NoState, ScanState, Block
<1>4. TypeInv'
    BY <1>1, <1>2, <1>3, ChargeIs DEF TypeInv, IdleScan
<1>5. LockPart' /\ ScanPart'
    BY <1>1 DEF LockPart, ScanPart, Writes, IdleScan
<1> QED
    BY <1>2, <1>4, <1>5

LEMMA UserFoundStep ==
    ASSUME ScannerInv, NEW ids \in SUBSET Related, UserFound(ids)
    PROVE  ScannerInv'
<1> USE DEF ScannerInv
<1>1. /\ user = IdleUser /\ user' = [step |-> "add", ids |-> ids]
      /\ UNCHANGED <<scanFile, index, scan, sendMu, old, final, spent>>
    BY DEF UserFound
<1>2. TypeInv'
    BY <1>1 DEF TypeInv
<1>3. LockPart' /\ ScanPart' /\ Covered(scanFile)'
    BY <1>1 DEF LockPart, ScanPart, Writes, Covered, IdleUser
<1> QED
    BY <1>2, <1>3

LEMMA AddReadStep ==
    ASSUME ScannerInv, NEW who \in {"scan", "user"}, AddRead(who)
    PROVE  ScannerInv'
<1> USE DEF ScannerInv
<1>1. /\ Wants(who) /\ sendMu = "free" /\ sendMu' = who /\ old' = index
      /\ scan' = IF who = "scan" THEN [scan EXCEPT !.step = "write"] ELSE scan
      /\ user' = IF who = "user" THEN [user EXCEPT !.step = "write"] ELSE user
      /\ UNCHANGED <<scanFile, index, final, spent>>
    BY DEF AddRead, SendMuFree
<1>2. /\ scan' \in [step : {"idle", "head", "fetch", "add", "write", "save"}, state : ScanState,
                    found : SUBSET Related]
      /\ scan'.state = scan.state
      /\ scan'.step = IF who = "scan" THEN "write" ELSE scan.step
      /\ scan'.step = "idle" => scan' = scan
    BY <1>1 DEF TypeInv
<1>3. /\ user' \in [step : {"idle", "add", "write"}, ids : SUBSET Related]
      /\ user'.step = IF who = "user" THEN "write" ELSE user.step
    BY <1>1 DEF TypeInv
<1>4. TypeInv'
    BY <1>1, <1>2, <1>3 DEF TypeInv
<1>5. LockPart'
    BY <1>1, <1>2, <1>3 DEF LockPart, Writes
<1>6. ScanPart' /\ Covered(scanFile)'
    BY <1>1, <1>2 DEF ScanPart, Covered, Wants
<1> QED
    BY <1>4, <1>5, <1>6

\* The index grows by what was found, and the cursor passes what is in it.
LEMMA AddWriteStep ==
    ASSUME ScannerInv, NEW who \in {"scan", "user"}, NEW outcome \in WriteOutcome, AddWrite(who, outcome)
    PROVE  ScannerInv' /\ index \subseteq index' /\ scanFile' = scanFile
<1> USE DEF ScannerInv
<1>1. /\ Writes(who)
      /\ sendMu' = "free" /\ old' = {}
      /\ scan' = IF who = "scan" THEN Indexed(outcome) ELSE scan
      /\ user' = IF who = "user" THEN IdleUser ELSE user
      /\ scanFile' = scanFile /\ final' = final
    BY DEF AddWrite
<1>2. sendMu = who /\ old = index
    BY <1>1 DEF LockPart
<1>3. Ids(who) \subseteq Related
    BY DEF Ids, TypeInv
<1>4. /\ index \subseteq index' /\ index' \subseteq Related
      /\ outcome = "ok" => Ids(who) \subseteq index'
      /\ spent' \in [configure : Nat, restart : Nat, write : Nat]
    <2>1. CASE Ids(who) \subseteq old
        BY <1>2, <2>1 DEF AddWrite, TypeInv
    <2>2. CASE ~(Ids(who) \subseteq old)
        BY <1>2, <1>3, <2>2, ChargeIs DEF AddWrite, TypeInv, Written
    <2> QED
        BY <2>1, <2>2
<1>5. ASSUME NEW state, Covered(state)
      PROVE  \A b \in Related : state.start <= b /\ b < state.next => b \in index'
    BY <1>4, <1>5 DEF Covered
<1>6. Covered(scanFile)'
    BY <1>1, <1>5 DEF Covered
<1>7. CASE who = "user"
    <2>1. TypeInv'
        BY <1>1, <1>4, <1>7 DEF TypeInv, IdleUser
    <2>2. LockPart'
        BY <1>1, <1>2, <1>7 DEF LockPart, Writes, IdleUser
    <2>3. ScanPart'
        BY <1>1, <1>5, <1>7 DEF ScanPart, Covered
    <2> QED
        BY <1>1, <1>4, <1>6, <2>1, <2>2, <2>3
<1>8. CASE who = "scan"
    <2>1. /\ scan.step = "write" /\ scan.state \in ScanState /\ scan.state.next \in Block
          /\ Covered(scan.state) /\ scan.found = Hashes(scan.state.next)
        BY <1>1, <1>8 DEF Writes, TypeInv, ScanPart
    <2> DEFINE s == [scan.state EXCEPT !.next = @ + 1]
    <2>2. /\ s \in ScanState /\ s.enabled = scan.state.enabled
          /\ s.start = scan.state.start /\ s.next = scan.state.next + 1
        BY <2>1, ScannerAssumption DEF ScanState, Block
    <2> HIDE DEF s
    <2>3. scan' = IF outcome = "ok" THEN [step |-> "save", state |-> s, found |-> {}]
                    ELSE [scan EXCEPT !.step = "save", !.found = {}]
        BY <1>1, <1>8 DEF Indexed, Advanced, s
    <2>4. /\ scan'.step = "save" /\ scan'.state \in ScanState
          /\ scan' \in [step : {"idle", "head", "fetch", "add", "write", "save"}, state : ScanState,
                        found : SUBSET Related]
          /\ scan'.state = IF outcome = "ok" THEN s ELSE scan.state
          /\ scan'.found = {}
        BY <2>1, <2>2, <2>3 DEF TypeInv
    <2>5. \A b \in Related : scan'.state.start <= b /\ b < scan'.state.next => b \in index'
        <3> SUFFICES ASSUME NEW b \in Related, scan'.state.start <= b, b < scan'.state.next
                     PROVE  b \in index'
            OBVIOUS
        <3>1. CASE outcome # "ok"
            BY <1>5, <2>1, <2>4, <3>1
        <3>2. CASE outcome = "ok" /\ b = scan.state.next
            BY <1>4, <1>8, <2>1, <3>2 DEF Ids, Hashes
        <3>3. CASE outcome = "ok" /\ b # scan.state.next
            <4>1. b < scan.state.next
                BY <2>1, <2>2, <2>4, <3>3, ScannerAssumption DEF Block
            <4> QED
                BY <1>5, <2>1, <2>2, <2>4, <3>3, <4>1
        <3> QED
            BY <3>1, <3>2, <3>3
    <2>6. TypeInv'
        BY <1>1, <1>4, <1>8, <2>4 DEF TypeInv
    <2>7. LockPart'
        BY <1>1, <1>2, <1>8, <2>4 DEF LockPart, Writes
    <2>8. ScanPart'
        BY <1>1, <2>1, <2>2, <2>4, <2>5 DEF ScanPart, Covered
    <2> QED
        BY <1>1, <1>4, <1>6, <2>6, <2>7, <2>8
<1> QED
    BY <1>7, <1>8

LEMMA FinalizeStep ==
    ASSUME ScannerInv, Finalize
    PROVE  ScannerInv'
<1> USE DEF ScannerInv
<1>1. final < MaxBlock /\ final' = final + 1 /\ UNCHANGED <<scanFile, index, scan, user, sendMu, old, spent>>
    BY DEF Finalize
<1>2. TypeInv'
    BY <1>1, ScannerAssumption DEF TypeInv, Block
<1>3. LockPart' /\ ScanPart' /\ Covered(scanFile)'
    BY <1>1 DEF LockPart, ScanPart, Writes, Covered
<1> QED
    BY <1>2, <1>3

LEMMA RestartStep ==
    ASSUME ScannerInv, Restart
    PROVE  ScannerInv'
<1> USE DEF ScannerInv
<1>1. /\ spent' = [spent EXCEPT !.restart = @ + 1]
      /\ scan' = IdleScan /\ user' = IdleUser /\ sendMu' = "free" /\ old' = {}
      /\ UNCHANGED <<scanFile, index, final>>
    BY DEF Restart
<1>2. NoState \in ScanState
    BY ScannerAssumption DEF NoState, ScanState, Block
<1>3. TypeInv'
    BY <1>1, <1>2 DEF TypeInv, IdleScan, IdleUser
<1>4. LockPart' /\ ScanPart' /\ Covered(scanFile)'
    BY <1>1 DEF LockPart, ScanPart, Writes, Covered, IdleScan, IdleUser
<1> QED
    BY <1>3, <1>4

LEMMA ScannerInvNext ==
    ASSUME ScannerInv, [Next]_vars
    PROVE  ScannerInv'
<1>1. CASE Configuring
    BY <1>1, ConfigureStep DEF Configuring
<1>2. CASE Scanning
    BY <1>2, ScanBeginStep, ScanHeadStep, ScanFailStep, ScanFetchStep, ScanSaveStep DEF Scanning
<1>3. CASE Adding
    BY <1>3, UserFoundStep, AddReadStep, AddWriteStep DEF Adding
<1>4. CASE UNCHANGED vars
    <2>1. UNCHANGED <<scanFile, index, scan, user, sendMu, old, final, spent>>
        BY <1>4 DEF vars
    <2> QED
        BY <2>1 DEF ScannerInv, TypeInv, LockPart, ScanPart, Writes, Covered
<1> QED
    BY <1>1, <1>2, <1>3, <1>4, FinalizeStep, RestartStep DEF Next

\* ScanOnce, ConfigureScan, imports, failed writes and restarts keep what the cursor
\* and the index say of each other.
THEOREM ScannerInvariant == Spec => []ScannerInv
    BY InitScannerInv, ScannerInvNext, PTL DEF Spec

----------------------------------------------------------------------------
(* What it says. *)

\* scan.json, activity.json and the scan under way keep their shape.
THEOREM ScannerTypeCorrect == Spec => []TypeOK
<1>1. ScannerInv => TypeOK
    BY DEF ScannerInv, TypeInv, LockPart, ScanPart, IdleScan, TypeOK
<1> QED
    BY <1>1, ScannerInvariant, PTL

\* ScanOnce saves a block's hashes before it moves the cursor, and a block whose
\* hashes could not be saved is not passed.
THEOREM NothingSkipped == Spec => []NoBlockSkipped
<1>1. ScannerInv => NoBlockSkipped
    BY DEF ScannerInv, Covered, NoBlockSkipped
<1> QED
    BY <1>1, ScannerInvariant, PTL

\* addActivityHashes loses nothing another caller added.
THEOREM IndexGrows == Spec => IndexOnlyGrows
<1>1. ASSUME ScannerInv, [Next]_vars
      PROVE  index \subseteq index'
    <2>1. CASE \E who \in {"scan", "user"}, outcome \in WriteOutcome : AddWrite(who, outcome)
        BY <1>1, <2>1, AddWriteStep
    <2>2. CASE Configuring
        BY <1>1, <2>2, ConfigureStep DEF Configuring
    <2> QED
        BY <1>1, <2>1, <2>2
        DEF Next, Scanning, Adding, ScanBegin, ScanHead, ScanFail, ScanFetch, ScanSave, UserFound,
            AddRead, Finalize, Restart, vars
<1>2. ScannerInv /\ [Next]_vars => [index \subseteq index']_vars
    BY <1>1
<1> QED
    BY <1>2, ScannerInvariant, PTL DEF Spec, IndexOnlyGrows

\* What a step of the scan leaves of the configuration: all but a start that is not set.
Configured ==
    scanFile'.enabled # scanFile.enabled
        \/ (scanFile'.start # scanFile.start /\ scanFile.next # 0) =>
    spent'.configure # spent.configure

\* Only ConfigureScan changes what was configured, also while a scan runs.
THEOREM ConfigurationKept == Spec => ConfigurationStands
<1>1. ASSUME ScannerInv, [Next]_vars
      PROVE  Configured
    <2>1. CASE Configuring
        BY <1>1, <2>1, ConfigureStep DEF Configuring, Configured
    <2>2. ASSUME NEW outcome \in WriteOutcome, ScanSave(outcome)
          PROVE  Configured
        BY <1>1, <2>2 DEF ScanSave, Written, ScannerInv, ScanPart, Configured
    <2>3. CASE scanFile' = scanFile
        BY <2>3 DEF Configured
    <2> QED
        BY <1>1, <2>1, <2>2, <2>3
        DEF Next, Scanning, Adding, ScanBegin, ScanHead, ScanFail, ScanFetch, UserFound,
            AddRead, AddWrite, Finalize, Restart, vars
<1>2. ScannerInv /\ [Next]_vars => [Configured]_vars
    BY <1>1
<1>3. Spec => [][Configured]_vars
    BY <1>2, ScannerInvariant, PTL DEF Spec
<1> QED
    BY <1>3 DEF ConfigurationStands, Configured
=============================================================================
