# Verification of flowledger

This directory holds TLA+ models of the program in this repository (a self-custody
wallet laboratory for test networks, written in Go), the TLC configurations that
check them on small instances, and proofs checked by TLAPS. `PROJECT.json` lists the
runs, the properties each of them checks, the source lines every definition
translates, the hazards the properties are for and the theorems.

    tlc -workers 2 -config EvmWalletCrash.cfg MCEvmWallet.tla     # one run
    tlapm TronProofs.tla                                        # the proofs of a part

## 1. The system and its parts

One process (`cmd/testnet-wallet-lab/main.go`) serves a browser interface. Behind its
handlers live one EVM wallet service per account and network, one Solana and one TRON
wallet, a faucet and an RPC client per EVM network. Each wallet keeps its state in
files of a directory of its own, which an advisory lock reserves for one process.

| Part | State | Operations | What is hard, and what must hold |
|---|---|---|---|
| EVM journal `wallet/journal.go` | `records`, `archived`; `journal.json`, `archive-*.json` | append, update if version, archive, load | failed writes and kills between two files; no acknowledged record is lost, files always load again |
| EVM wallet `wallet/service.go`, `replacement.go` | quotes, `storageFault`, `sendMu`, `historyMu` | quote, replacement quote, send, retry, history, restart | history interleaves with send and retry at every RPC; one nonce open, nothing broadcast that is not on disk, finality true and permanent |
| Solana wallet `wallet/solana.go` | `records`, `fault`; `transactions.json` | quote, send, retry, history, restart | blockhash expiry against late landing; memory ahead of a failed write |
| TRON wallet `wallet/tron.go`, `tron_rpc.go` | `records`, `fault`; `transactions.json` | quote, send, retry, history, restart | expiration against two nodes' heads; one outstanding transaction |
| EVM RPC client `chain/fallback.go`, `chain/chain.go` | `active`, `healthy`, `failovers`; cached chain ID check | round trip, check network | goroutines share the atomics without a lock; no request to an endpoint of another chain |
| Chain scanner, activity `wallet/scanner.go`, `activity.go` | `scan.json`, `activity.json`, `scanMu` | configure, scan once, import, sync, maintenance loop | two files written one after the other; no finalized block is skipped |
| Keystore, accounts `wallet/keystore.go`, `accounts.go` | `keystore.json` and `account.json` of each account, `catalogMu`, `mu`, `scryptSem` | create, import, import keystore, change password, decrypt, backup, add and update account | locks of several accounts; one address, one journal; one usable account left |
| Faucet `wallet/faucet.go` | `mu` over the source's journal | claim ETH, claim TRX, request SOL | concurrent claims, unknown broadcasts: one payout per address and hour |
| Web layer `web/*.go` | request windows, slots, login attempts | access token, shared demo, traffic limit, handlers | counters and slots shared by concurrent requests |
| Server process `cmd/testnet-wallet-lab` | account services created on demand, `shuttingDown`, maintenance group | serve, shut down | a request that outlives the shutdown; one service and one lock per directory |
| Vault contract `contracts/ETHVault.sol`, `wallet/vault.go` | balances, reentrancy guard | deposit, withdraw | callbacks in the middle of a withdrawal; the contract can always pay its balances |
| Deployment `scripts/deploy/*.sh` | installed version, backup | poll, deploy, roll back | a failing health check in the middle of a swap |
| ERC-4337 package, DTOs, arithmetic, command-line checks, browser code | none that outlives a call | pure construction, formatting, validation | not modelled, see section 7 |

How they interact: the web handlers call the services directly; `RunMaintenance` calls
`History` and `ScanOnce` of every EVM service in the background; services of one
account on several networks share its keystore but not its journal; the faucet sends
through the service of its source account; every EVM service talks to its chain
through the fallback client.

## 2. Modules

| Module | Models | Extends |
|---|---|---|
| `Journal` | the EVM journal with its files, alone under arbitrary callers | |
| `EvmWallet` | the EVM wallet service over the journal, with the network | `Journal` |
| `PaymentLedger` | what the EVM wallet promises, without files and crashes | |
| `MCEvmWallet` | the refinement `EvmWallet` => `PaymentLedger`, liveness | `EvmWallet` |
| `EvmWalletProofs` | theorems about `Journal`, `EvmWallet` and the refinement | `MCEvmWallet` |
| `SolanaWallet` | the Solana wallet with its cluster | |
| `SolanaProofs` | theorems about `SolanaWallet` | `SolanaWallet` |
| `TronWallet` | the TRON wallet with its chain | |
| `TransferBook` | what the TRON wallet promises, without files, crashes and clocks | |
| `MCTronWallet` | the refinement `TronWallet` => `TransferBook` | `TronWallet` |
| `TronProofs` | theorems about `TronWallet` and the refinement | `MCTronWallet` |
| `Fallback` | the fallback transport and the chain ID cache, several callers | |
| `FallbackProofs` | theorems about `Fallback` | `Fallback` |
| `Scanner` | the background scan, its configuration, the index of hashes it shares with imports | |
| `ScannerProofs` | theorems about `Scanner` | `Scanner` |
| `Accounts` | the keystores of all accounts and the catalogue, several requests | |
| `MCAccounts` | the symmetry of `Accounts` | `Accounts` |
| `AccountsProofs` | theorems about `Accounts` | `Accounts` |
| `Web` | every route, who answers it, and the gates, limits and slots a request passes | |
| `Server` | the server process from start to exit, with a second one on its directory | `Web` |
| `MCServer` | the routes asked for in the run of `Server` | `Server` |
| `ServerProofs` | theorems about `Server` | `Server` |
| `Quotes` | the quote store, and what Quote and Send read from the chain | |
| `Faucet` | concurrent claims on the dispenser's account, with the clock | `Quotes` |
| `MCFaucet` | the owner's requests in the run of `Faucet` | `Faucet` |
| `FaucetProofs` | theorems about `Quotes` and `Faucet` | `Faucet` |

## 3. How the models correspond to the code

Common to all of them: a mutex that is held across a whole operation makes it one
action, or a chain of actions of which one runs at a time; every RPC call, and every
point where a lock is released, separates two actions. `atomicWriteFile` has three
outcomes. `ok`: the file is replaced. `lost`: an error before the rename, the old file
stays. `kept`: an error after it (opening or syncing the directory), the call reports a
failure although the new file is in place. A process that is killed inside a write
leaves one of the same two files. `Restart` drops everything in memory at any point and
reads the files again.

**Journal.** A hash is the number of its signature, so slices are functions from hashes
to records and "the last KeepLast records" are the greatest hashes. `AppendAtomic`,
`UpdateStateAtomicIfVersion` and `ArchiveFinalized` are the methods of the same name,
each under `jm.mu`; `Load` is `NewJournalManager` with `load` and `loadArchives`;
`RefreshItems` is the list History works through. The code's comment on it speaks of the
latest twenty mined records; the code returns every record that is not final, and so
does the model. `JournalSpec` calls the operations with any states, which is more than
the wallet does. The variable `stored` is history: what a caller was told is stored.

**EvmWallet.** Send holds `sendMu` and History holds `historyMu`, so one `op` and one
`refresh` run at a time and interleave at every RPC call: `SendStart` (checks, decrypt),
`SendCheckNonce`, `SendAppend`, `SendBroadcast`, `SendFinish`; `RetryStart`,
`RetryBroadcast`, `RetryFinish`; `HistoryStart`, then `HistoryQuery` and
`HistoryApply` per item, `HistoryArchive`. `GiveUp` stands for every check of balance,
fee, gas, password or network that fails. The network is external: `Deliver`, `Mine`,
`Drop`, `Finalize`, `Reorg`. A broadcast that reports an error may have reached a node.

**PaymentLedger.** What a user sees: quotes become entries, entries are broadcast only
when they are on record, an entry ends `paid` or `void`, once. `MCEvmWallet!Ledger`
maps the records in memory, archived ones included, to entries; a restart or a failed
write is a stutter.

**SolanaWallet, TronWallet.** `s.mu` is held by every operation across its RPC calls, so
one `op` runs at a time while the cluster moves. The Solana wallet changes its records
before it saves them and keeps the change when the write fails; the TRON wallet swaps
them in after a successful save. Both differences are in `persist` and `save`. The
blockhash and the expiration are what decide whether a transaction may still land.

**TransferBook.** A list of transfers of which one at most is open: `Commit` adds one when
all before it are settled, `Broadcast` hands an open one over, `Settle` closes it as
`paid`, `failed` or `expired`, for good, and only what was broadcast can be paid or fail.
`MCTronWallet!Book` maps the records in memory to it. A restart reads them from the
file, which an append or an outcome that failed after its rename may have put one step
ahead: then the restart is that step of the book. Steps of the chain, quotes, failed
writes and other restarts are stutters. The file itself is no such book: History saves
its copy whenever it differs from memory, also after a fault and also where only the time
of an expired record's last check changed (`checked`, tron.go:555), and a save of the
memory that fell behind takes an append that was kept off the file again. Such a record
was never broadcast (`SentIsStored`), and nothing final is lost (`FinalOnDisk`, proved).

**Fallback.** One action per load, store or request of `RoundTrip` on the atomics
`active` and `healthy`, and per step of `checkNetwork` on the cached answer, for several
callers. The endpoints of `Wrong` answer with another chain ID. `Count`, which adds to
`failovers`, is a step of its own between the compare-and-swap of `active` and marking
the endpoint healthy: the cached chain ID answer is tied to the number of failovers seen
before it was asked for, while the plain store of fallback.go:170 is not counted.

**Scanner.** `ScanOnce` is `ScanBegin`, `ScanHead` (FinalizedNumber, where an endpoint
may lag), `ScanFetch` (ScanFinalizedBlock, at an endpoint that may lag too and show a
fork's block: `Answers` is the test that keeps it from being asked), `AddRead` and `AddWrite`
(addActivityHashes, under `sendMu`) and `ScanSave`. `UserFound` stands for the RPC part
of ImportActivity and SyncActivity, which then run the same `AddRead` and `AddWrite`.
`ConfigureScan` waits for `scanMu`, which a running scan holds.

**Accounts.** `LockSend`, `ListAccounts` (the lock of the keystore that listAccounts reads
under), `LockCatalog` and `OpenFile` take the locks in the order of the code; `WriteKey` is the write that ends Create, Import, ImportKeystore and
ChangePassword; `ReadFile` and `Unlocked` are DecryptKey and Backup, which hold the
scrypt slot but not `mu`. `AddBegin`, `AddKey`, `AddPublish`, `AddUndo` are AddAccount,
`UpdateBegin` and `UpdateWrite` are UpdateAccount, `Open` is NewAccountService.

**Web, Server.** `Web` has no state: the routes each file registers as sets of records,
and `Gate`, `Counted`, `Slot` as functions of the access mode, the route and who asks
(RequireAccessToken, SharedDemo, publicReadAllowed, LimitTraffic). `Server` is `run()`:
`StartService` takes the directory locks in the order of the code, `Arrive` takes a
request through the gates to its handler, `EnterAccounts`, `LoadAccount`,
`LoadNetworks`, `LoadFails` are the part under `accountsMu`, `Call` and `Finish` the
handler. `Signal` and `Drained` are `server.Shutdown`, which gives up after 30 seconds;
`AcceptFails` is a listener that fails for good, after which `run()` returns without
Shutdown. Either may leave handlers behind (`abandoned`). `ShutDownAccounts`,
`MaintenanceReturns` and `Close` are the deferred functions, whose order is
`ClosedBefore`; `Close` waits for the calls that hold a mutex it takes (`Mutex`), and
only for those. Process 2 is the next deployment, started
when the first one ended or while it still runs. One account and one linked network
stand for all of them. A page or the login form is not counted by
LimitTraffic, a handler that makes several service calls
is seen at one of them, and the tests of host, origin and CSRF token end a handler early
(`Finish` without `Call`).

**Quotes, Faucet.** `QuoteStart` ends with the allowance CreateQuote reads, `QuoteFinish`
reads funds and nonce and stores the quote; `SendCheckNonce`, `SendRecheck`, `SendAppend`
are the RPC calls of Send in their order. What a node calls pending may be any prefix of
what was sent to it. `Faucet` adds claims that hold `TestFaucet.mu` from `ClaimStart` to
`ClaimEnd` and use the same quotes and journal as the owner of the account. The
History call of a claim is `Observe`, which may happen at any time.

## 4. Runs

| Run | Asks | States, bounds |
|---|---|---|
| `journal` | can any sequence of calls, failed writes and kills lose an acknowledged record or leave files that do not load? | 4 signatures, capacity 3, archiving from 2 |
| `evm_crash` | what is on disk and in flight when a write fails and the process dies anywhere in Quote, Send, Retry, History; does a finalized transaction become final in the journal? | 2 transactions, 3 nonces, a restart and a failed write |
| `evm_ledger` | is finality true and permanent, what stops the wallet, and does it implement the ledger, with a reorganization too? | 2 transactions, 2 nonces, two faults of restart, reorganization and failed write |
| `evm_fresh_alone` | is a new payment appended only when nothing is in flight? (violated) | a reorganization |
| `evm_fault` | is storageFault raised only by failed writes? (violated) | no fault at all |
| `solana` | are broadcast transfers on disk, expired ones never landing, final ones true, one open at a time, and what is left of that after a fork? | 2 quotes, 4 heights, two faults of fork, restart and failed write |
| `tron` | the same questions for TRON, and does the wallet implement the book of transfers? | 2 quotes, 5 ticks, a fork, a restart, a failed write |
| `fallback` | does a request ever reach an endpoint of another chain, fail before all were tried, or never end? | 2 callers, 3 endpoints, 3 operations |
| `scanner` | is a block skipped, a hash or a setting lost, and does the scan catch up? | 4 blocks, 2 configurations, a restart, a failed write |
| `accounts` | two accounts with one address, a lost key, no wallet left unarchived, locks taken in two orders, a deadlock? | 3 accounts, 2 requests, a restart, a failed write |
| `server` | does anybody work in a directory without its lock, is a lock left behind, can visitors use up what is the operator's, does a process told to stop end? | 2 processes, 2 requests of 4 routes, limits of 1, any number of starts, signals and kills |
| `faucet` | is an address paid twice within an hour, the hourly limit passed, an approval mined over another one? | 2 claims and the owner, 3 addresses, 3 transactions, an hour of 2 ticks |

What they show. The passing runs hold. The two runs that find a violation each
contradict a sentence of the repository:

- `evm_fresh_alone`: `Send` looks for a transaction in flight once (service.go:323) and
  appends after the decryption and a dozen RPC calls. A History under the other mutex may learn
  meanwhile that a mined transaction was reorganized out; then two nonces are in flight,
  against "Single outstanding tx constraint" (service.go:277). `SingleInFlight` holds on a
  chain without reorganizations, and each of them costs one more open nonce at most
  (`OneBeyondReorgs`, proved).
- `evm_fault`: a Retry waits for its broadcast while History archives the record it is
  about to update. The update does not find it among the active records, and
  `storageFault` stops the wallet until a restart although no write failed
  (service.go:242 says the disk must be repaired). `FaultHasCause` (`evm_ledger`, and
  proved) says that this is the only case beside a failed write.

Remarks without a run of their own:

- A Solana record that says `execution_failed` lets the next transfer go before it is
  finalized (solana.go:168); docs/wallet-reference.md:191 says "One outstanding transfer
  is allowed until finalized". That holds without a fork (`OneUnlessForked`); after one,
  a transfer can join only those whose failure History saw on a block that was undone
  (`AppendsBesideFailed`).
- When Shutdown gives up on a handler (30 seconds against handlers of up to 45), or the
  listener failed, `Close` waits only for the call under way, and only if it holds
  `sendMu` or `historyMu` (`mu` on Solana and TRON). A handler that makes several calls,
  as a claim does, can then append to a journal whose lock was given back, and a backup
  or an import goes on. `WorkUnderLock` therefore excludes the handlers left behind; the
  lock of the root is given back last, so a successor has hardly started by then.
- docs/test-faucet-2026-09-15.md:29 says the check for an equal payment covers manual
  transfers. It covers those that are on record when the claim begins; one sent from the
  dispenser's account between that check and the claim's Send is not seen.
  `PaidOncePerHour` is about claims.
- A visitor's wrong passwords count against the login attempts the operator needs
  (access.go:42 says so: work is bounded globally). `VisitorsNeverCrowdOut` is about the
  request limits and slots.
- A kill inside AddAccount leaves a directory without account.json. listAccounts names it
  and UpdateAccount counts it as an open wallet, while NewAccountService refuses it; so
  the "last wallet" that is kept unarchived may be one that cannot be visited.
  `SomeUnarchived` counts as the code does.

### Bounds, and why they are enough

Two transactions are the least with which one can replace, delay or follow another; a
third record makes archiving name files by ranges that can overlap (`journal`). One
failed write, one restart and one reorganization or fork are enough to reach every state
in which memory, file and chain disagree pairwise; `MaxFaults` = 2 bounds their sum in
the EVM and Solana wallets, so every pair is covered and the triple, by TLC, is not. `MaxVersion` bounds how
often a record is touched without changing. A validity window of two blocks or ticks has
a transaction that is still valid, one that just expired and one that long did.
Thresholds (1000, 900, 100, 20, 150 blocks) shrink to 1, 2 or 3, which puts each of them
within reach; `KeepLast` is at least 1, as in the code. Three endpoints are the least
with a wrong one between two right ones. `MaxOperations` lets callers of `Fallback` stop,
which is why that run alone turns the deadlock check off. In `server` a limit of one
request, slot or attempt is reached by the first and met by the second; the four routes
are a public read, a backup of an account, which Close does not wait for, the creation a
shared demo leaves to its operator, which it does wait for, and the login, so each gate
and limiter is passed. Starts, signals and kills are not bounded. In `faucet` the limit is
two and there are three addresses, one of which the owner pays as well, so that a third
payout would be the first of its address; an hour of two ticks has a payment that is recent and one that no longer is.

### Fairness

Four runs check liveness. `FinalGetsRecorded` (`evm_crash`) and `CatchesUp` (`scanner`)
rest on one background loop: RunMaintenance ticks every two seconds for as long as the process lives, runs
History every fifteen and ScanOnce each time, whatever the previous one returned. So
beginning is weakly fair, and an RPC call that is made again and again is answered now
and then (strong fairness of the answer of each item, of the head and of the block);
`historyOffset` gives every item its turn before the deadline. The chain goes on
finalizing blocks up to the bound of the run. A mutex of Go does not starve, hence strong
fairness of taking it. In `fallback` (`OperationEnds`) every request ends by its deadline
(4 s for a probe, 8 s for a send), so the steps of each caller are weakly
fair. In `server` (`ShutdownEnds`) a handler has a deadline on all it waits for, Shutdown
gives up after 30 seconds, the context of maintenance is cancelled, and deferred functions
run: `Serve` of each request and `Stop` of each process are weakly fair, nothing is assumed
of the start, of signals or of clients. `SomeoneCanGoOn` of `accounts` is an invariant over ENABLED and assumes no fairness.
Nothing is assumed of Send, Retry, imports or users; failed writes are finitely many.

## 5. Proofs

Every safety property of the passing runs that is not about ENABLED, and the refinements of
`PaymentLedger` and `TransferBook`, is a theorem for every value of the constants. The only assumptions are the named ones the
modules state about their constants: bounds are naturals, `KeepLast` is not 0, a limit
admits somebody, an ID is a natural, and the like. Bounds such as `MaxRestarts` or
`MaxTime` are constants too, so a theorem covers any number of faults and any length of
time. Each proof follows one scheme: an inductive invariant, checked by TLC on an instance
of the run before it was proved; a lemma per action; a lemma that combines them; the
theorems, which read the properties off the invariant.

| Theorem | States |
|---|---|
| **EvmWalletProofs**, journal: `JournalTypeCorrect`, `NoGap`, `HeldOnce`, `NoneForgotten`, `EverySeenOnce`, `Reloads` | whatever fails, every acknowledged record is in journal.json or an archive, is held in memory exactly once, and the files always load |
| wallet: `WalletTypeCorrect`, `BroadcastIsStored`, `DiskIsMemory` | what was broadcast is on disk; without a fault memory and files agree |
| `AnswersKeepMined` | a late answer reopens nothing |
| `FinalRecordsAreTrue` | what is marked final is true, reorganizations included |
| `FaultsHaveCause` | the wallet stops only after a failed write or an answer for an archived record |
| `OneOpenBeyondReorgs`, `OneOpenSoFar`, `OneOpenNonce` | one nonce is open, and one more per reorganization at most |
| `WalletIsALedger` | `EvmWallet` implements `PaymentLedger` |
| **SolanaProofs**: `DiskIsEnough`, `OutcomesHold`, `OneCanStillPay`, `NextBesideFailed`, `FinalStaysOnDisk` | broadcast transfers are on disk; expired and final ones are so; until a fork one can pay, after it a transfer joins failed ones only; final records of the file stay |
| **TronProofs**: `SentIsOnDisk`, `OutcomesHold`, `OneCanStillPay`, `FinalStaysOnDisk` | the same, and one can pay with forks too |
| `WalletIsABook` | `TronWallet` implements `TransferBook` |
| **FallbackProofs**: `FallbackTypeCorrect`, `RightChain`, `FailsAfterAll` | no request reaches another chain; a failure means all were tried |
| **ScannerProofs**: `ScannerTypeCorrect`, `NothingSkipped`, `IndexGrows`, `ConfigurationKept` | no block is skipped, no hash or setting lost |
| **AccountsProofs**: `AccountsTypeCorrect`, `OneKey`, `OneUnarchived` | one wallet per address, with its key; one stays unarchived |
| `LocksHaveHolders`, `LockOrder`, `SomeoneUnblocked` | locks are held by requests that will give them back and waited for in one order, so somebody is not blocked |
| **ServerProofs**: `ServerTypeCorrect`, `WorksUnderLock`, `LocksNeverRefuse`, `OperatorsAlone` | work only under the lock; no lock left behind; visitors use up nothing of the operator's |
| **FaucetProofs**: `OncePerHour`, `LimitHolds`, `CheckedWhenMined` | one payout per address and hour, within the limit; what Send rechecked still holds when mined |

The inductive invariants, and why the properties alone are not enough:

**Journal** (`JournalInv`). `NeverAGap` needs three more facts. `Mirrored`: journal.json
holds every active record of memory, except right after an archiving whose last write
reported an error although it took place; then the archive file holds exactly the archived
set and journal.json is memory without it. `AllHeld`: every acknowledged record is, seen
from memory and seen from journal.json, either active there or in an archive file whose
first record is not active, so that no later archive takes its name. `Acknowledged`: what
is active in memory or held by an archive file was acknowledged. The case that needs them
is archiving after a journal.json that was shortened but whose directory sync failed: the
next archive overwrites the only file with those records, and the three facts together
say that it writes the same records into it. `Reloads` needs `LoadableInv`: what load
checks, for the file and for memory, since memory is what the next write saves. The
operations are proved for any caller, so the wallet reuses them: `EvmWallet` steps are
steps of the journal or leave it alone.

**EVM wallet.** `WalletInv` adds to `JournalInv` that what was sent was acknowledged
before (`SentPart`) and that an unfaulted disk is memory (`FaultPart`). `VersionInv` says
that a version read before an RPC call is the record's version still or an older one, and
the record was open at that version; so an update that finds the version unchanged reopens
nothing. `TruthInv` is about every copy of a record, in memory, in journal.json, in any
archive file and in the hands of History, because a crash can bring back any of them: each
has the nonce that was sent, and if it says final, the chain agrees (`TruthPart`). What
History observed and has not yet applied is true as well (`ObservedTruth`), since what is
final on the chain stays. `AloneInv` is about open nonces. It is stated against `Peak`, the
account's nonce plus the reorganizations so far: mining raises the first by one, a
reorganization moves one from the first to the second, so `Peak` never falls although the
nonce does. A transaction that any copy or any observation under way says was mined is
behind it for good (`MinedBehind`); so a journal with nothing in flight has every nonce
behind it, and of the copies that are not, all have one nonce (`OpenAlone`), also while a
Send is between its check and its append (`OpFresh`, `OpReplaces`). `OneBeyondReorgs` is
read off it. `SingleInFlight`, the same against the nonce itself, fails after a
reorganization, as in `evm_fresh_alone`; hence the hypothesis `MaxReorgs = 0` of
`OneOpenNonce`, and `spent.reorg = 0` in `OneOpenSoFar`. `FaultHasCause` needs that a
refresh works on active records (`ItemsActive`): only archiving takes records away, and it
ends the refresh; an answer has no such protection.

**The refinement** (`LedgerInv`). One lemma per abstract action says what known records it
needs (`IsCommit`, `IsBroadcast`, `IsPay`, `IsVoid`), one per action of the wallet which of
them it is. Most steps stutter. The steps that need an invariant: an append commits a quote
that had no entry (`OpFreshQuote`); a mined update pays a nonce no other entry was paid for
(`TruthInv`); a restart changes nothing, unless the last write left something in the file
that memory had not: one record more or one updated makes it the step that write would have
been, and records that were archived stay known, from their file (`DiskPart`).

**Solana, TRON** (`SolanaInv`, `TronInv`). A list of records is `Sound` if each record
tells the truth (`Tells`), the records that can still be executed are of one transaction,
and everything broadcast is in it. Memory and file are both sound, though different after a
failed write; `SoundStill` says that nothing the chain does (`Moves`) makes a sound list
unsound. For TRON the copy History works on is sound too, and knows of each place it passed
whether the file has it as final (`CopyPart`): a History on a memory that fell behind the
file would otherwise undo a final record. A TRON list has one open record, forks or not. A Solana list
may have two, since Retry reopens a record that failed; what stays unique is the message that
can still land (`OneLive`), until a fork. What a final record of the file says, memory says too (`Within`),
so a save never replaces it; and a record whose transfer can still land keeps any append
out unless it failed (`NextBesideFailed`).

**The book of TRON** (`BookPart`). Memory is what the book shows, and what a restart
reads from the file must be one step of the book away from it, or none. Send and Retry go
on only while the two agree, but History runs after a failed write too, on the memory that
fell behind, and may save it over the file. `Covers`: the file holds the records of memory, each as it is
there or one outcome further (`Follows`), or all of them closed and one open record more.
Since one record at most is open, a restart shows one outcome or one transfer at most.

**Fallback** (`FallbackInv`). What a caller took for a good endpoint is one
(`GoodEndpoint`), and what a scan is past has failed this request (`PastFailed`), where the
scan counts from the endpoint that was active when it began, whatever `active` is by now.
That a scan numbers every endpoint is arithmetic modulo `N`.

**Scanner** (`ScannerInv`). Not only the saved cursor but that of a scan under way is
covered by the index (`Covered`), and the scan carries the configuration of the file
and, once it looked at its block, all its hashes (`ScanPart`); who holds `sendMu` finds the file as it read it (`LockPart`).

**Accounts** (`AccountsInv`). What a request may rely on at each of its steps because of
the locks it holds (`AddPart`, `KeyPart`, `SavePart`), and that two requests never add the
same directory (`Distinct`). A lock names a request that is at a step for which it was taken
(`HolderPart`), so no return leaves one behind; `Level` numbers the steps, and who waits
waits for a request at a higher level (`LocksInOrder`). Of the requests under way one at the
highest level is therefore not blocked (`SomeoneUnblocked`).

**Server** (`ServerInv`, `GateInv`). At each point of `run()` what is open is known:
a prefix of the start order until it listens, all of it while it serves, and the accounts
with or without their networks until they are sealed; the root's lock is the last it gives
back (`ProcessPart`). Every lock belongs to something open or half loaded (`LockPart`).
`GateInv` counts: where there is an operator, everything in the window and the slots of
"authenticated" is the operator's.

**Faucet** (`CheckedInv`, `ClaimInv`). The transaction with the account's next nonce is
one, so what `SendRecheck` saw still holds when it is mined. A claim holds `TestFaucet.mu`
from the look at the journal to the append; what it saw there holds until then
(`ClaimPart`), although the owner and the clock go on, so the payout it appends is the
first of its recipient's hour and the limit has room for it.

Only model-checked: liveness under fairness (`FinalGetsRecorded`, `CatchesUp`,
`OperationEnds`, `ShutdownEnds`) and `SomeoneCanGoOn`, an invariant over ENABLED; TLAPS
handles neither. `LockOrder` and `SomeoneUnblocked` prove the part of `SomeoneCanGoOn` that
is about locks. The other way round, `OneBeyondReorgs` is proved, and checked by simulation
only: it says more than `SingleInFlight` from three transactions on, which is more than
`evm_crash` and `evm_ledger` have. The two runs with a violation are refuted statements.

## 6. Plan

Done, in this order: `Journal`; `EvmWallet`, `PaymentLedger`, `MCEvmWallet`;
`SolanaWallet`, `TronWallet`; `Fallback`; `Scanner`, `Accounts`; `Web`, `Server`;
`Quotes`, `Faucet`; the proofs of section 5, of which the order of the locks in `Accounts`,
Solana after a fork, `TransferBook` and the open nonces after a reorganization came last.
Left: an abstract specification of the Solana wallet, whose list may reopen a record; a
refinement of the catalogue of accounts.

## 7. What is not modelled, and why

The vault contract: two operations under a reentrancy guard, a program of its own on the
chain; the wallet treats a vault call as a payment. The deployment scripts: sequential
shell scripts; what they do to the wallet, a stop, a kill after the grace period and a
successor, is in `Server`. The ERC-4337 package, which builds
and signs one operation and keeps nothing; fee, amount, token and pool arithmetic, pure
functions over 256-bit integers whose failure is a refusal (`GiveUp`, or no quote); key
derivation and encryption; data transfer objects; the command-line checks, fixed
sequences that run once; and the browser code, which renders what the server decides.
Decoding of RPC answers is modelled by the answers it can yield. Of modelled parts: the
faucet's TRX source (the same steps over a TRON service), creating, restoring and changing
the password of the Solana and TRON keys (single writes of the kind `Accounts` models), and
reorganizations in `Quotes` (`EvmWallet` has them).
