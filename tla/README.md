# Velthoryn vesting: TLA+ models, checks and proofs

Velthoryn locks tokens in campaigns on Solana and pays them out on vesting schedules.
This directory holds TLA+ modules of the program, of the web server and of the pages
around it, the TLC configurations that check them, and theorems about them that TLAPS
checks.

All paths below are relative to the repository.  `P` stands for `programs/vesting/src`,
`W` for `apps/web/src`, `[id]` for `W/app/(app)/campaign/[id]`, `[tree]` for
`W/app/api/campaigns/[treeAddress]`.

## 1. The system

| part | state it keeps | operations | talks to |
|---|---|---|---|
| Campaign instructions (`P/instructions`, `P/state/vesting_tree.rs`) | the VestingTree account (root, counters, flags, authorities, cancellation time), the vault | 19 instructions: create (4 variants), fund (2), claim, withdraw, cancel_campaign, cancel_stream, update_root, pause, unpause, set_milestone_released, withdraw_unvested, instant_refund, close_claim_record, get_vested_amount | claim records, clock, token program |
| Claim record (`P/state/claim_record.rs`) | per beneficiary: running sum, milestone bitmap, a ledger with one slot per claimed leaf index (8 slots), layout version | find slot, record a claim, migrate version 0 | written by claim, withdraw, cancel_stream, close |
| Vesting schedule (`P/math/schedule.rs`; again in TypeScript in `W/lib/vesting`) | none | vested amount of a leaf at a time, frozen at the cancellation | claim, withdraw, cancel_stream, get_vested_amount; every page |
| Merkle proofs (`P/math/merkle.rs`, `clients/ts/src/{leaf,merkle,prepare}.ts`, `W/lib/merkle`) | none | build a tree, make and verify a proof, cap its length | claim; the web server stores leaves and proofs |
| Event indexer (`W/lib/indexer`, `W/app/api/{events,claims,cron,admin}`, `[tree]/status`) | event tables, the campaign rows, one slot checkpoint | scheduled pass, single-transaction pass, claim pass, status written by the page; pages, timelines and states read from the tables | the chain's log; writes what the API serves |
| Root rotation and proof service (`W/hooks/useUpdateRoot.ts`, `[tree]/{root-versions,proof}`) | root versions with their leaves | rotate on chain, then post; serve a proof; claim with it | the program's update_root, the indexer |
| Campaign creation (`W/hooks/useCreate*.ts`, `W/lib/stream/persist.ts`, `W/app/api/campaigns`) | two queues in the browser that all tabs share, campaign and leaf rows | create, post, fund, resume, flush | the program, the database |
| Creation forms and CSV files (`W/app/(app)/campaign/create`, `W/lib/campaign`, `W/lib/validation`) | the fields of a page, its parsed file, its token | type, paste, parse, check, build leaves, send | prepare routes, creation |
| Allocation editor (`[id]/allocations`, `W/components/campaign/detail/AllocationEditor.tsx`) | a table of rows filled by four answers | edit, rotate | leaves route, rotation |
| Wallet authentication (`W/lib/api/{auth-middleware,client-auth}.ts`, `W/app/api/auth/nonce`) | nonces with a lifetime | issue, sign, verify once | every authenticated route |
| Rate limiting (`W/lib/api/rate-limit.ts`) | counters per key and window, shared or in memory | count, refuse | every route |
| Campaign page (`[id]/page.tsx`, `W/components/campaign/detail`, `W/lib/api/tx-builder.ts`, routes that build transactions) | none of its own | who is offered what, for which amount | every instruction |
| Lists and figures (campaigns, dashboard, portfolio, sidebar; their routes) | saved snapshots in the browser | sums, statuses, labels | rows of the database |
| Token picker and wrapping (`W/components/providers/WalletTokensProvider.tsx`, `W/hooks/useWrapSol.ts`, `W/components/campaign/create/{TokenPicker*,WrapSolModal}.tsx`) | the list of the wallet's tokens that all pages share; the dialog's two balances | read, refresh, wrap, unwrap | the node, the wallet |
| Rest of the user interface | presentation | | |

How they interact.  The program is the authority.  A creator creates and funds a
campaign, whose tree account commits to all leaves by a Merkle root; a beneficiary
proves a leaf and is paid what has vested beyond what the claim record remembers.  The
web server follows the chain by its event log and by posts of the browsers that sent the
transactions; it serves the proofs the claims need.  Nothing compares a post with the
chain: what the server holds is right because of the order in which pages do things, and
that order is broken by closed tabs, refused signatures, second tabs and answers that
come late.

What is hard about it, and what makes it right:

- *Campaign and claim record.*  Solana serialises transactions on the accounts they
  write and undoes a failed one, so a handler is a step, but the order of handlers is
  anybody's: claims, withdrawals, pauses, rotations, cancellations, sweeps and record
  closings of several signers interleave with the clock.  Right means: books and bank
  agree; nobody is ever paid ahead of schedule or twice; what has vested and was funded
  can be paid, whatever happened before; a cancellation freezes and, after the grace
  period, ends the campaign; the creator takes nothing back before that except by a
  cancelling step which leaves the beneficiaries their due.
- *Pages.*  Every rule of the program is written a second time in TypeScript, some a
  third time in the routes.  Right means that a button that is shown can be pressed and
  moves the amount it names.
- *Indexer.*  The log is read newest first, twice, partly, or interrupted; the database
  must in the end tell what the chain tells.
- *Rotation.*  The chain and the server change in two steps, either may fail or be
  overtaken; proofs are cached in browsers.
- *Creation.*  Three steps with a failure possible after each; a retry must complete the
  campaign and not double it.
- *Forms.*  A page keeps a file's rows, a token's decimals, a clock and a list of fields
  that change independently of one another; the chain must get what was written, in
  leaves that can be paid, with proofs of exactly those leaves.
- *Token picker and wrapping.*  Reads of balances are joined, dropped or half fail, a
  transaction may go out of sight and land later, and the dialog stays usable meanwhile.
  Right means that what the balances let through is possible and what is called a
  success was one.
- *Authentication and limits.*  A nonce is accepted at most once, a limit holds over
  windows and instances, and nobody who is prompt is turned away.

`PROJECT.json` lists every part with its status and every hazard at its line.

## 2. The modules

| module | what it is |
|---|---|
| `VestingMath` | the curve, the freeze, the query `get_vested_amount`, the proof-length cap: operators only |
| `Campaign` | one campaign of the program: one action per instruction (the token and the native variant of creation are one action with a flag in its argument; the two of funding are two actions) |
| `Escrow` | the abstract specification: an account with a cap, open, frozen at most once, emptied |
| `CampaignRefinement` | the mapping under which `Campaign` implements `Escrow` |
| `Sums` | sums over finite sets, as the number of units to be counted |
| `CampaignProperties` | type invariant, safety, action and liveness properties, fairness |
| `DocumentedClaims` | sentences of the repository's documents, comments and tests that the program does not live up to |
| `Offers` | what the campaign's page and the transaction routes offer, as operators over the states of `Campaign` |
| `Lists` | what lists, cards, dashboards and labels say, as operators over the same states |
| `OfferProperties` | offers and lists against the program |
| `ChainLog` | the program as its followers see it: per campaign what its events tell, and the log of transactions |
| `Indexer`, `IndexerProperties` | the web server's event indexer over `ChainLog`, and what the database promises of the chain |
| `Gate`, `GateProperties` | the rate limiter and the signed nonce in front of the routes |
| `Service`, `ServiceProperties` | rotations from the page to the chain and the server, served and cached proofs, claims with them |
| `Creation`, `CreationProperties` | creating, posting and funding, the two queues, several tabs |
| `Merkle`, `Client` | the tree builder, prover and verifier of the web application; the client library's, the program's and the server's |
| `Allocation` | amounts, rows and leaves: conversions and the checks of pages, routes and program |
| `Form`, `Editor`, `DraftProperties` | one of the three creation pages, then the allocation editor on the campaign it made |
| `Review` | what a creation page shows of the campaign it is about to make, as operators over the states of `Form` |
| `Wrapping` | the token picker, its list and the dialog that wraps and unwraps SOL, with their properties |
| `MCCampaign`, `MCIndexer`, `MCGate`, `MCService`, `MCCreation`, `MCDraft` | instances for TLC |
| `CampaignProofs`, `CampaignLedgerProofs` | theorems about the schedule and the program, the second on top of the first, with those about the campaign's page at its end |
| `IndexerProofs`, `GateProofs`, `ServiceProofs`, `CreationProofs`, `DraftProofs`, `WrappingProofs` | theorems about the server and the pages |

Composition: `Form`, `Editor`, `Review` and `DraftProperties` compose the pages with
`Allocation` and both Merkle libraries; `Offers` and `Lists` compose the pages and routes
with `Campaign`; `Indexer` composes the server with `ChainLog`.  `Creation`, `Service` and
`Draft` look at the same pages from three sides: `Creation` at what becomes of its
transactions, `Form` and `Editor` at what is in them, `Service` at what follows a
rotation.

### Campaign: state and code

| variable | in the code |
|---|---|
| `now` | `Clock::get()?.unix_timestamp`; moved by `Tick` alone |
| `tree` | the VestingTree account; `released` is `milestone_released_flags`, `native` is `mint == NATIVE_SOL_MINT`, `NoTree` no account |
| `vault`, `lamports` | the vault's token amount; the tree account's lamports, rent included (a native campaign keeps its money there) |
| `record[b]` | the ClaimRecord account of beneficiary `b`; `ledger` is the slot arrays as a function from leaf index to amount, with at most `PerLeafCap` entries |
| `creations`, `paid`, `deposited`, `paidOut`, `returned`, `archived`, `disturbed`, `rotated` | no account holds these: the history the properties refer to.  No guard reads them but `creations`, which bounds the run and says that a freed address is native |

Abstractions, and why they keep the behaviour:

- *A Merkle root is a set of leaves*: those for which a proof verifies.  A leaf outside
  the set would need a collision.  The length of the proof is checked against
  `leaf_count`, as the handler does before it hashes.  The set is taken to be a balanced
  tree.
- *A transaction is one instruction and one step.*  Solana locks the writable accounts
  and rolls back errors; a guard that fails in the code is an action that is not
  enabled.  Transactions of several instructions are sequences of steps.
- *Signers are parameters.*  `Claim` and `Withdraw` take the beneficiary from the leaf,
  which must sign; `FundCampaign` is left to the creator as `has_one` demands, so that
  its signer is left out.
- *Integers* are unbounded except where the code checks: `claimed_amount` and
  `total_entitled` are bounded by `U64Max`; the guard of the checked addition is part of
  the action, and `TypeOK` shows that no other counter leaves the range. The product in
  the linear curve is taken in u128 by the code, and loses nothing.
- *A native tree emptied by its last payment* is deleted by the runtime, as an account
  without lamports is; its address can be initialised again, with the claim records of
  the earlier campaign still there.

### Offers and Lists: operators over the states of Campaign

The pages keep no state of their own that matters here; what they show is a function of
the accounts (or of rows that have caught up with them) and of the wallet that looks.
So they are operators over the variables of `Campaign`, and what is checked is an
invariant of its runs.  `Offers` has the buttons of `[id]/page.tsx` and of the
components it renders (claim, withdraw, pause, cancel, settle, refund, sweep, close,
fund, rotate, release), the amounts on them, and the routes that build a transaction for
a wallet that asks; each offer is tied to the one instruction it is sent on
(`HandleToggle`, `HandleSweep`, ... and `AfterCancel`, ..., the tree as the page then
has it).  The dialog of a cancellation (`EffectiveMode`, `HandleConfirm`) may refund,
settle or cancel, by the mode it is in and by what the wallet may do when it confirms;
the panel of milestones (`PanelMilestones`, `PageItems`, `HandleRelease`) is checked for
pages of any size up to the number of milestones, where the code has twelve.  `Lists` has
the rows of the campaign list and how they are put together from the routes and from this
browser (`Sources`, `ListedRow`, `InTab`), the badge, the portfolio, the dashboard, cards,
banners, charts, labels, the stream rows kept in the browser, and the simulated schedule.

The page of a stream puts the schedule into the fields of a form and reads it back
from them (`InForm`), and a `datetime-local` field holds no seconds (`InMinutes`).  What
it shows as vested, its labels, cards and chart come from there, while the two handlers
that build an instruction send the seconds that the page kept beside the form
(`[id]/page.tsx:316`), and the lists, the routes and a campaign of several leaves have
the seconds anyway.  So a stream's page is ahead of the program by less than a minute.
The properties say so: what is shown is between what is due and what is due by the end
of the minute (`OutstandingSoon`), and is exact where the times are whole minutes, and
of a milestone, which is all or nothing (`ToTheSecond`).  A claim that is paid before its
cliff, or that pays more than was shown, would still be noticed.

What is taken for granted: a fresh view of the accounts, as a page has that has just
loaded (a stale one is refused by the program, which is what the run of `Campaign` shows
anyway); leaves in the order of their index, though the proof route has no ORDER BY.
`Settlements` stands for the flag that a row of `stream_cancel_events` exists: then the
vault is empty.  `ControlsAgree` and `RoutesAgree` hold through rotations and refills;
`ClaimsAgree` and `ListsAgree` do not, and are stated for campaigns whose root was not
rotated and whose supply nothing disturbed.

### Indexer: state and code

`ChainLog` has the handlers of `Campaign` again, cut down to their event and to the
guards that say which event may follow which; amounts, leaves and authorities are gone.
A transaction carries one or more events (several instructions), a slot holds several
transactions, and a block can be read once it is confirmed.

| variable | in the code |
|---|---|
| `chain[t]` | the VestingTree fields that events report; `drained` is an empty vault |
| `log`, `slot` | the transactions of the program, and the slot of the block being filled (which is the clock as well) |
| `rows[t]` | the row of `campaigns`; `NoRow` until `POST /api/campaigns` |
| `tables` | the eight event tables, each with its UNIQUE signature; pause and unpause share one |
| `checkpoint` | `sync_state.last_synced_slot` |
| `worker[w]` | the local variables of one server invocation: `startSlot`, the cursor `before`, the signatures of the page and the events of the transaction still to do |
| `owed[w]` | history: the events a pass set out to index |
| `patched` | history: the events whose page has written the row itself |

| action or operator | in the code |
|---|---|
| `CronSync`, `AdminSync` | `indexAllEvents()` from the checkpoint, or from the slot an operator gives |
| `SyncSignature`, `SyncClaims` | `events/sync` and `claims/sync` with one signature each |
| `FetchPage` | `getSignaturesForAddress` with its cursor, the filter by `startSlot`, both ways out of the loop |
| `ReadTransaction`, `MissTransaction` | `getTransaction` and the extraction of its events; the early return when the node has no logs |
| `IndexEvent` | one branch of `indexEventBuffers`: entry, row and checkpoint in one database transaction; nothing at all when the campaign has no row |
| `IndexClaim` | `syncClaims`: the claims of one transaction alone, written as `IndexEvent` writes them |
| `PatchStatus` | `PATCH status`: a pause, cancellation, refund or settlement that its page has just seen written to the row, with the browser's clock and the page's total |
| `Crash` | an exception or the platform's time limit |
| `Pages`, `Timeline`, `Activity`, `Claims` | the routes that list events, and how they are cut into pages |
| `TreeState` | the page's merge of the account, when the node answers, with the row |

A request with several signatures is modelled as several requests: between two of its
signatures it holds no state but a cache of row ids, and rows are never deleted. The log
holds the transactions that succeeded; the code reads the logs of failed ones in the
same way (`W/lib/indexer/event-indexer.ts:507`).  A page writes at most once per event,
and that may be lost or late by any amount; its clock is up to `Skew` ahead.  A native
account that `cancel_stream` closes is not created again here: that is the subject of
`Campaign`.

### Gate: state and code

| variable | in the code |
|---|---|
| `now` | `Date.now()` of the servers; browsers are ahead by one of `Skews` |
| `upstash` | whether `UPSTASH_REDIS_REST_URL` is configured |
| `store` | nonces with their expiry, in Redis or in the instance's map |
| `counter`, `bucket` | the fixed windows of Redis, aligned to the clock; `memoryBuckets` of an instance, which begin with a request |
| `draft[n]` | the message a browser composed around nonce `n`, and who signed it |
| `request[r]` | a request in progress and the await at which it stands |
| `issued`, `spent`, `accepted`, `admitted`, `arrivals`, `boots` | history, and bounds |

`Compose` and `Sign` are `createAuthHeader` (the timestamp is taken before the wallet's
dialogue), `AskNonce` and `SendHeader` the two kinds of request, of which the second may
be sent any number of times; `SharedLimit` and `MemoryLimit` the two ways to count, the
second also when a call to Redis fails; `IssueNonce` and `LoseNonce`, `TakeNonce`
(`getdel`) and `TakeFails` the store; `Verify` signature and timestamp; `Reboot`
replaces an instance and its memory.

### Service: state and code

| variable | in the code |
|---|---|
| `root`, `cancelled`, `claimed` | what the page reads of the chain |
| `gate`, `payable` | what else `claim` looks at: whether the campaign is open, paused or refunded (`claim.rs:71-78`); of whose leaf there is something to claim and enough to pay it with (`:169-206`) |
| `versions` | table `root_versions` |
| `visit[r]`, `tx[r]`, `post[r]` | a visit of the editor (the page's awaits), its `update_root` transaction, its POST on the server |
| `proof[b]`, `answer[b]` | the cached proof of a beneficiary's browser; the answer on its way |
| `claim[b]` | the claim dialogue: simulated and sent, or reported; as a history its `fate`: paid, or overtaken by something else |
| `alone` | history: no two rotations ever overlapped |

`LoadPage`, `Submit`, `Recheck`, `GiveUp`, `SendRoot`, `Confirmed`, `TimeOut`,
`Authorize`, `Answered` and `Reject` are the awaits of `AllocationEditor.handleSubmit`
and `useUpdateRoot`; `LandRoot` and `ExpireRoot` the chain; `ReadMax` and `Insert` the
two queries of the POST, and `LoseAnswer` its connection; `Serve`, `Receive`,
`FetchFails` and `Age` the proof query and its cache; `StartClaim`, `LandClaim` and
`ExpireClaim` the claim.  `ClaimElsewhere` is a claim of the same leaf in another tab,
`Replenish` what makes one possible (time, a release, a deposit), `Drain` what takes it
away (claims of others, the sweep), and `Pause`, `Unpause`, `Cancel` and `InstantRefund`
the creator.  `confirmTransaction` resolves for a transaction that failed on chain, and
the code ignores its `err`: so `Confirmed` and `LandClaim` do not ask how the
transaction ended.  A wallet that cannot sign alone sends through Anchor's provider,
which does throw then (`ClaimWithProofButton.tsx:505`): that path only reports less and
is left out.  So is a native tree that is deleted, which is the subject of `Campaign` and
`Creation`; the `merkleRoot` of the campaign row is left to `Indexer`.

### Creation: state and code

| variable | in the code |
|---|---|
| `tree`, `vault`, `paid`, `cancelled` | the chain, per address |
| `txs` | transactions sent, and what became of them |
| `row` | the row and leaves the POST stored |
| `toIndex`, `toFund` | the two queues in localStorage |
| `page[t]`, `offered[t]`, `flush[t]` | where a tab stands; the list of unfunded campaigns it read; the queue it is flushing |
| `made`, `gone` | history: the drafts whose trees have stood at an address; addresses of which a tree was deleted |
| `dropped`, `masked`, `refused` | history: left before it was queued; a failed transaction taken for a success; the wallet refused |

`SubmitCampaign` and `SubmitStream` send the first transaction, `Land*`, `Fail` and
`Expire` are the chain; `CampaignCreated` and `StreamCreated` queue and post, `Posted`
and `PostFailed` end that; `Fund`, `Decline`, `Funded`, `TimeOut` the wallet's answers;
`Resume` and `Recover` the list of unfunded campaigns; `StartFlush`, `Flushed`,
`FlushFailed` and `Refuse` the background queue; `Reload` closes a tab at any step.
`Pay`, `Cancel`, `Sweep` and `Settle` are what happens to a campaign meanwhile; the payment
that reaches `total_supply`, and a settlement, delete a native tree (`Delete`), and
its address is free again.  Addresses recur because
the page takes the campaign id from the clock, modulo 10^6, once per visit.

### Merkle, Client, Allocation, Form, Editor

A hash is the tuple of what was hashed, with its prefix: keccak256 is taken to be
injective. `Merkle` has the web application's builder and prover, the program's verifier
and the server's; `Client` the second implementation in `clients/ts`, with the prepare
functions, the requests the pages post and their schemas.  Of bytes only the order of
the fields is kept.  `MaxTreeDepth` is MAX_TREE_DEPTH, 20 in both libraries: a file of
more rows than fit makes the constructor throw, so that nothing is ready (`FitsTree`,
`Buildable`, `IfBuilt`).

`Allocation` counts written amounts in the smallest unit anybody can write and converts
them to the units of a mint, which has fewer decimals; it has the three pages' checks,
the CSV importers, `prepare`, and the guards of the program.  `Form` is one creation
page (which one is the first choice of a behaviour): fields and files are filled in,
tokens are changed, the clock ticks, the page builds, creates, funds and resumes.
`Editor` is the allocation editor on the campaign that came of it: the tree, the detail,
the leaves and the decimals arrive in any order, `Mount` and `Sync` are the component's
two effects, and `Rotate` gives the campaign another root.

`Review` is to `Form` what `Offers` is to `Campaign`: the four sections of a file
(`StepStates`, `Banner`, `PreviewLines`, `ScheduleMetrics`, `CampaignSummary`), the
sidebar (`BulkReview`, `ShownDeposit`, `GasFee`) and its button (`CanSubmit`), for a
balance that is given as an argument.  `PreviewRows` and `ShownDecimals` are 5 and 4 in
the code.  The sidebar reckons in JavaScript's numbers: `Double` takes a value, in parts
of the smallest amount (`Grain`), to the number nearest to it, which is off by `Slip` at
most; every amount that is read is such a number, and every sum is rounded to one.  The
text a number is written out as is read as the same number again.

### Wrapping: state and code

| variable | in the code |
|---|---|
| `sol`, `wsol` | the chain: a wallet's lamports and its wrapped SOL, `None` without an account |
| `wallet`, `tokens`, `reading`, `failed` | `publicKey`; `tokens`, `fetchingRef` and `error` of `WalletTokensProvider` |
| `shown`, `asking`, `recent` | the balances of `useWrapSol`, `fetchInFlightRef`, `lastFetchedAtRef` |
| `picker`, `dialog` | what is open, with the tab, the amount and the message of success |
| `op`, `lost` | `wrapSol` or `unwrapSol` and the await it is at; a transaction whose confirmation was lost |
| `crossed`, `moves`, `switches` | history, and bounds |

`Refetch` and `FetchBalances` are the two ways to read, each with its own way to drop a
call; `Submit`, `Build`, `Sign`, `Lands`, `Refresh` and `Succeed` an operation; `Refused`
and `LoseSight` its ends; `Execute` what the system and token programs do with it. `op`
remembers whether the balances were true when it began and whether anything else moved
since, which is what the properties are about.

Operators marked *Mutant* stand next to the definition they spoil; they say what kind of
slip each property would notice.

## 3. The runs

There are twelve runs: nine that pass, with forty properties between them, and three in
which a sentence of the repository is refuted.

| run | instance | states | what it shows |
|---|---|---|---|
| `campaign` | multi-leaf campaign of three leaves and two beneficiaries, rotated among three roots; linear and milestone streams; SPL and native; partial and full funding; a native address used twice | 1.05 million | books, cap, schedule, pause, cancellation, early clawback, closing; both payment paths; `OffersMatchProgram`; `RefinesEscrow` |
| `liveness` | cancellable campaign, one neither cancellable nor pausable, and a stream, in tokens and in lamports, with a record of layout version 0 at every point from which something had vested | 33 thousand | full payment; the sweep completes; the instruction that migrates pays exactly the difference |
| `indexer` | two invocations at once, two transactions of up to two events in the same or in different slots, pages of one; the handlers that move money; the pages' own writes | 1.49 million | rows never ahead of the chain and never forgetful; a pass that ends has covered its range; lists and pages show no more |
| `cron` | the scheduled pass alone, four transactions, pages of two, every handler | 1.91 million | nothing is missing behind the checkpoint; the row comes to mirror the account |
| `gate` | two instances, two requests in progress and three in all, one browser with a clock a step ahead or behind, two wallets, with and without Redis | 3.98 million | a nonce is good once and for its time, quotas hold, who is prompt is served |
| `service` | two visits of the editor, three roots, one beneficiary with two tabs, one of them perhaps the editor's; pause, refund, releases and claims elsewhere | 2.15 million | versions in order, what the pages say of rotations and claims, proofs catch up |
| `creation` | two tabs, one address, a native address that may be used again, a campaign and a stream, three transactions | 1.69 million | nothing forgotten, nothing listed that is funded, the queue drains |
| `draft` | each creation page, two tokens of different decimals, up to three entries or a file, then the editor with two edits and two rotations | 1.93 million | what is written is sent, can be paid, and has exact proofs; what the page shows of it beforehand |
| `wrapping` | one wallet, two operations or movements elsewhere, the wallet changed twice | 3.22 million | what is let through goes through, a success is one, the list is the wallet's |
| `closed_record`, `legacy_mixed`, `skip_gap` | as above | | each a sentence of the repository refuted, see 4 |

In `indexer` invocations, and in `gate` instances, requests and wallets, are
interchangeable and declared symmetric; neither run has a liveness property.

`CHECK_DEADLOCK FALSE` is set where the system really may stop: a campaign ends
(everything paid, everything swept, the account gone), the model's clock stops,
transactions and edits are counted.

### Bounds, and why they are enough

*Campaign.*  The time line is 0 .. `MaxTime` with a grace period of 1 or 2, so that
every order of start, cliff, end, cancellation and sweep occurs.  Records of different
beneficiaries share nothing but the tree's counters and the vault, so two beneficiaries
show all interference between them, and two leaves of one beneficiary show all
interference inside a record.  Amounts are as small as keeps partial vesting (a linear
leaf of 3 over two time units rounds down once) and partial funding apart from full.
`PerLeafCap` is 2: two leaves fit, and the third, which a rotation brings, is the
overflow.  The roots enlarge and delay a leaf, re-issue a milestone under another index,
and end in a single leaf, so that the stream handlers meet a rotated campaign.  A minute
has two seconds, so that times fall on it and between; the theorems are for any.
`MaxCreations = 2` is the one re-use that matters, since a third meets the same leftover
records as the second.  `U64Max` is above every sum the instance can reach, except
through the mutants.  The offers and lists are evaluated in every state for every
viewer; a simulated month is two or three time units, all of equal length.

*Indexer.*  Two invocations show every interference, since they share nothing but the
database and each step is one transaction on it.  Two transactions and a page of one
give a page boundary, a log that grows while a pass runs, and two orders of reading;
four transactions and a page of two give the scheduled pass a second page and passes
that start from a checkpoint in the middle. `Supply = 3` leaves room for claims before
and a settlement after them.  In `cron` there is one campaign, a slot holds one
transaction and a transaction one event. These three are hypotheses and not only
economies; with any of them raised to two, both properties fail.  An event skipped
because its row was not posted yet is left behind when another event of the same slot,
or of another campaign, moves the checkpoint; and rotations that share a slot are
applied newest first with no later pass to put them right.

*Gate.*  A nonce is never drawn twice, and everything said of one is said of each, so
one is enough; what interferes are copies of its header, hence two requests at a time on
two instances, and a third to meet what they left.  A nonce lives for three units of
time and a message for three, give or take a browser's clock that is one off, so that
each of the two may be what ends a header.  The limiter's window is two units, with a
limit of 2 and three requests.  An instance is replaced once.

*Service.*  Two visits are what it takes for every overlap, in one tab or in two; a
third would overlap with one of them.  A root is chosen from three, of which the third
has no leaf for the beneficiary.  That something can be claimed, or no longer, changes
freely: amounts and times would only say when, and are in `Campaign`.

*Creation.*  One address, since addresses share nothing but the queues, which are
functions of addresses; a native one, since only such a tree is ever deleted, and what
holds of the others is proved; two drafts that both want it; two tabs; three transactions (two
for a campaign, one more that comes too late, twice, or for another draft).

*Draft.*  One handler at a time, as in a browser; one campaign per visit; entries or a
file, not both, and entries are not edited once they are submitted; one recipient of
milestones, as the page has.  Painting takes up to a tick.  The editor is opened only on
funded campaigns of two leaves of which nothing was claimed (a claim locks its page) and
when the clock has stopped; no fields are edited while a rotation is being sent.  A POST
is stored whenever the rotation succeeds: that it may not be is the subject of
`Service`. Two tokens with two and one decimals, so that an amount of 25 or 75 fits one
of them only; one decimal is shown, so that an amount of 25 is cut off, and two rows of a
file, so that one of five rows has more.  Numbers have nine binary places, and ten
below a quarter, where JavaScript's have 53 binary digits from the first on: few enough
for a sum of two small amounts to be rounded past its value, and enough for rounding to
stay below the smallest amount.  `MaxTreeDepth` is 3: eight leaves fit, and the
run has at most two; that what is said of trees holds for more is proved (5, *Trees*).

*Wrapping.*  One wallet that connects and disconnects is enough, since a list that is
read twice can only be that of a wallet or of nobody.  Rent, fee
and the least a wallet keeps are one unit each, and the margin is their sum: less than
in the code, where it is larger, so that the run is the tighter case.  Amounts are
rounded to two units where they are shown. Two operations, or one and a movement
elsewhere, are what it takes for one to meet what another left.  That the
wallet is not changed while the dialog is open or has something under way is a bound:
the page offers no way to, but the wallet itself may.

### Fairness

`LiveSpec` of `CampaignProperties` assumes the clock advances, that a beneficiary who
can claim a leaf in the end does, and that a creator who can sweep does.  Nothing is
assumed of the other actions, and nothing forces the creator to fund, release or cancel.
This is the scheduling the code relies on: it has no process of its own, so nothing is
paid unless somebody sends the transaction, and a transaction that stays valid and is
sent again is in the end included. `EveryLeafPaid` is stated for campaigns that cannot
be cancelled or paused and are fully funded, because otherwise it rightly fails.

`CronSpec` assumes that blocks are confirmed, that the scheduled pass comes round again
(`vercel.json` schedules it daily) and that its steps go on, one invocation at a time,
none of which dies, with a node that answers; a page's own write arrives before its
event is read.  `RowsConverge` needs the repetition in an odd way: a pass applies the
newest event first and so ends on its oldest, which is wrong for the root and the pause
flag; but it also leaves the checkpoint at that oldest slot, so that the next pass
starts one event later, and the last one applies only the newest.  A checkpoint that
never went down (the mutant `Highest`) would freeze the wrong row.  Two fields of the
row are exempt: a cancellation lifts the pause without an event, and a settlement that
is read before older claims is not added to them.

`LiveSpec` of `Service` assumes of each beneficiary that the cache ages, that the server
answers a query (weakly), and that of answers sent again and again one arrives
(strongly, since `FetchFails` may take any of them).  `LiveSpec` of `Creation` assumes
that an open tab begins a pass over the queue again and again, as its interval of 15
seconds does, and that of posts that are tried again and again one is stored (strongly,
since `FlushFailed` may take any of them).  Nothing else is assumed: no transaction need
land, no user need sign.

### Properties worth naming

- `NeverAheadOfSchedule`: for every entitlement, what was *ever* paid against it is at
  most what the public query reports for a leaf that carries it.  It ties the ledger,
  the bitmap, the freeze, and rotations together.
- `EveryClaimCovered`: in a fully funded campaign no order of claims crowds another leaf
  out (neither `InsufficientVault` nor `OverClaim`).
- `TwoPathsAgree`: withdraw subtracts the cumulative sum, claim the per-leaf entry; on a
  stream the two are the same number.
- `NoEarlyClawback`: money goes back before the grace period is over only in a step that
  cancels, after which every leaf has been paid what had vested.  For the instant refund
  this needs `min_cliff_time` to be honest, which the program takes from the caller;
  that is its only hypothesis.
- `OffersMatchProgram`: in every state of a campaign and for every viewer, what is shown
  as possible is possible, what is possible is shown, the amount on a button is the
  amount that arrives, and what lists add up is what is left to pay.  Its parts are
  `ControlsAgree`, `ControlsFit`, `RoutesAgree`, `FiguresAgree`, `ClaimsAgree` and, as
  `ListsAgree`, one for each page.  Each exception is stated in the formula and in 4.
- `PaysWhatIsShown`: the same from the side of the step.  Whoever an instruction was
  accepted from had the button for it, what it pays is what stood on the button or in
  the dialog, and the page's own copy of the tree is right afterwards, although the page
  knows the running sums and not the ledger.  On a stream, whose times the page cuts to
  the minute, the button may say more than is paid, never less, and at most by what vests
  until the minute is over.
- `StopsHold`: nothing leaves a paused campaign but by a cancellation, and that is final.
- `RefinesEscrow`: the abstract promise.
- `RowBehindChain`, `RowsNeverForget`: claims set the row's total to the larger value, a
  settlement adds to it, a page writes it too, and the same event may be read by several
  invocations, twice, newest first, or not at all.  The row still never counts more than
  the account, nor does any list of events or page drawn from it.
- `PassCoversItsRange`: the pass promises what was visible when it began, while the log
  grows at the end it reads from, over page boundaries, and with other invocations
  moving the checkpoint.
- `NonceUsedOnce`, `PromptIsServed`: the nonce is consumed before anything else about
  the header is checked, which makes it good for one request and also lets one bad copy
  spoil it; the second property says of whom the gate still owes an answer.
- `QuotaHolds`: a counter lets through at most its limit per window it has begun,
  whether it lies in Redis, in an instance, or in the instance that replaced that one.
- `NewestIsLive`: from "updated" on every page alone it follows, once nothing is under
  way, that the proofs that are served are those of the live root, if no two rotations
  overlapped; and `ProofsCatchUp`, that then every browser comes to have them.
- `ReportedIsPaid`: "claimed successfully" is shown without asking how the transaction
  ended (`ClaimWithProofButton.tsx:508-525`).  Two accidents are told apart: the leaf was
  paid by a claim of another tab, then the message is true; or a rotation, a pause, a
  refund or a payment to somebody else came between simulation and end, then it may be
  false.  Without the simulation before sending it would be false out of the blue.
- `RowMatchesTree`: the leaves that are stored under an address are those of its tree,
  which no route compares, as long as no native tree was deleted there; and never leaves
  of no tree at all.
- `NothingForgotten`, `UnfundedIsListed`, `ListedIsUnfunded`: wherever a tab is closed,
  a wallet refuses or a transaction expires, a campaign on the chain is in the database
  or in the queue, and without money exactly if it is listed as such.  The ways in which
  the code lets go of one are history variables, so that a new way would be noticed.
- `WrittenIsSent`: the chain gets the amounts that stood in the fields, in the token
  that stood beside them, however files, tokens and modes were changed in between.
- `PagesAgree`, in two parts.  `ProofsAreExact`: the program and the server accept
  exactly the proofs of the leaves of a tree that a page makes, the second
  implementation makes the same tree, and what one of the program, the routes' schemas
  and the importer takes the others do not refuse.  `ReviewTells`: the table, the
  sections, the sidebar and the button of a creation page are put together from the
  file, from what is ready and from the token that is selected, and still name the rows,
  the sum, the span and the number of transactions of the campaign that is made.  The sum
  is one of JavaScript's numbers: a balance one unit above it is enough and one unit below
  it is not, whatever was rounded, as long as that stays below a unit (`RoundOff`); at the
  balance itself only one entry, or a file, is sure to be let through.
- `DialogKeepsItsWord`: a wrap that was let through on true balances goes through, in
  whichever order reads, clicks and lost transactions come; what is called a success
  moved what it says; the list is the wallet's unless the wallet was changed while it
  was read.

## 4. What the code does that its documents deny

| run | sentence | behaviour |
|---|---|---|
| `closed_record` | "closed ClaimRecord cannot be reinitialized" (`tests/sealevel-attacks-gap.spec.ts:487`) | the record is closed, after the grace period or because all it was entitled to was paid, and created again by the next claim, which pays the leaf a second time if the vault has the money |
| `legacy_mixed` | "so a later `claim` on this single-leaf record computes the correct delta" (`P/instructions/withdraw.rs:203`) | withdraw migrates a version 0 record to an empty ledger, and a later claim pays the earlier part again |
| `skip_gap` | "idempotent replay from the last checkpoint. No skip/duplicate gap" (`docs/internal/week9/BUG_LIST.md:117`) | the pass dies after its newest event, whose slot is now the checkpoint; the older events of the pass are never read again |

The following were met while reading and are not runs of their own: they are visible in
the source, and most appear in the models as an exception that a property has to state.

The program and its documents:

- "now < minCliffTime (no beneficiary has vested anything)"
  (`docs/guides/clawback.md:142`) fails when a rotation moves the cliff after a claim;
  "no additional tokens vest during or after grace" (`docs/guides/clawback.md:160`) when
  a milestone is released after the cancellation.
- A native address that is used again starts with `total_claimed` 0 while its claim
  records remember the earlier payments; the funding cap compares the current balance,
  so a campaign refilled after claims takes more than `total_supply` in all (`SupplyCap`
  still bounds what leaves); a rotated root that enlarges a claimed leaf lets
  `claimed_amount` pass `total_entitled`.
- `cancel_stream` is signed by the creator, while
  `docs/reference/accounts-and-state.md:42` names the cancel authority.
  `[id]/page.tsx:541` says that `cancel_stream` does not set `cancelledAt` on chain: it
  does.  `WithdrawUnvestedButton.tsx:147` says that recipients can still claim after the
  sweep: they cannot.
- An empty `cliffTime` of a milestone means "no time gate" to the CSV section
  (`W/lib/campaign/bulk.ts:253`), but a `min_cliff_time` of 0 is refused
  (`P/instructions/create_campaign.rs:69`, `update_root.rs:32`).  A leaf whose start
  lies after its cliff can never be claimed (`P/instructions/claim.rs:85`); milestones
  that are typed in get one when their unlock time is in the past.
- "Re-indexing the same transaction is a safe no-op."
  (`docs/reference/database-schema.md:35`): reading an older rotation again puts its
  root back over the newer one.

The page of a campaign:

- The claim dialogue splits the running sum over the leaves in the order of their index
  (`ClaimWithProofButton.tsx:226`); who claims a later leaf first is shown wrong amounts
  per leaf, though the right total (`InOrder` in `ClaimsAgree`).
- A milestone released before its cliff is paid by the program and locked on the page;
  the release button is hidden after a cancellation; the bit a release sets is written
  as a byte (`[id]/page.tsx:2266`), which is right for milestone 0 only; settling asks
  for both authorities; a sweep is offered with nothing left; the rotate button looks at
  `leaf_count > 1` and is given no pause by this page; settle and sweep routes name the
  SPL vault for native trees too; refund and settle routes lack the check for a fully
  paid tree; the "Grace Period" tab of the refund dialogue offers `cancel_campaign` to a
  creator who is not the cancel authority, and a page that was open before its wallet was
  known shows that dialogue without a body, behind a button that cancels
  (`CancelConfirmDialog.tsx:55`, `:72`).
- The same dialogue is given `vested` of the page's form, which for a campaign of several
  leaves is zero unless the viewer has one (`[id]/page.tsx:807`): it then calls the whole
  supply recoverable, whatever was claimed.  Its figures are checked for streams and for
  refunds.  The badge of a stream's milestone goes by the wall clock: of one that was
  released, cancelled before its cliff and is looked at after it, it says "ready to
  claim" (the program agrees, the button does not).
- "avoids datetime-local second truncation" (`[id]/page.tsx:316`) is said of the seconds
  kept beside the form, and they are what the handlers send; but the amounts on the
  buttons, in the dialogue and on the cards are worked out from the form
  (`datetime.ts:2-6`, `[id]/page.tsx:266-273`, `:797-810`, `:1008-1012`).  So a button may
  be there up to a minute before the program pays, and then is refused or pays less than
  it says; after a settlement the page puts down, and writes to the row, a
  `totalClaimed` that may be ahead by the same (`:1386-1433`); and a stream cancelled in
  the minute before its cliff may be called settled with something sent.  In the hour that
  comes twice when the clocks go back, the form also forgets which of the two it was:
  that is not modelled.
- "Settled, tokens sent to your wallet" is shown also when the settlement paid nothing;
  a viewer without a leaf is shown milestones numbered 0 to `leafCount` - 1 whatever
  their indices are; a link's schedule beats the server's for such a viewer; amounts in
  the settle dialogue leave out the rent of a native tree.
- After a settlement the page's own write of the row and the event that follows add the
  same amount twice (`[id]/page.tsx:1431`, `W/lib/indexer/event-indexer.ts:475`), unless
  the event came first; a late write of a pause or a cancellation stays with the
  browser's clock.  When the node times out (`[id]/page.tsx:476`) the row replaces what
  was shown, so that milestone flags vanish and a pause or a cancellation can be taken
  back.

The lists:

- The portfolio takes the whole running sum off once per leaf; list rows know no
  milestone release flags; `campaigns/page.tsx:369` sums `myClaimed` once per leaf; a
  dashboard row has the status of a campaign's last leaf; `counts.tvl` has none of the
  exclusions of the sum beside it; "Grace Period" and the banner outlive the sweep; a
  card says "Cancelled" of a campaign with something left to claim and "Fully vested" of
  one cancelled part-way; "Unlock reached" cannot appear for a single leaf.
- The row the browser keeps of its own stream knows neither refund nor settlement and
  takes the supply for the leaf's amount; the snapshot it keeps has the `myClaimed` of
  the wallet that read it.
- A settlement that only this browser knows of changes the recipient's row and not the
  sender's (`campaigns/page.tsx:249`), and the row of a stream that was not indexed yet
  does not have it; the dashboard takes the browser's rows only when the routes fail
  (`dashboard/page.tsx:98`), the list always.
- Charts show 0 at the start itself and are exact at their samples only; the simulation
  starts at midnight of the start day; `vesting-progress` counts a settled, unreleased
  milestone as claimed.

Creating and rotating:

- The milestone page keeps the rows of a file that was read for another token (the
  exemption in `WrittenIsSent`); the editor's decimals may come after its table; edits
  are lost or kept by the number of rows alone when leaves are loaded again; clearing
  the first wallet resets the table; "Resume funding" on the card takes the token that
  is selected, and a native funding of a token campaign is accepted by the program and
  lost to its claims (the exemption in `FundedInItsToken`); "Duplicate" makes a 257th
  milestone; of milestones without a start the sidebar shows a span from 1970 on, the
  section of the file beside it the right one; after a token was changed while a file's
  campaign was being made, that campaign is reviewed with the new token's decimals; the
  importer keeps doubled milestones that `prepare` refuses.
- "closing the remaining race window" (`docs/internal/protocol-gaps.md:92`) is said of the
  editor's second look at `total_claimed`; between it and the rotation lie a POST and the
  wallet's dialogue, `update_root` does not look itself, and a first claim may land there.
- "SPL token accounts for connected wallet" (`docs/frontend/architecture.md:161`) is said
  of the token list.  A wallet that disconnects while its tokens are read has the emptied
  list filled again by the answer; after a change to another wallet the list stays the
  former one's until it is refreshed (`WalletTokensProvider.tsx:51`, `crossed` in
  `Wrapping`).
- The sidebar adds amounts as floating-point numbers (`linear/page.tsx:100`,
  `cliff/page.tsx:99`, `milestone/page.tsx:105`) and compares the sum with the balance
  (`FormSummary.tsx:55-63`): entries of 0.1 and 0.2 are 0.30000000000000004 and refused
  to whoever has 0.3.  A file's supply is divided once and compared as the balance is.
  The model takes a number for exact while it is a whole one, so supplies below 2^53 base
  units; the balance is the one the list of tokens shows, which is rounded to four decimals
  for native SOL (`WalletTokensProvider.tsx:82`).
- The address of a native tree that was paid out, or settled, is free again: a page that
  is still open may create another campaign there, with other leaves.  The import finds
  the row of the first (`W/app/api/campaigns/route.ts:83-85`) and keeps it, so the
  database serves the first one's leaves, and the list of unfunded campaigns may have
  lost, or still hold, the first one's entry (`gone` in `Creation`).
- `confirmTransaction` resolves for a failed transaction and its `err` is ignored
  (`masked` in `Creation`; `alone`, `cancelled` and `overtaken` in `Service`): a claim that
  failed on landing, because the campaign was rotated, paused, refunded or emptied, is
  reported as successful.  A transaction that
  lands after the page gave up is queued nowhere; a user who rejects the signature loses
  the queue entry for good; the queue is not filtered by creator; a stale list of
  unfunded campaigns can fund one that was emptied by claims; a lost POST of a rotation
  cannot be repaired, since `update_root` refuses the same root.
- `docs/guides/frontend-integration.md:120`, `docs/frontend/hooks.md:21` and
  `docs/frontend/components.md:472` say of these queues what `useCreateCampaign.ts` does
  not do (a tab closed while the first transaction is being confirmed leaves no entry)
  or name another key; `tests/vesting-native-sol.spec.ts:1117` notes a known issue that
  is gone; no page passes the campaign-level schedule of `README.md:49`.
- `docs/reference/trust-boundaries.md:121` refuses every timestamp in the future, the
  code those more than 60 seconds ahead; `docs/reference/api-endpoints.md:176` calls the
  status route removed and notes that it is still there.  The limiter's key on the
  routes with a header is a prefix of that header, so each fresh header has a counter of
  its own.

## 5. What is proved

TLAPS proves, for every set of leaves, keys, arguments, roots, campaigns, invocations,
instances, wallets, drafts, tabs and visits and every value of the numeric constants
that satisfies the modules' assumptions:

| module | theorems |
|---|---|
| `CampaignProofs` | `VestedBounded` (0 <= vested <= amount), `VestedMonotone` (never falls, across cliff and end), `CancelFreezes`; `TypeCorrect`, `BooksAlwaysMatch`, `SupplyNeverExceeded` (`TypeOK`, `BooksMatchBank`, `SupplyCap`); the action properties `CancellationIsFinal` and `PauseAlwaysHolds`, together `StopsAlwaysHold` (`StopsHold`); `CampaignImplementsEscrow`, that is `Spec => RefinesEscrow` |
| `CampaignLedgerProofs` | `RecordsAlwaysMatch`, `NobodyAhead` (`RecordsMatchPayments`, `NeverAheadOfSchedule`); `RecordsAlwaysMatchBooks`, `PathsAlwaysAgree`, `ClaimsAlwaysCovered` (`RecordsMatchBooks`, `TwoPathsAgree`, `EveryClaimCovered`); the action properties `ClosingLosesNothing` and `NeverClawedBackEarly` (`CloseLosesNothing`, `NoEarlyClawback`); for streams of an earlier release `MigrationAlwaysPaysExactly`, `UpgradeKeepsBooks` (`MigrationPaysExactly`; `TypeOK`, `BooksMatchBank`, `SupplyCap`); for the page `ControlsAlwaysFit` (the part `ControlsFit` of `OffersMatchProgram`), `CurvesAgree`, `ShownIsPaid` (`PaysWhatIsShown`), `FiguresAlwaysAgree`, `MilestoneCardsAgree` (the parts `FiguresAgree` and `MilestonesAgree`) |
| `IndexerProofs` | `IndexerTypes`, `RowsStayBehindChain`, `RowsForgetNothing`, `PassesCoverTheirRange` (`TypeOK`, `RowBehindChain`, `RowsNeverForget`, `PassCoversItsRange`), and for the scheduled pass `NothingIsBehindCheckpoint` (`NothingBehindCheckpoint`) |
| `GateProofs` | `GateTypeCorrect`, `NonceAcceptedOnce`, `HeadersExpire`, `QuotasHold`, `WhoIsPromptIsServed` (`TypeOK`, `NonceUsedOnce`, `HeaderExpires`, `QuotaHolds`, `PromptIsServed`) |
| `ServiceProofs` | `ServiceTypeCorrect`, `VersionsAreNumbered`, `PostsFollowTheChain`, `UpdatedMeansLive`, `ReportsArePaid` (`VersionsInOrder`, `PostedAfterChain`, `NewestIsLive`, `ReportedIsPaid`) |
| `CreationProofs` | `CreationTypeCorrect`, `StoredLeavesAreTheTrees`, `NoCampaignIsForgotten`, `EveryUnfundedIsListed`, `NothingListedTwice` (`RowMatchesTree`, `NothingForgotten`, `UnfundedIsListed`, `ListedIsUnfunded`) |
| `DraftProofs` | `DraftTypes`, `MoneyGoesToItsPool`, `TheWrittenIsSent`, `LeavesCanBePaid` (`TypeOK`, `FundedInItsToken`, `WrittenIsSent`, `EveryLeafCanBePaid`), `PagesAlwaysAgree` (`PagesAgree`), `TreesAreExact` |
| `WrappingProofs` | `WrappingTypes`, `DialogAlwaysKeepsItsWord` (`DialogKeepsItsWord`) |

Assumptions.  `BoundsAssumption`, `LeavesAssumption`, `ArgsAssumption`: constants have
the types of the code (amounts in u64, indices natural); there are finitely many leaves;
a stream's leaf has index 0, which `create_stream` computes.  `AbsenceAssumption` and
those of `ChainLog`, `Indexer`, `Gate`, `Service`, `Creation`, `Allocation`, `Form`,
`Editor` and `Wrapping`: markers of absence are not values of the types they are absent
from, constants have their types, and the clock of a browser is Unix time, more than a
minute after its beginning (a page may set a start a minute back); a number of JavaScript
is near what it stands for; what a wrap may cost
besides its amount is within the margin of 0.003 SOL.  `PowersOfTen` is a fact of
arithmetic that the provers, who know no exponents, have to be told: no power of ten is
zero, and a smaller one divides a larger one.  TLC evaluates all of them in every run of
a module that extends theirs.  One theorem has a hypothesis on the constants besides:
`NothingIsBehindCheckpoint` is about the `Scheduled` pass, that is one campaign, one
invocation that nothing interrupts, one transaction a slot and one event a transaction.
Without any of the three it is false (3, *Indexer*).

*The program.*  The inductive invariant is

    IInv == TypeOK /\ BooksMatchBank /\ SupplyCap /\ CancelledNotPaused

`SupplyCap` is not inductive alone: that a payment leaves `total_claimed` within u64
needs the types, and that a native payment leaves the rent needs `lamports >= Rent`, the
second half of `SupplyCap`.  `BooksMatchBank` needs both: when the last native claim
pays out all lamports, the equation holds only because the balance the guard compared is
the lamports less the rent.  `CancelledNotPaused` is what makes a pause after a
cancellation impossible: every step that cancels lifts the pause, and none pauses a
cancelled campaign.  There is one step lemma per instruction; `PayOutStep`,
`ReturnBalanceStep` and `TreeOnlyStep` carry what several instructions share.

The second inductive invariant is

    LedgerInv == IInv /\ RecordsSound /\ RecordsMatchPayments /\ NeverAheadOfSchedule

Its step has two halves.  *The record tells what was paid*: crediting a leaf changes
what the record says of that entitlement by the amount credited and of no other
(`CreditTells`), and `claim`, `withdraw` and `cancel_stream` all start from a record
that tells it (`LoadedTells`).  *What is due never falls*: the clock, the release flags
and the cancellation only move forward (`Onward`), so by `VestedMonotone` the due amount
of each leaf does not fall (`DueStep`); a payment is the due amount less the ledger
entry.  `RecordsSound` is needed because `withdraw` and `cancel_stream` subtract the
running sum instead: it covers each ledger entry, so they pay at most as much.
`VestedMonotone` holds for every leaf of the type, a cliff after the end included, as
`create_campaign` does not look at leaves.

The third is about totals,

    TotalsInv == LedgerInv /\ NotYet /\ PaidIsBooked /\ RecordsMatchBooks
                           /\ SumsRight /\ Entitled

A sum over a finite set is written as the number of its units (`SumOf` of `Sums` is the
cardinality of the pairs <<x, i>> with i up to f[x]), because the lemmas on cardinality
then do the work of an induction over the set; `SumsAreSums` of `MCCampaign` compares it
with the fold.  Its lemmas are those a payment needs: the sum grows by what
one element grows (`SumAdd`), and as much in all of no less each is the same each
(`SumMonotone`).  `PaidIsBooked` says that `total_claimed` is the sum of what was paid,
`SumsRight` that a record's running sum is what its beneficiary was paid.  Then a
campaign that holds its supply, less what it paid, covers every leaf that is still owed
(`ClaimsAlwaysCovered`), and on a stream the sum `withdraw` subtracts and the entry
`claim` subtracts are one number (`PathsAlwaysAgree`).  `Entitled` is for closing: the
record's `total_entitled` covers what the root promised against everything paid so far,
so a record whose running sum has reached it has no unpaid part of any leaf it was ever
used for (`ClosingLosesNothing`).  That holds while every entitlement of the root is that
of one leaf (`Unambiguous`): the program does not refuse a root that has the same index
twice for one beneficiary, and counts its amounts twice.  `NeverAheadOfSchedule` is
stated, for a root that was never rotated, for the leaves of that root and not for any
leaf at all (`Carriers`), which is what `NeverClawedBackEarly` needs.

*Streams of an earlier release.*  `LegacyInit` of `Campaign` is the state such a release
leaves behind: a stream whose record has layout version 0, the ledger and the bitmap
absent, `claimed_amount` what had vested at some moment, `total_entitled` set or not.
From there the ledger invariant does not hold, as the ledger is empty although something
was paid, so there is an invariant of its own, `OldInv`, with two cases.  While the
record is of version 0, its running sum is what was paid for index 0 and not beyond the
schedule, until the root is rotated, and no other index was paid (`OldRecordsTell`); the
first instruction that loads the record moves the sum into the ledger (`LoadedIsNew`),
from where `claim` subtracts it, while `withdraw` and `cancel_stream` subtract the sum
itself.  Both come to the difference between what has vested and what was paid, which is
`MigrationAlwaysPaysExactly`.  Afterwards only the types, the books and the cap are
asked for.

*The campaign's page.*  What it shows comes from the tree and from one running sum of the
viewer's record; what the program pays comes from the ledger.  `TotalsInv` closes the
gap: no record's sum is larger than `total_claimed` (`ClaimedWithin`), so the larger of
the two, which the page takes on a stream, is `total_claimed` (`TotalSeen`), and of a
stream that was not rotated this is what its only leaf was paid (`SoleTotal`).
`CurvesAgree` compares the two schedules, and `SoonerCurve` a schedule with one that is
less than a minute sooner: it is ahead of it, and by the end of the minute no longer.
With `MinuteFacts` this gives `ShownIsVested`: what the page shows as vested is at least
what the program reports and at most what it will report within the minute.  `TreeSound` adds that a refund took
everything and that nothing comes in after it; for this reason the page loses nothing by
hiding the sweep then.

Of a campaign of many leaves the page has to do with the running sum alone.
`FiguresAlwaysAgree` says when that is enough, in a root as the builder numbers it
(`Orderly`: accepted schedules, no index and no entitlement twice) that was not rotated,
while no record was closed and no milestone was released before its cliff.  The sum is
that of what was paid leaf by leaf (`PanelFacts`: every entitlement that was paid is one
of a leaf of the root, and `SumInto` both ways), and no leaf was paid beyond what it
shows as vested; so what has vested less the sum is what is left, in whichever order the
leaves were paid (`CampaignFigure`).  Split over the leaves in their order, the sum gives
each its own only if they were paid in that order (`SplitInOrder`): then what comes
before a paid leaf is paid in full and takes off exactly its amounts.  Milestones need an
invariant of their own, `WholeMilestones`: within the first root each was paid in full or
not at all, since a settlement finds the running sum of an unpaid one at zero; from it
follows `MilestoneCardsAgree`, where a milestone is of some amount and not the creator's,
to whom the card says something else.  `FoldIsSum` shows that the fold the page's sums
are written with takes one element after the other and comes to `SumOf`.

The refinement maps each instruction to one step of `Escrow` or to a stutter; the
absence of an account, whether it was never created or the runtime has deleted it, maps
to the phase "none".  It uses `IInv` for the cap and the rent.

*The indexer.*  The inductive invariant is

    Inv == TypeOK /\ LogInv /\ FromTheLog /\ RowsInv /\ OwedInv

`LogInv` is about the chain alone: what an event tells stays true of its account, no
claim is told twice, and a campaign is settled once, after its claims, so that the
settlement and any claim together are within the total.  `FromTheLog` says that whatever
is in an invocation's hands, in the tables or written by a page comes from the log.
`RowsInv` puts the row between what is stored and what happened; the part that had to be
found is that a row keeps room for a settlement which is not stored yet, since the code
adds that event to the total where it sets all others.  `OwedInv` says of every event a
pass set out to index that it is written, or still in the transaction in hand, on the
page in hand, or below the cursor (`Pending`); when the pass ends nothing is pending.
For the scheduled pass there is a second one, `CronInv`: a pass works downward
(`Descends`), so what is older than something it has yet to do, and beyond its start, it
has yet to do as well; hence whatever the checkpoint has come down to, everything below
is stored or will be before the pass ends.  Two lemmas about the read side,
`ReadersBehind` and `PageBehind`, carry the row's facts over to lists and pages.  For
these proofs the page of an invocation became a set of signatures of which the newest is
taken (`NextSignature`), where it was a sequence.

*The gate.*  That a nonce is accepted once needs to know where it is: it lies in at most
one place (`OnePlace`), a request past the store has taken it out and no other request
has it, and what was accepted is in none. That a header expires needs every stored
expiry to be at most a lifetime after the message (`Dated`: the nonce is issued before
the message is composed) and a signature to be known for its message (`Signed`).  Redis
and memory are one argument, since `TakeNonce` removes in both.  That quotas hold is a
second invariant, `QInv`, which keeps a tally: of the requests that a counter has let
through, those of its present window are at most its count and at most the limit
(`SharedCounted`, `MemoryCounted`), and the earlier ones at most the limit for each
window since the first of them.  Upstash's windows are aligned to the clock; that of a
bucket begins with a request that was let through, and it is this which keeps two
buckets in a row from overlapping.  That who is prompt is served needs two
facts more: with Redis a nonce stays where it was put, with its expiry, until a request
takes it (`Waiting`), and no message was composed in the future (`Composed`).

*The service.*  `Numbered` says that versions are 1 to the newest, with no two alike; a
second POST that read the same maximum is refused by the unique constraint.  `Placed`
ties a page's step to its transaction and its POST, `OneAtATime` says what "no two
rotations overlapped" means for those in progress, and `LiveOrBehind` that the newest
version is the live root or some rotation that landed is not stored: `NewestIsLive`
follows, since a page says "updated" only of a stored one.  `ClaimsStand` says that a
claim which was simulated and sent still can be paid, unless it was paid elsewhere or
something overtook it: every action that closes the gate, moves the root or takes what
the claim was to be paid from is one of those that mark it (`OvertakeStands`).

*Creation.*  Its four properties are inductive together with what ties a page to its
transaction (`PagesSound`, `TxsSound`), says that a transaction which may still land is
awaited by a page or already let go of (`Awaited`), that a queue holds a draft of
which a tree has stood at its address (`DraftsMatch`), that this is the one that stands
there unless one was deleted (`MadeSound`), and where money may come from
(`MoneyFlows`, `HeardOfLater`).  `NextCases` sorts the actions by what they do to a page, a
transaction and the chain, and the steps of the invariant go by these cases.

*Drafts.*  The inductive invariant follows what was typed in from the field to the
chain and back into the editor's table:

    DraftInv == TypeOK /\ FileRead /\ FileReady /\ FlowSound /\ ChainSound
                       /\ EditorSound /\ FundedInItsToken

`FileRead` and `FileReady` say of the rows of a file that they are what its text becomes
with the decimals of the token it was read for, and passed that page's checks with
them.  `FlowSound` says what a handler captured before it waited: the amounts and times
it will use are those that were shown when it began, whatever was typed meanwhile, and
from `creating` on its rows are those amounts in the mint's units (`WrittenRows`) and can
be paid (`PayableRows`, which `PagesPayable` derives from the checks of each page).
`AsCreated` carries both to the chain, until a rotation; `InItsPool` says which pool may
hold anything.  In the editor `Stands` says that a row that nobody touched shows its leaf
with the decimals the table was filled with, and `MountSound` and `SyncSound` that
neither effect of the component breaks this.  The arithmetic is two lemmas: an amount
that passes the check loses nothing when it is converted (`RawIsExact`), and what is
written out with some decimals and read again with the same is what it was
(`WrittenAndRead`); where the two differ, the table is `late`, and the property says
nothing of it.

For `PagesAgree` there is an invariant beside the first, `TextInv`.  It says that rows
which were read from a file have the times of its text (`TimedRows`), from the field to
the chain; that a file which still is in its field is the one that a handler and a
campaign were made from (`OfText`, `Noted`); and that the fields of the other mode are
untouched then, so that what is shown of either is what was sent.  With it `EntriesShown`,
`FileShown` and `SpanShown` are the three parts of `ReviewTells`.  Sums are functions
over the places of a sequence (`Added`), and what the proofs need of them is that they
follow one another (`SumsUp`): the sum of amounts in another unit is the sum in that
unit (`AddedTimes`).  Of numbers nothing is assumed but that rounding is off by `Slip` at
most and that a number is its own rounding (`NumberAssumption`): every addition of an
amount adds two slips (`RoundedSum`, `TotalRoundsUp`), and a balance one unit away from
the sum is on the right side of it while all of them together are less than a unit
(`Boundary`).

*Trees.*  `TreesAreExact` says of a tree of any number of leaves, with any contents, that
a proof is accepted exactly if it is the one the builder makes for a leaf that is there,
by its index.  The argument goes along the layers.  Layer k of n leaves has as many nodes
as the index of the last leaf, shifted k - 1 times, plus one (`Growth`), so there are as
many layers above the leaves as `max_proof_len_for_leaf_count` says (`ProofLength`).  A
verifier's climb is followed upwards and then back down from the root: at the root both
hashes are one, and since hashing is injective (`ClimbApart`) the nodes below are the
tree's, at the place the index says, and the siblings the builder's (`Followed`).  At the
bottom it is the leaf itself (`SameLeaf`), and its index is one of its fields.  A shorter
proof would end in a node where the leaf's hash has another prefix (`HashesApart`).  The
client library's tree is the same by a translation of hashes (`TreeLayersGrow`,
`OneTree`), and `ProofsAreExact` adds that routes, importer and program accept the same
rows (`RowsAgree`, `AllPrepareAlike`, `ImportsFit`).

Induction.  The library's induction theorems take an operator as a parameter, which the
installed provers cannot instantiate.  That the natural numbers are well-founded is a
fact without one, and from it `Induction` follows, with the *set* of the numbers that
have a property in the place of the property.  Every function here that is defined by
recursion (the folds, `Layers`, `Shifted`, `Verifies`, `Added`, and those of `Client`) is
reasoned about with that lemma.

*Wrapping.*  The inductive invariant is

    WrappingInv == TypeOK /\ OperationSound /\ SuccessSound /\ ListSound

`OperationSound` follows one operation through its awaits: what was true of its balances
when it began still is, and what was simulated still executes (`Pending`), unless
something else moved, which takes `alone` from it (`DisturbedSound`); once it landed it
moved what it says (`Kept`).  `TypeOK` has that no balance becomes negative, whatever
lands late.  `ListSound` needs that a list on its way is that of the connected wallet as
well, which is what a change of the wallet during a read takes away.

Only model-checked: of `OffersMatchProgram` all but `ControlsFit`, `FiguresAgree` and
`MilestonesAgree`, since it speaks of ENABLED, or puts the figures into the many words of
the lists, where the instance says as much; and every liveness property: `EveryLeafPaid`,
`SweepCompletes`, `RowsConverge`, `ProofsCatchUp`, `QueueDrains`.  Liveness under
fairness and ENABLED are out of this prover's reach.  The other theorems about the
program start from `Init`, so from no record of version 0; the run `legacy_mixed` shows
what one of them would be refuted by.

## 6. What is not modelled

- The bytes: account layouts, discriminators, event encoding, hashing, base58, CSV
  characters.
- Token program, associated accounts and their errors, but for those of wrapping; mint
  extensions are refused by the handlers (`get_vested_amount` and the events change no
  state).
- Forks: a confirmed block is taken to stay.  Logs of failed transactions.
- Code that nothing calls: `W/lib/indexer/state-sync.ts`, `RootRotationCard.tsx`,
  `syncClaimEvents`, and `W/lib/sol/auto-wrap.ts`, since the picker never asks for it.
- Of the pages: layout, wording, prices, the search in token lists, the landing and guide
  pages, and the read routes that pass rows on; of a view that has grown stale only what
  is named above.
- Tests, fuzzing targets and scripts, which are read for what they claim.

## 7. What could be added

1. A page that is open for a long time, over `Campaign`: which of its offers go stale,
   and what the program answers to them.
2. Two campaigns, or two events of a slot, behind one checkpoint: how far
   `NothingBehindCheckpoint` can be saved.
3. The slot arrays of `claim_record.rs` as a module that implements the function
   `ledger` of `Campaign`.
