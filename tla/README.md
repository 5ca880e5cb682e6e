# Verification of bcheradip

`bcheradip` is the server of a Bangladeshi education and shopping site: a
Django project (`cheradip`, `ecommerce`, `childcare`, `backend`) with several
MySQL databases and a separate FastAPI service (`ailt_api`) for editor
extensions. This directory holds TLA+ models of the parts whose correctness
depends on the order of events, TLC configurations that check them on small
instances, and TLAPS proofs of what matters most for every instance.

## 1. Inventory

| Component | State | Operations | What is hard |
|---|---|---|---|
| Commerce orders, payments, stock (`ecommerce/views.py`, `order_service.py`, `models.py`) | `Order.status`, `payment_status`, `Payment.status`, `ProductVariant.stock`, `InventoryMovement`, in database `ecommerce` | checkout by wallet, cash on delivery or manual payment; confirm, fail, refund a payment; advance, complete, cancel, return, refund an order | the buyer's coins live in another database (`default`); there is no two-phase commit |
| Main wallet (`cheradip/wallet_service.py`, `ecommerce/referral_coupon.py`) | `Customer.settings['balance']`, `RewardsWallet`, `WalletOperation` with unique keys | deduct, refund, coupon hold, credit, reversal, recharge, withdrawal | several services debit the same customer; once-only keys; two counters that must agree |
| Maintenance (`commerce_maintenance`, `reconcile_commerce_wallets`) | lists read without locks | expire unpaid reservations, settle acknowledged debits, mail receipts | stale lists, crashes |
| Packages and membership (`package_service.py`, `views.py`, `membership.py`) | `PackageSubscription` rows, the account's coins | provision free packages, activate, renew, grace, use the question allowance | lazy renewal on every request, charges through several objects of one account, a clock read before the lock |
| Exam attempts and counts (`exam_attempts.py`, `student_views.py`, `membership.py`) | attempts and counters in `Customer.settings`, `StudentExamRecord`, `MembershipProgress` | start or resume, submit, refresh the badge | two records of one fact, one of which stale forms overwrite |
| Withdrawals and recharges (`package_views.py`, `admin.py`, `views.py`) | `WithdrawalRequest.status`, `TrxManagement.status` | request, cancel, process, approve, reject; activate a recharge | customer and staff act on one row; recharge once |
| Institute refresh and update runs (`institute_refresh.py`, `institute_update_runs.py`) | request rows and runs with leases, cursor, log files | request, claim, work, complete, resume, retry, close, prune | leases that expire under a working worker, deaths between an attempt, the cursor and the log |
| Exam jobs (`exam_jobs.py`) | one JSON file per job | progress, done, error, cancel | read-modify-write without a lock |
| Sourcing jobs of suppliers (`supplier_service.py`, `supplier_browser.py`, `supplier_worker`, `collect_supplier_browser`) | `SupplierJob` rows with checkpoints, the worker lease and the nightly date in `SupplierPolicy` | queue, read live rows, process a row, cancel, launch a browser process, nightly check | network reads between two locks, leases that run out, processes that stop, status saved from a stale object |
| Catalogue sync (`catalog_sync_control.py`) | a request file on each of two hosts, a status file | request, start in the background, poll, run, clear | a request during a run, lost connections |
| Password recovery (`verification_service.py`, `views.py`) | one `VerificationChallenge` per customer and purpose, the account row | store, send, withdraw, verify, save the password | a delivery that fails late, overlapping guesses, a whole-row save |
| Extension billing (`ailt_api`) | team, usage records, credit balance, charges, a guest's device | can-start, record usage, top up, pay, webhook, login merge | values written from stale reads, repeated deliveries, charges from running totals |
| Question bank, exports, tutor, supplier parsers, childcare, database tools, front end | tables and documents | reads, forms, formatting, calls to providers | little state of their own |

### How they interact

A **wallet checkout** (`CheckoutView.post`) opens a transaction in `default`,
locks the customer, checks the balance, runs the whole order placement in a
nested transaction of `ecommerce`, which **commits first**, then deducts the
coins, writes the `commerce:debit` operation, holds the coupon and commits
`default`. An `on_commit` callback then acknowledges the payment in
`ecommerce` (`settle_wallet_order`). A process can die between any two of
these.

A **refund** (`change_order`, `change_payment`) holds the order's row lock in
`ecommerce`; inside it the coupon is reversed and the coins are given back,
each in a transaction of `default` that commits on its own, and only then does
the order commit. A rollback of the outer transaction leaves the inner commits
in place.

A **completion** commits the order and releases the coupon in an `on_commit`
callback. **Maintenance** runs on a schedule and repairs what the callbacks
lost. **Other services** (package renewals, saved question sets) debit the same
customer rows.

**Package renewal** has no job of its own: whatever request looks at the
packages settles each open row in a transaction of its own, or inside the
transaction of the activation or question set that looked. The **institute
worker** takes one refresh request and one batch of a monthly run in turn; staff
work on the same run by request. Batches exclude each other by a lease in the
run's row, and hand failures on through a text file. An **exam job** is a daemon
thread that reports through a JSON file, which a cancellation rewrites. A
**student's exams** are submitted under the account lock, beside pages that
refresh the badge and forms that save the whole account without it.

The **supplier worker** is one loop per process: nightly check (on the
scheduler), poll of the synchronisation requests, then `run_jobs` under a lease
of five minutes. A live job leaves the locks for its network read and is fenced
by the lease's token when it commits. **Browser jobs** have a child process
each, which looks its queued job up by id. The **extension** asks `/can-start`,
talks to its model and then reports to `/usage`; payments come back as webhooks
of the provider.

### What makes each component correct

* Orders: an order says paid only if the coins were taken; it says refunded
  only after they are back; it is never completed once they are back; nothing
  is charged or refunded twice; a debit is acknowledged in the end.
* Wallet: a balance is what the ledger adds up to; the withdrawable share
  never exceeds the coins it is a share of; a refund gives back the share the
  debit consumed.
* Stock: units off the shelf are on live orders; they return once.
* Packages: one charge per period; access until the paid period ends; what the
  combined package includes is not charged besides; a failed charge is retried
  within the grace period only.
* Withdrawals: reserved coins go back at most once and never after approval.
* Refresh queue: bounded; every request is answered, by an answer that was
  fetched for it and stays for its window.
* Update runs: overlapping batches only where a lease ran out; nobody is
  skipped; what failed is tried again.
* Jobs: a job that is over says so in its file.
* Receipts: one mail per order, up to what a lost transaction repeats.
* Exams: every one counts once.
* Sourcing jobs: every row of a reading is processed once and in order; an
  ended job stays ended; a cancellation is obeyed; every job ends.
* Synchronisation: a request that no cycle has met stays on file and is met.
* Recovery: a code is used once, guessed a bounded number of times, and only
  the newest one counts.
* Extension billing: every request is recorded once; credit is what was paid
  for and added less what was spent, at one unit a request; a team that buys
  nothing gets the free quota and its members' bonuses, and one without a bonus
  its quota, its credit and the cap.

The line-by-line list of hazards is `PROJECT.json`, "hazards".

## 2. Modules

| Module | Role |
|---|---|
| `MainWallet` | the `default` half: balances, rewards, once-only operations, as action fragments of one locked transaction each |
| `CommerceOrders` | the `ecommerce` half composed with `MainWallet`: checkout, payments, orders, callbacks, maintenance, crashes; specification, safety and liveness |
| `WalletPromise` | abstract specification: one ledger, what the shop promises about a wallet order |
| `CommercePromise` | the refinement mapping from `CommerceOrders` to `WalletPromise` |
| `CommerceInvariant` | the inductive invariant `ProtocolInv`, and `StagesInv` on top of it |
| `WalletLedger` | what the ledger of the main wallet adds up to, per customer |
| `CommerceAccounts` | the books: sums over orders (`CoinsBooked`, `PendingBooked`, `ReferenceRestored`, `StockBooked`) and the reward of a refunded order (`RewardTakenBack`) |
| `RewardsWallet` | withdrawals and recharges composed with `MainWallet`, with the account, note and receipt forms that save whole rows; the shop takes part as `WalletStep`; inductive invariant `RewardsInv` |
| `RewardsLedger` | the books of `RewardsWallet`: sums over withdrawals and recharges |
| `PackageRenewal` | one account's packages of one family and its coins, under overlapping requests |
| `InstituteRefresh` | the public refresh queue, its callers and workers |
| `InstituteUpdateRun` | one update run, the batches of staff and worker, and `failed.txt` |
| `ExamJobs` | the file of one exam job, its thread and a cancellation |
| `OrderReceipts` | the receipt part of the maintenance job |
| `ExamAttempts` | one student's attempts, results and exam count |
| `SupplierJobs` | sourcing jobs, their workers under one lease, browser collectors, the nightly check |
| `PasswordRecovery` | one customer's recovery code, overlapping requests, the account row |
| `CatalogSync` | run-now requests, background cycles and the polling worker |
| `ExtensionBilling` | what one team owes in one period: usage, quota, bonus, pay-as-you-go, credit, payment events |
| `SumProofs` | lemmas on sums over finite sets and over lists of numbers |
| `MainWalletProofs`, `CommerceProofs`, `CommerceAccountsProofs`, `RewardsWalletProofs`, `PackageRenewalProofs`, `ServiceProofs`, `JobProofs` | theorems and proofs; `CommerceProofs` includes the refinement of `WalletPromise`; `ServiceProofs` is about `InstituteRefresh`, `InstituteUpdateRun`, `ExamJobs`, `OrderReceipts` and `ExamAttempts`, and about all services together; `JobProofs` about `SupplierJobs`, `PasswordRecovery`, `CatalogSync` and `ExtensionBilling`, and these together |
| `MCOrderAlone`, `MCOrdersScarce`, `MCRewards`, `MCBilling`, `MCBackOffice`, `MCServices` | instances for TLC |
| `MCBooks`, `MCOfficeAndRewards` | instances that take several of these in turn |

### Correspondence

* **State.** Each variable is a column or the set of rows of one kind of
  `WalletOperation` (`debited`, `refunds`, `held`, `credited`, `reversed` are
  the orders whose key `commerce:debit:…`, `commerce:refund:…`,
  `referral-coupon-hold:…`, `referral-coupon:…`, `referral-coupon-refund:…`
  exists; the unique column makes a set faithful). `checkout`, `leg`,
  `creditDue`, `crediting` and `listed` are the program counters of requests,
  callbacks and of the reconciliation command. `clawed` is history: the coins
  that the reversal of an order's reward took from the referrer's balance.
* **Actions.** An action is one commit together with everything that happens
  since the previous visible step, or one read without a lock whose result is
  used later. Row locks (`select_for_update`) justify the atomicity: whatever
  runs between taking a lock and committing is one step, unless it holds the
  lock across a commit in the *other* database. Those are split:
  a wallet checkout (`CheckoutWallet`, then `CommitDebit` or `AbortDebit`,
  with the customer row `Locked` in between) and a reversal (`StartReversal`,
  `ReversalLeg`, `RefundLeg`, `CommitReversal`, with `leg[o] # "idle"` holding
  the order lock).
* **Unlocked reads.** `hold_`, `credit_` and `reverse_referral_coupon` read
  each other's operations before they lock anything and write afterwards; the
  read (`CheckHold`, `CheckCredit`, `StartReversal`) and the write
  (`HoldCallback`, `CreditCallback`, `ReversalLeg`) are separate actions.
* **Crashes.** `AbortDebit`, `LoseCallback`, `LoseCredit` and `Rollback` may
  happen whenever the process could die: what one database has committed
  stays, the open transaction of the other rolls back, callbacks are lost.
* **Composition.** `RewardsWallet` does not contain the orders. The shop acts
  in it as `WalletStep`, any one step of `MainWallet` with no row locked. That
  `CommerceOrders` takes no other step on these columns is the property
  `WalletInterface`, checked in `books` and proved as
  `ShopTakesWalletSteps`.
* **Whole-row saves.** Three kinds of form load a row and later write all of
  its columns: account forms (`OpenProfile`, `SaveProfile`: the account is
  loaded at authentication and `save()` has no `update_fields`), the staff note
  of a withdrawal (`OpenNote`, `SaveNote`) and the staff form of a receipt
  (`OpenReceipt`, `SaveReceipt`, whose stale column is posted by the browser).
  `overwritten` and `reopened` are history variables: the rows such a save has
  put back to an older value.
* **Staff actions on many rows** (`approve_withdrawals` and the others) lock all
  selected rows and pass over those in another status. The rows are independent
  of each other, so the model takes them one at a time, which allows more
  interleavings than the code.
* **Repeated calls.** A handler called with the status the record already has
  (`MayBecome`, `ChangePayment` with `new = pay[o][s]`) runs its effects again
  as the code does.
* **Packages.** A visit is a request. One that only looks (`want = Nobody`)
  settles each row in its own transaction, so other visits run between two of
  its rows; an activation or a question set holds the account from
  `TakeAccount` to its end, keeps what it read there in `balance`, and a refusal
  or an `Interrupted` restores `saved`. The row order of the code is kept: the
  newest first, settled one by one, twice in an activation. A coin of a package
  is a charge in `Renewals`, whatever discount the badge gave. The allowance is
  a flag: a package whose last unit is used is `usedUp`. Days are numbers, and
  `at` is the clock a request read when it began.
* **Leases.** A lease is `none`, `held` or `lapsed`; time is the step from held
  to lapsed. It may come under a worker that is still at work, whose late
  completion is then compared with what the others have done since.
  `answer` and `late` in `InstituteRefresh` are history: for which request an
  answer was fetched.
* **Refresh requests.** A call reads the clock (`Arrive`), waits for its row and
  decides (`Pass`), and saves (`Enqueue`); it holds the row from `Pass` on. Its
  `number` is that clock, `requested_at`, which orders the queue. A worker
  reads a list of rows once and then claims from it the oldest that can still
  be claimed, whatever has changed meanwhile. The code lists ten; the model
  lists them all, which matters to no property, for whatever is older than a
  listed row is listed too.
* **Update runs.** One batch is seven steps: acquire and pick, attempt, save the
  cursor, again for each institute, finish, log, give the lease up. It may die
  or fail between any two. `failed.txt` and the attempts are separate, because
  the retry rounds read the one and are meant to cover the other. `calm` is
  history: nothing has died, failed or overlapped so far.
* **Files.** `ExamJobs` follows the file handle of a writer: the temporary file
  it has opened may be filled by the other writer or moved to its final place
  before it writes.
* **Sourcing jobs.** A row of the job table keeps its status, the reading its
  rows come from (`rows`, counted up by each one) and the list `done` of the
  rows its checkpoints have processed, each with its reading; a unit test sees
  only the number `processed`. The steps of `run_jobs` are its transactions and
  what `prepare_live_job` does between them: the access check that also renews
  the lease, the conditional update to running, the read, and the fenced
  commit. A lease that nobody renews lapses (`LapseLease`), under a living
  worker at most `MaxLapses` times. What a row does to the supplier's offers is
  an error or none. Any failure of the connector is the choice `refused`.
* **Recovery.** Codes are numbered in the order they are stored; whether a
  request brings the right code is its own choice. The account is a password
  and a version of everything else, since a full-row save writes both.
  `ExpireCode` is the passing of ten minutes.
* **Synchronisation.** `file` is the set of hosts with a request file. The
  script is outside the repository; the code shows that it writes the status
  file, and its killing is `EndInBackground` with `Fail`. The polling worker's
  cycle, the two removals and a failure between any of them are single steps.
* **Billing.** A call of the API keeps in `read` the rows it has loaded and
  writes values computed from them, column by column, where they differ
  (`Written`), as the object mapper does; a usage row that was not found is
  added besides one added meanwhile. Nothing serialises the calls. `lost` is
  history: the members in whose rows, and the purse in which, a call has written
  over a value it had not read; `made`, `merged` and `topped` count the requests
  that were recorded, the guest requests that logins attached and the credit
  that was paid for. `spend_credit` commits by itself, so the
  amount due is a later step. One line or ten lines cost what a request costs
  in tenths, so requests stand for both; one unit is two cents. `paid` stands
  for every paid plan. Notices of the provider are delivered once per event, in
  any order, and each payment is reported as `transaction.paid` and as
  `transaction.completed`, which `parse_webhook` treats alike.
* **Data.** Amounts are naturals in coins; one taka is 100 coins and the taka
  columns are hundredths, so both sides share a unit. Items are variants with
  an ordered quantity over all lines and the quantity of one line. Names,
  addresses, messages, prices of lines and delivery are abstracted into
  `Price`.

## 3. Checks

| Run | Instance | Shows |
|---|---|---|
| `order_alone` | one order of `ann`, any of three payment methods, one manual payment slot, coupon of `bob`, one coin of other spending | `TypeOK`, `PaidHasDebit`, `RefundBacked`, `VerifiedBalanceHolds`, `RewardEarned`, `NoCompletionAfterRefund`, refinement `KeepsPromise`, liveness `DebitAcknowledged`, `ReservationEnds` |
| `books` | three scenes: a wallet order of `ann` and an order of `bob` with `ann`'s coupon; two orders for three units of an item of which each wants two, with a backorder item and an uncounted one; a team of two members with two calls that overlap | shop: `WithdrawableBacked`, `CoinsBooked`, `ReferenceRestored`, `StockBooked`, `WalletInterface`; team: `AccountsAgree`, `UsageCovered` |
| `refund_acknowledged` | as `order_alone`; violated | an interrupted refund of an order that says paid is never reconciled |
| `pending_booked` | as `order_alone`; violated | a hold callback that runs after the cancellation, which found nothing to reverse, leaves the reward pending |
| `reward_taken_back` | as `order_alone`; violated | a credit that checked before the reversal and wrote after it leaves the referrer the reward of a refunded order |
| `split_lines` | as the second scene of `books`, with two lines of one variant; violated | only one line's units return to stock |
| `services` | six scenes that share neither state nor steps, one per service | packages: `ChargedInTurn`, `TracksSeparate`, `NotOvercharged`, `PaidPeriodKept`; refresh: `BacklogBounded`, `AnswerFresh`; update run: `BatchesBounded`, `RunCovers`; exam job: `JobEndsTerminal`; receipts: `ReceiptOnce`; exams: `ExamsCountedOnce`; refresh and receipts: liveness `ServicesProgress`; all: `ServicesTypeOK` |
| `reservation_held` | the accounts of `office_and_rewards`; violated | an account form that was loaded before a withdrawal request puts the reserved coins back |
| `released_once` | the same; violated | a note saved over a cancelled withdrawal reopens it |
| `office_and_rewards` | four scenes: sourcing jobs, recovery, synchronisation; and accounts, where `ann` orders with `bob`'s coupon and `bob` has one withdrawal with its note form, an account form and two receipt rows of one payment | sourcing: `EveryRowOnce`, `StatusesKept`; recovery: `CodesEarned`; synchronisation: `UnmetOnFile`; sourcing and synchronisation: liveness `OfficeProgress`; these three: `OfficeTypeOK`; accounts: `RewardsTypeOK`, `BackedWhereKept`, `CreditedOnce`, `RewardsBooked`, `EarningsOnce` |
| `always_records` | two members, two calls; violated | of two calls that record usage of one member together, one is not in the usage |
| `prepaid_kept` | the same; violated | a purchase of credit is granted for each report of its payment |

Properties that are conjunctions keep their parts as named definitions
(`ChargedInTurn` is `OneSuccessor` and `GraceBounded`; `TracksSeparate` is
`CoveredNotRenewed` and `OneOpenPerTrack`; `RunCovers` is `CompleteCovers` and
`FailedRetried`; `ServicesProgress` is `EveryRequestAnswered` and
`EveryReceiptSettled`; `OfficeProgress` is `EveryWorkerJobEnds` and
`UnmetServed`).

**Bounds.** One order reaches every state of the order and payment machines
and every interleaving of its own requests, callbacks and maintenance; orders
interact only through a customer's coins and through stock, which is what the
two-order runs are for. `ManualSlots` bounds the manual payments (one is
enough to reach paid and refunded on both paths), `SpendLimit` and
`SpendAmounts` the other services (one coin makes the balance too small),
`Fulfilment` the intermediate statuses (all of them in `order_alone`; two
where only the interaction matters). Initial balances are chosen so that a
wallet order can be afforded only while nothing else is spent.
In the accounts of `office_and_rewards` one withdrawal meets every decision
twice, because the note form may reopen it once (`NoteLimit`); two receipt rows are what a duplicate needs,
with different amounts so that the wrong row shows. The constraint `Focus`
keeps the shop and the recharges apart, which share only a balance to which a
recharge adds; each of them meets the withdrawals and all forms. In `books` the
orders that share coins are not shipped, and those that compete for stock have no
coupon. Its third scene has a quota of one request, free and paid, a block at an
uncovered overage of one unit, top-ups of one, two purchases and two requests of
each member, which two calls can record in any overlap; `BillingBound` keeps
the bonus and the guest's device away from purchases, and a second purchase away
from the events of the first before some call handles them, for size; the proofs
have no bound. Members and calls are symmetric; the run has no liveness property.

`services` chooses its scene in the initial state; its steps change that scene
only, so it is six independent searches. Packages: two requests, a free plan,
two paid plans of one track (to go up and down between) and the combined plan,
four days, a period, a grace period and a retry interval of one day each, four
rows, and coins for two charges with one recharge. `PackagesBound` leaves out
what adds only size: the higher plan beside the combined one or beside a second
request, charging requests after the second day, two packages used up. Visits
are interchangeable, and `FirstComesFirst` lets `v1` come first. Refresh: four
institutes for a limit of two, which is the least that two callers together can
exceed; two workers, one death. Three calls in all, or four for four institutes
of which none has been answered yet; `RefreshBound` lets the
second worker, deaths and late answers meet only where no other institute is
asked for, since the rows of two institutes meet only in the count and in the
order of the queue. Update run: two institutes in batches of one, so that a pass
and a round need two batches each; two rounds of the three; a worker and a
member of staff; one lapse. Receipts: one order, two jobs, two of the five
attempts, one loss. Exams: two sets, one active attempt, so that starting the
second set drops the first; one older result and a count beyond it.

`office_and_rewards` chooses its scene like `services`. Sourcing: the jobs of a
supplier come one after the other, so two jobs of one supplier show what a
first one leaves to a second; two rows are the least that has an order; two
workers, one of them the scheduler, are what a lease is for. `SupplierBound`
lets either one process stop or one lease run out, and a second job follow only
a first one of at most one row. One night. `MaxJobs` would stop the nightly
check too, so `IsNext` keeps an id for it. Recovery: two requests for a code,
two with a code, two codes, so that each can be late for the other; two wrong
guesses instead of five. Synchronisation: three requests, so that one can be
made before, one during and one after a cycle; two failures.

**Fairness** (`FairSpec`). A transaction that is open ends, one way or the
other (weak fairness on `CommitDebit \/ AbortDebit` and on `RequestEnds`):
the database times out or the process goes on. The maintenance commands are
scheduled, so what they find is tried again and again, row locks are granted
in the order of request, and not every attempt dies (strong fairness on
expiry, settlement, reversal and its commit). Callbacks are *not* assumed to
run. Deadlock checking is off in these runs: with every order settled and no
maintenance due, nothing has to happen.

`RefreshFairness`: the worker loop never ends (`run_worker_loop` catches every
exception and is restarted with the server), so some worker takes its next step
if there is one again and again; the fairness is strong because a caller may
hold the row the worker waits for, for a moment and over and over. It is on the
workers together: one of them may be dead for good. Transactions of callers end,
and a lease nobody works under runs out (weak fairness). Nothing is assumed of
callers, deaths or leases of living workers. `ReceiptFairness`: the job is
scheduled, so a receipt that is due is taken, mailed and committed in the end
(weak fairness on the jobs together); losses are bounded, and after the last
attempt the order is settled with a notice.

`SupplierFairness`: a worker process loops forever and one that ended is
started again, so it takes its next step (weak fairness per process); a
collector goes on; a lease that nobody works under runs out. Stops are bounded.
Staff, nights and the lapse of a living worker's lease are free. `MCBackOffice`
asks for these steps in their own scene only (`SceneFairness`), where they can
be taken.
`SyncFairness`: the worker's loop polls every twenty seconds (weak fairness);
background cycles need not end. Deadlock checking is off in these runs as well:
the bounds run out with every job ended.

## 4. Findings

These statements of the repository do not hold of the code; each has a run
that shows it (`PROJECT.json`, "findings"): `RefundAcknowledged`; for orders with
one variant on several lines `StockBooked`; because forms save whole rows
`ReservationHeld` and `ReleasedOnce`; and these.

* `PendingBooked`, `RewardTakenBack`. The three coupon functions read each
  other's operations before they lock anything and write afterwards. A hold that
  commits after the cancellation finds no reversal, because the cancellation,
  finding no hold, recorded none; one that resumes after the credit makes a
  released reward pending again. A credit that resumes after a reversal which
  saw only the hold pays the reward of a refunded order, and the recorded
  reversal keeps any later request from taking it back. The coins still add up
  (`CoinsBooked` has the claw-back as what it took); they are with a referrer
  who did not earn them. `RewardTakenBack` leaves out orders whose callback is still to
  run, and referrers who may have spent the reward: the code stops at zero then.
* `AlwaysRecords`. Two calls of `/usage` for one member count from the same
  value (`team_billing.py:250`), and a request is lost; a login with a guest's
  device (`guest_billing.py:93`) loses one in the same way. `AccountsAgree` says
  what remains: nothing is counted twice, and nothing is lost except where a
  call wrote over a row it had not seen.
* `PrepaidKept`. A top-up is granted for `transaction.paid` and again for
  `transaction.completed` (`subscription.py:452`), which is its first conjunct and
  what the run shows. The second fails as well, which TLC shows for that
  conjunct alone with a top-up of three, a subscription and one call: each record
  beyond the quota spends the overage of the whole period from the credit again
  (`team_billing.py:290`), so four requests beyond it cost six units.

What else the models of the services show. Some of it is a condition in a
property; the rest is behaviour of the actions that the properties leave room
for, and reading the named lines beside the action is enough to see it.

* Packages. `NotOvercharged` is an inequality. An activation (and a question
  set) writes the wallet back from the account object it locked
  (`package_service.py:302`), after `current_subscription` may have charged a
  renewal of another track through another object: that charge is lost, though
  the renewed period stays.
* Update runs. `FailedRetried` needs `calm`. A batch that dies after it has
  recorded a failure and completed the pass, and before it has appended to
  `failed.txt`, leaves a failure that no round tries:
  `institute_refresh.py:159-162` reads the file, finds nothing and closes the
  rounds, without the lease and without rebuilding the file from the attempts.
  The manual (`templates/admin/operations_manual.html:124`) says that the run
  resumes after restarts and retries each remaining failure.
* Refresh queue. A new row is `queued` before the backlog is counted, so it
  counts itself and the queue takes one new institute fewer than the limit;
  callers that count together exceed it (`BacklogBounded` says by how many). A
  worker that has lost its lease completes the claim of another
  (`institute_refresh.py:104` asks for the status only); `AnswerFresh` excepts
  such late answers, and the work of the other is dropped. The clock is read
  before the row is locked (`institute_refresh.py:57`), so a request may be
  saved with a time that is older than rows a worker has listed already, and
  these are claimed first; `FewOvertaken` says that no more requests are passed
  over than there are callers at once.
* Update run lease. A late batch clears the lease of the one that followed it
  (line 244), so one expiry lets a third batch in; `BatchesBounded` counts them.
* Exam jobs. The end of the thread overwrites a cancellation (`done` after
  `cancelled` is possible and `JobEndsTerminal` allows it); the two writers
  share one `.tmp` file, and where they have it open together the job file may
  stay `running` or be unreadable.
* Packages. `TracksSeparate` needs `~overtaken`: an
  activation whose clock is older than a row created while it waited for the
  account does not see that row and opens a second one.
* Exams. An account form that saves older settings takes the lifetime counter
  back. Where older results are counted only there, exams disappear from the
  total of the next submission; the badge keeps its maximum.
* Sourcing jobs. A browser job that is cancelled while queued has nobody to end
  it: its process looks for a queued job (`collect_supplier_browser.py:86`), and
  the supplier stays busy. A cancellation between lines 86 and 89 is overwritten
  by `running`, which is what `StatusesKept` excepts. With a live supplier that
  has no credentials `queue_job` raises inside `nightly`
  (`supplier_service.py:602`): the nightly date is rolled back, and the worker
  ends before `run_jobs`, at each start again, so `EveryWorkerJobEnds` holds
  only where `Live` is within `Credentials`, as in the run.
* Recovery. A delivery that fails late deletes whichever challenge is stored by
  then (`verification_service.py:246`), also that of a newer code that has
  arrived. `customer.save()` (`views.py:8302`) writes back the account as it was
  before the code was checked; an email, coins or settings saved in between are
  replaced.
* Synchronisation. `UnmetOnFile` is about requests made while the worker runs
  no cycle: one made during a cycle is removed by the clean-up after it
  (`catalog_sync_control.py:148`), and no cycle starts for it.
* Extension billing. `merged` counts what logins attached, for each login
  with a device attaches its whole usage again (`guest_billing.py:93`); the
  repository does not say that it must not. A team that has paid its overage stays
  blocked, since `can_start_new_request` does not read `payg_due_usd`. A
  bonus request is not counted in the bonus when pay-as-you-go is on at the
  time it is recorded, and pay-as-you-go may be off again before the next one
  starts: a team that has claimed a bonus and then buys a subscription can
  go on like that, which is why `UsageCovered` is about teams that buy nothing
  and about teams without a bonus. Its `Together` is
  the gap between `/can-start` and `/usage`: calls that are let in at the last
  unit are all made. The
  session does not flush before it queries (`ext_database.py:20`), so
  `quotaJustExceeded` (line 262) is computed from the sums before the request
  and misses the one that crosses the quota.

## 5. Proofs

For every number of customers, orders, payment slots, variants, and every
price, reward and balance, under `ReferrerAssumption`, `AmountAssumption`,
`StockAssumption` and `MethodAssumption`:

* `Invariance`: `Spec => []ProtocolInv`. The safety properties are not
  inductive: they do not know of a refund that has committed in `default` only,
  nor of an open checkout. `ProtocolInv` adds what the request in progress has
  done (`LegInv`: a leg that says repaid has its refund; a leg runs only on
  orders that are not completed), where the ledger stands during a checkout
  (`LedgerInv`: no debit while placing) and what a status implies
  (`StatusInv`). One lemma per action group shows that it is kept; the wallet's
  part (`WalletInv`) is proved once per fragment in `MainWalletProofs`, where
  the key fact is that a debit never uses more of the withdrawable share than
  it takes coins.
* `Typing`, `BackedAlways`, `PaidAlwaysHasDebit`, `RefundAlwaysBacked`: the
  corresponding invariants, as consequences.
* `PromiseKept`: `Spec => KeepsPromise`. Every step of the two-database system
  maps to a step of `WalletPromise` or leaves it alone.
* `NeverCompletedAfterRefund`: the action property, from the same invariant.
* `ShopTakesWalletSteps`: `Spec => [][WalletStep]_walletVars`. `LegInv` knows
  that a reversal in progress has seen a coupon operation that exists.
* `RewardsInvariance`: `RewardsSpec => []RewardsInv`, under
  `WithdrawalAssumption` and `ReceiptAssumption` besides. The invariant joins
  the types, the wallet's invariant for the accounts whose balance no form has
  put back (`WalletSound(Kept)`, by the same lemmas of `MainWalletProofs`, which
  are stated for any set of accounts), and the receipts: an identity is a row
  that carries its id, and every recharge is the canonical row's.
  `BackedUnlessPutBack`, `NeverCreditedTwice` and `RewardsTyping` follow.
* `PackageRenewalProofs`: `RenewedInTurn`, `NeverOvercharged`, `PaidPeriodsKept`,
  for any plans, tracks, ranks, prices, charges, periods and numbers of requests. The inductive `PackInv` joins the clocks (no request and
  no row is ahead of the clock), what holds of each row and of its successor
  (`RowsOK`), the same of the copy that a rollback would restore, and, for the
  request that holds the account, that the balance it has read is at least what
  the wallet holds now (`HeldOK`). The last is why a lost charge never turns
  into a charge too much.
* `ServiceProofs`, the refresh queue: `BacklogBound`, `AnswersFresh`,
  `AnswersKept` (no answer is replaced within its window), `FewAreOvertaken`
  (the queue is served nearly in order). The bound rests on an invariant that
  adds the callers which have passed the check to the backlog; freshness on the
  number of the request under which a worker claimed, which only a lapsed lease
  lets fall behind. `ListsSound` says of every row in a worker's list that the
  older requests the list lacks, and the calls under way with an older clock,
  are together at most as many as the callers: a list is complete when it is
  read, and later such a request takes the place of the call it came from.
  `FewOvertaken` and `AnswerKept` are in no run's configuration.
* `ServiceProofs`, the update run: `BatchesBound`, `AllCovered`.
  `RunInv` counts the batches against the lapses and places the cursor of each
  batch behind tried institutes. `CalmInv` says, for runs without incident,
  which failures are in the file, which are still in the hands of the one
  batch, and how often those behind the retry cursor have been tried.
* `ServiceProofs`, the others: `JobEnds` (who holds which file), `ReceiptsOnce`
  (a mail accepted and not yet committed is counted), `ExamsCounted` (settings
  in force or in a form count at most the exams taken; a new result is in none
  of the rows, so the rows grow by one with it).

  `ServicesTyping` takes the services that `MCServices` runs together: a step
  is a step or a stutter of each (`ServicesStep`). The types follow from the
  invariants above and, for the attempts, from `AttemptsTyped`: the settings in
  force and in a form hold distinct attempts that were issued, at most
  `MaxActive` of them. `LatestFew` is why: what `Latest` keeps has fewer than
  `MaxActive` later ones in the set, and the oldest kept has all the others
  after it.
* `JobProofs`: `RowsOnce`, `StatusesAreKept`: `SupplierInv` says that the
  checkpoints of a job are the rows of its present reading in order, that a job
  whose rows are not all processed is not completed, and that a worker or a
  collector in a step holds a job of the kind and in a status that the step
  expects. No mutual exclusion of workers is needed: the fence and the row lock
  make a checkpoint one step. `CodesAreEarned`, `CurrentAccepted`: an attempt
  is counted in the one challenge there is, which carries the newest code
  (`CodesInv`), and the requests that have verified a code and not yet saved are
  counted besides the changes of the password (`EarnedInv`).
  `UnmetRequestsKept`: nothing unmet is left once a cycle of the worker has
  started.

  `AccountsAlwaysAgree`, `UsageAlwaysCovered`, `BillingTyping` are about
  `ExtensionBilling`, for any number of overlapping calls. A call that has read a
  usage row may be overtaken by others, so `AgreeInv` says of each such call how
  far the row it will write can be behind (`Behind`): what it read and the
  usage in the other rows of the member are at most what was made and attached.
  `AllCounted` is the exact account of the members in whose rows nothing was
  lost, `CreditLeft` of the purse. One lemma shows for all
  writers of a usage row that counting keeps these (`CountingAgrees`).
  `FreeInv` and `PaidInv` count the calls that are let in and not yet recorded
  with the requests made. Of a team that has bought nothing, these requests and
  the calls that will take no bonus come to at most the quota, `Together` and the
  bonuses taken, and a member's calls with the bonus taken to at most the quota
  and `Together`; no bonus is taken while the usage is below the quota. Of a
  team without a bonus, requests and calls come to at most the limit.
  `BillingTyping`: a credit is never written below zero, since a call spends at
  most the credit it has read (`SpendFits`), and an event adds to one. The types
  (`BillingTypeOK`) are proved only; the run checks what depends on them.

  `OfficeTyping` takes the three components that `MCBackOffice` runs together: a
  step of the office is a step or a stutter of each (`OfficeStep`).

The books are sums over orders, withdrawals, recharges and usage rows. No
induction theorem can be applied to a sum here; `SumProofs` proves what is
needed (a sum with one element more, less or changed; bounds; equality where
two functions agree) from the smallest set for which it would fail, which
exists because the subsets of a finite set are well-founded.

* `CoinsAlwaysBooked`, `ReferenceAlwaysRestored`: each action fragment of
  `MainWallet` changes the balance and the ledger's sums by the same amount
  (`BooksMove` and the lemmas after it). A claw-back that stops at zero is booked
  as what it took, which is at most the reward, and nothing for a hold.
* `VerifiedBalanceAlwaysHolds`, `RewardAlwaysEarned`: from `StagesInv`, which
  says in which statuses an order can be while its coupon is being reversed,
  once its stock is back and once its reward is due (`StageInv`), and that the
  one order a customer is placing has its price in the balance (`PlacingInv`):
  its checkout holds the lock of the account.
* `StockAlwaysBooked`, under `WholeLines`: every variant of an order is on one
  line. Without it the code does not keep the books (`split_lines`, section 4).
  What left the shelf is the sum over the live orders, and an order stops
  being live once.
* `EveryCoinBooked`, `EarningsCountOnce`: the same for `RewardsWallet`, where
  the shop is any `WalletStep`. The invariant counts each account whose rows no
  form has put back by itself, with the withdrawals by status and the receipts
  that were activated.
* `TracksStaySeparate`: `TracksInv` adds to `PackInv` that no active row has a failed
  attempt and no free row renews itself (`Untried`), both of the rows and of the
  copy for a rollback, and that the rows which the request that holds the
  account has listed and settled give access or are closed (`SettledUpTo`): the
  row it inserts therefore meets no other open one. A track has one Free plan,
  found by its unique code (`FreePlanAssumption`).

Assumptions are those the modules state (`PlanAssumption`, `QueueAssumption`,
`RunAssumption` and the others): positive periods and limits, finite sets where
something is counted, and relations between constants of the code, such as a
paid quota that is not below the free one (`BillingAssumption`). TLC evaluates
them in every run. `WholeLines` is a hypothesis of its theorem.

Only model-checked: liveness (`DebitAcknowledged`, `ReservationEnds`,
`ServicesProgress`, `OfficeProgress`), since fairness and `ENABLED` are beyond
the prover. Every other property of a run that passes is the statement of a
theorem.

## 6. Not modelled, and why

* In the modelled components: shipments and their tracking (they call
  `change_order`), the staff stock adjustment
  (`AdminInventoryView`), form validation of items, prices and addresses.
  In `RewardsWallet`: staff editing the transaction id or the amount of a
  receipt (data entry), withdrawals from before the reservation of coins
  (`approve_withdrawals` passes over them), the amount and currency checks of a
  recharge, which every row of the model passes.
* In `PackageRenewal`: the commission of a referrer (`_credit_referrer`, coins
  of another account), warnings, the discount rules, the other audience (the
  families are independent), and packages without an end. A plan is not changed
  by staff during the run. In `InstituteUpdateRun`: `completed.txt`, which is
  written like `failed.txt` and never read back; the start of a new run and the
  choice of the month; a second worker process, which the lease treats like
  staff. In `InstituteRefresh`: what the crawl writes to the institute. In
  `ExamJobs`: the job's own work and the removal of old files. In
  `ExamAttempts`: grading, the activity page, the badge rules and the teacher's
  count; attempts from before questions were frozen, which are refused.
* In `SupplierJobs`: what a row does to offers and drafts, the parsers, bulk
  catalogue imports that start a job of their own, recollection runs, the clean-up
  of logs, and collectors that resume at a checkpoint by command.
* In `PasswordRecovery`: codes of other purposes (the same functions, another
  row), sessions, sign-in and throttles. In `CatalogSync`: the script itself,
  which is not in the repository, bundles and reports.
* In `ExtensionBilling`: line edits, reminders of a business plan, invitations
  and seats, the other provider, credit granted by an administrator, referral
  earnings, the change of the period and the change between paid plans.
* The other components of the inventory: see the notes of `PROJECT.json`,
  "components". Listings, exports, provider calls and forms have no protocol
  to check.

## 7. Plan

1. `CommerceOrders` and `MainWallet` with their promise and proofs. *Done.*
2. `RewardsWallet` with its books and proofs. *Done.*
3. `PackageRenewal`: activation, lazy renewal, grace, combined tracks. *Done*,
   with its properties proved; the referrer's commission is open.
4. `InstituteRefresh` and `InstituteUpdateRun`: leases, completion, cursor and
   logs. *Done.* Mutual exclusion does not hold of the code, since a late batch
   gives up the lease of another; the bound that does hold is proved.
5. `ExamJobs`, `OrderReceipts`, `ExamAttempts`. *Done.*
6. `SupplierJobs`, `PasswordRecovery`, `CatalogSync`, `ExtensionBilling`.
   *Done*; their safety is proved.
7. Open: a composition of `PackageRenewal` with `MainWallet`, in which the
   balance that an activation writes back also covers checkouts and
   withdrawals of the same account; the recollection runs of suppliers.
