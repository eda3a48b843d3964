# Verification of the BJUT campus-network login helper

TLA+ models, TLC runs and TLAPS proofs for the program in this repository: a
Tauri application (Rust core in `src-tauri/src`, TypeScript window in `src`)
that watches the network, logs the device in at the campus gateway, reads the
billing system and recharges network accounts. Paths below are relative to the
repository root; `lib.rs`, `campus_commands.rs` and the like are in
`src-tauri/src`.

Contents: 1 the system; 2 the modules; 3 granularity; 4 runs and bounds;
5 fairness; 6 what is proved; 7 what is only model-checked; 8 findings;
9 what is not modelled; 10 plan.

## 1. The system

The Rust core is one process with a multi-threaded tokio runtime. Synchronous
Tauri commands run on the main thread one after another; asynchronous commands,
check tasks and the one-second loop run on the runtime and interleave at every
`await` and around every mutex. The window calls commands over IPC and receives
events. State shared by the tasks is in `AppState`; what must survive a restart
is in the configuration, written to secure storage and to a public file.

| Component | State | Operations | Interacts with | Hard behaviour | What makes it correct |
|---|---|---|---|---|---|
| Manual login and its cancellation (`login_progress.rs`, `manual_login` in `lib.rs`, `src/login-progress-view.ts`, `src/main.ts`) | the slot of the current operation: id, submitted, cancelled, active | start, cancel, check, phase, submitting, finish | two independent IPC calls of the window; the gateway | a cancel before, during or after the login it names, or after another login took the slot | an accepted cancel is final; a request that went out is reported; the call returns |
| Network checks and login coordination (`lib.rs` 4337-5805, 6616-6890, 7656-7950, 8181-8233) | `is_checking`, `pending_full_check`, `manual_login_in_progress`, two generations, `network_change_waiting`, `login_request_lock`, `last_network_state`, suspension | trigger a check, network change and its ready task, automatic login over the accounts, manual login, tray login, logout, countdown, wake | probe pool, gateway, account health, configuration | checks overtaken by logins and by network changes; flags cleared on many early returns | one check at a time; requests of checks and manual logins never overlap; an overtaken check sends nothing; what is shown becomes true |
| Campus-card recharge (`campus_commands.rs`, `recharge_state.rs`, the recharge dialogs of `src/main.ts`) | the recharge journal in memory and in secure storage, the orders and the transfer that wait for confirmation, `campus_service_lock`, what the window offers to continue | prepare / confirm / cancel of Alipay, WeChat and transfers, payment check, recovery at start, expiry, archive | payment provider, school, configuration store | killed between submission and answer; timeouts; storage failures; two copies of the journal under way | the money of a payment is moved once; what was submitted is on record; nothing is closed as completed without its money |
| Configuration store (`lib.rs` 4079-4244, 5413-5487, 6042-6169, `config_model.rs`) | configuration in memory, secure storage, the entry of older Windows versions, public file | load and migrate, save settings, trust decisions, password change, router profile, session and journal records | every other component | writers that read, store and publish the same record; a crash between the two stores; unreadable storage | no password is lost |
| Shared probe runs (`connectivity.rs`), dual-stack probe (`dual_stack.rs`, `probe_transport.rs`) | the current run and its observers; requests of both families over targets, name servers and addresses | begin or join, update, invalidate, finish; resolve, connect, time out | checks, network changes, manual login | late results of a replaced run; parallel attempts that end in any order | what is accepted is fresh and of its own network; the first success decides |
| Check progress (`network_progress.rs`) | identity and generation of the progress run | begin, update, hand off, finish | checks, ready tasks, window | an older check begins after a newer one; a hand-off is overtaken | the display comes to an end |
| Adaptive schedule (`network_schedule.rs`, the loop in `lib.rs`) | streak of like observations, plan | observe, reset, skip | the loop, checks, network changes | a plan of the streak before | the plan follows from the last streak |
| Account health (`account_policy.rs`, `lib.rs` 3391-3491) | failures, kind and cooldown by account; a file | record a failure or success, reset, load, write back | automatic login, the Android service | two processes with a copy each; growing waits | a refused password waits |
| Portal login (`portal_auth.rs`, `lib.rs` 2166-2622, 4900-5300) | the probes of a detection, the accounts to be tried | probe, select, submit, conclude | gateway, account health | a faster answer of a less likely gateway; lost answers | the likeliest gateway decides; one login per check |
| Update download (`lib.rs` 1664-1708, 2964-3100) | three flags and the partial file | begin, pause, resume, stop, verify | window, server | a stop written after its download ended | a stop ends the download it was meant for |
| Billing sessions (`billing.rs` 206-260, `billing_commands.rs`, `lib.rs` 7917-7956) | session pool, fetch lock, background timer | borrow, give back, remove, stop, expire | billing pages, device usage, WebVPN | a pooled session after a change of the password or a write; a timer of an earlier stay | a session is used only with its own credentials; a stopped write was not sent |
| Billing pages (`billing.rs`, `billing_records.rs`, `billing_center.rs`, `billing/transport.rs`) | one call | actions, records over windows and pages, overview under limits | the school's system, changed elsewhere too | rows added during a query; an unreadable answer; limits that add up | what is told is what the pages said |
| WebVPN login, image captcha (`billing/webvpn.rs`, `captcha.rs`) | session, pending challenge, stamps of its messages | begin, answer, resend, clear | window, identity server | an answer to a challenge that was replaced; the user's time | the user's time is free |
| Device usage (`device_usage.rs`, `usage_history.rs`, `src/device-usage-model.ts`) | sampling round, baselines, rows | sample, pause, interrupt, query | billing, configuration, network state | samples of an old password; falling counters; restarts | nothing is counted twice |
| Month-end check (`month_end.rs`, `lib.rs` 7040-7200) | stamp in memory and in a file | attempt, put off, finish | billing, payments, network changes | a restart between attempt and stamp | the school is asked again only after the wait |
| Account discovery (`lib.rs` 7280-7440) | the offer that is pending | discover, offer, accept, reject | portal, billing, configuration | late, repeated or crossing answers | only what was offered is saved |
| Trust lists (`network_trust.rs`, `src/network-trust.ts`) | two lists, the window's copies | classify, ask, decide, move, save | configuration, login | the network changes between question, answer and password | a password goes only where the user allows |
| Android background service (`KeepAliveService.kt`, `lib.rs` 2166-2622) | its own copy of the health records | headless check | the app process | two processes | see account health and portal login |
| Network timeline, card protocol, router control, platform adapters, diagnostics, window and tray presentation, encryption of backups, website and scripts | little or none | parsing, requests, drawing | the components above | | not modelled, see section 9 |

`PROJECT.json` lists the same components with their files, and the hazards of
this code at their lines, with the properties that cover them.

## 2. The modules

`LoginProgress` is the slot of `LoginProgressControl`: every operator is one
critical section of its mutex (`ProgressStart`, `ProgressCancel`,
`ProgressUpdate`, `ProgressFinish`).

`LoginCancel` extends it with the window and the two commands. `Begin`,
`PressCancel`, `CancelReturns`, `Approved` and `NotApproved` are the window
(`loginNow` and the view's cancel button); `HandleCancel` is the command
`cancel_manual_login`, run in the order of arrival; `LoginRefused`,
`LoginStarts`, `Submit`, `NextRequest`, `Return` and `Finish` are
`manual_login`. `requests` counts what went to the gateway.

`LoginCoordination` is the rest of what the process does to log in. By process:

- a check task: `SkipCheck`, `StartCheck`, `ObservationLost`, `Observed`,
  `Resampled`, `Detected`, `TakeLock`, then the requests to the gateway and the
  recheck (`trigger_network_check`, lines 4337-5300). `phase[c]` is its place,
  `context[c]` what it captured before its awaits;
- the manual login: `ManualBegins` to `ManualLeaves` (`manual_login_inner`).
  Its guards are dropped in reverse order, which is `ManualEnds` (lock,
  generation) and `ManualLeaves` (flag);
- tasks that wait for an address: `Schedule` starts one, `Ready` is its end;
- the loop: `ServesPending`, `PollsAddress`, `Resumes`, `CountsDown`, `Wakes`;
- tray login and logout, which take neither flag nor lock: `TrayBegins` to
  `LogoutAnswered`;
- the user and the environment: `NetworkChanges`, `SessionExpires`, `Notified`,
  `RequestsCheck`, `Hides`, `Shows`.

`overtaken` is a history variable: checks triggered before the end of a manual
login that has begun.

`RechargeJournal` holds the pure operations of `recharge_state.rs` on a journal,
a function from ids to stages: the transition relation (`Successors`), trimming
(`Trimmed`), a transition with its parent (`WithParent`), the repair of old
records (`Reconciled`), expiry (`Pruned`). Where the code compares dates or
amounts the operator returns the set of journals the comparison may produce.

`CampusRecharge` has the journal in memory (`mem`) and in secure storage
(`disk`), the copies that are about to be stored (`shot`, one per writer), the
slots that wait for a confirmation, the window (`active`, `pc`, `cur`), the
provider (`orders`, `paid`) and the school (`sent`, `executed`, `refused`). A
flow is one conversation of the window with the commands: one per payment, and
`Card` for transfers that no payment precedes. `PrepareOrder` to `Pay` are the
order commands, `CheckPaid` to `TransferUnclear` the transfer commands,
`Settled` to `Closed` what the window does with the result, `SettingsRead` and
`SettingsSaved` the two halves of `save_config`, `Restart` the death of the
process followed by `load_config` and `get_recoverable_recharges`.
`TransferLedger` is the abstract specification of what all this does to the money:
a transfer is drawn for a payment or for none, handed in, and moved or turned
down; beside it are what storage says of each transfer and which payments the app
takes for completed. A transfer is handed in only while no other of its payment is
underway or has moved, and in the step that finds it in storage as submitted; an
entry that has ended stays ended or is removed, whatever is restarted; a payment
is closed only when money has moved for it. `KeepsLedger` says that
`CampusRecharge` implements it: the stage of a transfer is read from `used`,
`sent`, `executed` and `refused` (`MoneyStage`), its entry from `disk`
(`EntryOf`), its source is `parent`.
`MCCampusRecharge` adds the symmetry set, a bound on the payments and transfers
begun in one behaviour, and a state constraint that only `spent_twice` uses, to
find its counterexample sooner.

`NetworkProgress` is the one progress display with everybody who may hold it: a
check (`CheckStep`), the task that waits for an address (`ReadyStep`), the manual
login and the loop. Beginning a run, testing the generation and publishing are
steps of their own.

`ProbePool` is the pool of shared runs: `Observe` joins or replaces a run,
`Invalidate` drops it, tasks report into the channel of their run, readers
compare generation and network when they accept. `LinkProbe` is one probe of
both address families, with targets, name servers and addresses tried in
parallel. `Race` is the abstract specification of a parallel attempt: the first
success decides, and failure needs every attempt to fail or the time to end.
`LinkProbe` implements it twice, for the targets of a family and, with a
deadline, for the addresses of a target (`LinkRaces`; the refinement mappings are
`TargetOutcome`, `FamilyVerdict` and `AddressVerdict`).

`AdaptiveSchedule` has the streak, the plan, and every place that observes,
resets or skips. `NetworkTrust` has the lists, the rules in their order
(`Evaluated`), the question with its two steps (what it reads first, and the kind
of login it waits for), the lists a login takes with it, and the window's own
copies. Wired networks have no name, and share one key.

`PortalLogin` follows a check of either engine from its probes (`ProbeAnswers`,
`Select`) over the order of the accounts (`Choose`) to the request (`Submit`) and
what its answer leads to (`Conclude`). `AccountHealth` has the records, the copies
of them on their way to the file, and everybody who sends passwords by them: a
check (`Considers`, `CheckSends`), the window, the tray, and the Android service.

`BillingSessions` has the pool, the lock and the commands that use them;
`BackgroundExpiry` the timer that ends them. `BillingActions`, `BillingRecords`
and `BillingCenter` are the three kinds of call: a change, a table, an overview.
`WebVpnLogin` is the login behind them, with messages and images.
`DeviceUsage` records usage, `UsageRollups` answers the queries of it.
`MonthEndCheck`, `AccountDiscovery`, `UpdateDownload` and `ConfigStore` model one
component each, named in section 1.

Two modules put components side by side. `MCServices` instantiates thirteen
modules and `MCNetwork` four; the variable `part`, chosen in the initial state,
names the one that moves, and the others rest in one of their initial states.
These components share no variable in the code that a property speaks of, so a
product of their states would show nothing more. Components that do interact are
in one module: the window with the commands, checks with logins, recharge with
storage, sessions with samples and commands, the service with the application.

The modules `...Proofs` hold the theorems. Those of a component that has a run of
its own extend the component's module; `MCServicesProofs` and `MCNetworkProofs`
extend `MCServices` and `MCNetwork`, so that what they prove is, word for word,
what the runs `services` and `network` check. Each begins with the lemma that
every component takes a step of its own specification or rests (`ServicesMove`,
`PartsMove`); where a component had a theorem before (`LinkProbe`,
`ConfigStore`), lemmas show that its instance is the same. Definitions commented "variant" are
deliberately wrong forms of the definition that follows; no specification uses
them, and each shows that some property notices that mistake.

## 3. Granularity and abstraction

A step runs from one `await`, storage write or wait for the user to the next.
Where a test of a generation is separated from the publication it protects by a
blocking query of the operating system, the query ends a step, since the main
thread and the other workers go on meanwhile. `campus_service_lock` is held from
the first step of a command to the last; commands that do not take it
(cancelling an order, finishing a recovery, leaving a payment) interleave freely.
Plain flags written one after another by two sides are written in steps of their
own (`UpdateDownload`, `NetworkProgress`).

Answers are reduced to what the code tells apart: accepted, rejected and unknown
(timeout, connection lost, unreadable); an unknown answer leaves open whether the
request took effect. What a probe says about a network that is gone is arbitrary.

*Login coordination.* On Android a check on a Wi-Fi first binds the process to it,
and one that cannot reports so (`RouteFails`); this counts as an event of the
environment. Which accounts may be tried, and the next interval, are
left open; `AccountHealth`, `PortalLogin` and `AdaptiveSchedule` decide them.

*Recharge.* Amounts, dates and accounts are left out: which payment a transfer
fits, which record is old and which terminal records are trimmed is open. Whether
an Alipay payment has arrived is open too, because the code reads it off the
card's balance, which other payments change. The school may carry out a submitted
transfer at any later time, or turn it down. Some details of the code show in the
model because they matter: `transition_with_parent` moves the transfer before the
payment can refuse, and the callers report or ignore the error
(`SubmissionRefused`, `Record`); a storage failure leaves the change in memory,
and the storage may hold it all the same (`StoreFailed`); a WeChat payment whose
submission could not be stored stays at TransferSubmitted until the next start;
the order's stage is assigned, not transitioned, when the provider answers
(`OrderAnswered`); records left Prepared by an abandoned confirmation are never
trimmed. Simplified: `cancel_wechat_card_recharge` reads the stage and
transitions in two lock acquisitions, modelled as one step; the network query of
a prepare command is merged with the update that follows while the service lock
is held; `SettingsSaved` joins the write to storage and the assignment to memory;
a reload of the page without a restart of the process does not occur; the
provider sessions and the WeChat payment cache are left out, since losing one
makes the same command fail, a failure the model has.

*Check progress.* Numbers of runs are drawn afresh from those nobody holds, since
only their equality is read. `SleepsPastBegin` assumes that the task which waits
for an address, and sleeps first, does not wake before the change that spawned it
has begun its display.

*Probes.* A run has the probes of the physical link, of the system's route and of
the portal's session; what they read in the answers is one of a few results.
Networks are model values compared by `same_network`. `LinkProbe` keeps the kinds
of failure, since one of them is shown.

*Schedule and trust.* A network is an interface with its address for the
schedule, and a record of what the rules look at for the trust lists (transport,
usable BSSID, campus address, how its name looks). Name patterns are not matched.

*Billing.* A session is the account, the version of the credentials and the
writes it has seen; pages are abstracted to whose they are. Records are days and
ids. The overview counts seconds only at the limits its code names, and each page
takes either no time worth counting or all of its limit. In `WebVpnLogin` times
are ages that grow together and stop where no comparison looks further, with the
limits scaled down (`Budget`, `PromptLimit`, `ChallengeLimit`).

*Histories.* Some properties hold but for cases the code does not exclude. The
variables that name these cases record what happened and are never read by an
action: `mixed` (BillingSessions), `slipped` (ConfigStore), `parted`
(AccountHealth), `undone` (NetworkTrust), `crossed` (UpdateDownload), `silent` in
a timer (BackgroundExpiry), `unstamped` and `lost` (MonthEndCheck). Each case is
one step of the model, so that the run has the behaviours with it, and is told in
section 8.

*Usage.* One account, device and interface; a sample of `UsageRollups` is one
unit. The storage limit of the history is left out.

*Stores.* `ConfigStore` follows the password of one account through memory,
secure storage, the entry of older Windows versions and the plain file: `due` is
what the password may be, the last one acknowledged or one sent since.
`AccountHealth` keeps per account the number of failures and the end of the wait.
An answer is one of the four kinds of `classify_account_failure`, each with its
wait: a credential or a balance has a fixed one, network and server one that
doubles. The wording that decides a kind is left out: an answer such as "ldap auth
error", which `portal_auth.rs` 1703-1719 takes for a rejected password, has the
short wait of the server (`lib.rs` 3391-3413), and the model says no more than
that the wait of its kind is kept. One login of a check or the window and one of
the tray are under way at a time; an answer heard by a check that was overtaken is
not recorded, as in the code.

*Month-end check.* A stamp file that cannot be written keeps its content; one that
cannot be read is not modelled.

*Portal login.* The probes of a type are counted, and what the gateway would
answer to each is fixed when a detection begins. The gateway grants one session
to an address; whose password it accepts is arbitrary and does not change.

## 4. Runs and bounds

| Run | Instance | Checks |
|---|---|---|
| `login_cancel` | 3 operations, 3 requests each | `AnswerIsReported`: a request that went out is not reported as cancelled. `CancelIsFinal`: a cancel that was accepted is never followed by a request. `LoginSettles`: the call returns. Three operations let a cancel arrive for a past, the current and a future one |
| `login_coordination` | 2 checks, a campus and a home network, 2 accounts, 3 events | `CheckFlagExact`, `WaitingHasTask`, `OvertakenNeverSubmits`, `OvertakenNeverReports`. Three events suffice for a check, a network change and a manual login, or two logins, in every order; checks may have to bind the Wi-Fi first (`RouteBinds`) |
| `login_coordination_live` | 1 check, campus, mobile and address-less networks, tray login and logout | `FullCheckServed`: after a request for a full check that came while another ran, a check that is full begins to look at the network, or finds a manual login at work. `EventuallyTrue` |
| `recharge` | one WeChat and two Alipay payments, 2 transfers, of which at most three are begun; 1 restart | `TransferredOnce`, `SubmissionOnRecord`, `EndedStaysEnded`, `KeepsLedger` (refinement of `TransferLedger`). Two transfers of one payment, two payments with one transfer, and a payment of either method are all among the behaviours; about 520 000 states |
| `recharge_live` | 1 WeChat payment, 1 transfer, 1 restart, copies stored in any order | `SubmissionSettles` |
| `network_progress` | 2 checks, 2 network changes, 1 manual login | `ProgressSettles`: again and again the display is complete, or a check is at work on it |
| `billing_sessions` | 2 accounts, 2 commands, a sampler of each account, the month-end check, 3 calls, 2 passwords; about 3 000 000 states | `OwnPages`, `CurrentCredentials`, `NoSessionFromBeforeAWrite`, `StoppedSentNothing` |
| `network` | pool: 2 readers, 2 networks, 2 runs, 2 reads, 1 change; link: 2 targets, 2 name servers, 2 addresses; schedule: 5 observations; trust: the networks of `TrustNetworks` | `AnswersAreFresh`, `AcceptedOnOwnNetwork` (pool), `LinkRaces` (refinement of `Race`), `PlanFollowsTheStreak`, `OnlyWithConsent`, and the types |
| `services` | thirteen components, see below; about 1 165 000 states | one property of each component, listed below, and the types |
| `spent_twice`, `already_online`, `blank_overwrites` | the smallest instance that shows it | one property each, which is violated: section 8 |

The properties of `services`, by component:

| Component | Property | Says |
|---|---|---|
| BillingActions | `ActionAnswerTells` | what is reported as done is so, and what is reported as refused changed nothing, unless the account was changed elsewhere meanwhile |
| BillingRecords | `RecordsAnswerIsThePage` | the rows answered for a period are the page asked for, of the table as it was at one moment of the query; of a table without dates, when nothing was added |
| BillingCenter | `OverviewIsShown` | the overview is shown although optional pages do not answer, after a login of up to 45 seconds |
| WebVpnLogin | `UserTimeIsFree` | the time for images is not counted against the limit, and all other time is |
| DeviceUsage | `CountedOnce` | usage recorded between two pauses is at most what the counter grew by |
| UsageRollups | `MonthIsWhole` | the rows summed for a month count every sample once, when the chart's first point is at the start of its range |
| BackgroundExpiry | `EndsItsOwnStay` | a timer ends sessions only at the end of a stay that no reported return has interrupted, unless the flag was cleared and set again without a report |
| MonthEndCheck | `ReadsAreSpaced` | the school is asked again only after the wait, also over restarts, but once after an end that follows a failed write of the stamp |
| ConfigStore | `PasswordIsSomewhere` | a password that is known to exist is in secure storage or in the older file, until one of the three slips |
| AccountDiscovery | `SavedAsConfirmed` | an account is saved only as it was offered and while the user may accept it |
| UpdateDownload | `CancelledByItsOwnStop` | a download is cancelled only by a stop that found it active, or one between its two steps as it began |
| AccountHealth | `RefusedIsNotSentAgain` | a refused password is not sent before its wait is over, by whomever and over restarts, until somebody can miss an answer |
| PortalLogin | `FasterNeverWins`, `OneLoginPerCheck` | the likeliest gateway decides; an account let in is followed by no other |

**Bounds**, by name. Events and attempts: `MaxRequests`, `NumAccounts` (accounts
one login tries), `MaxEvents` (things the user and the environment do; tasks of
the app are not bounded by it), `MaxChanges`, `MaxLogins`, `MaxRuns`, `MaxReads`,
`MaxCalls`, `MaxActions`, `MaxForeign`, `MaxSaves`, `MaxRestarts`, `MaxTokens`,
`MaxRedirects`, `MaxChunks`, `MaxChallenges`, `MaxQueue`, `MaxStamp`. Each is
large enough for the event to happen before, during and after the operation it
disturbs. Times: `MaxNow`, `LatestTime`, `LatestHealth`, `Horizon`, `MaxWaited`,
`StayLimit`, `MaxAge`: each exceeds the longest wait the code compares with, at
the scale of the instance. Saturating counters: `SuspendAfter` (5 in the code, 2
here: nothing depends on the distance), `MaxObserved` (5: one more than the
longest streak the plan distinguishes), `MaxGeneration`. Sizes: `MaxArchived` (32
in the code; 1 makes trimming happen), `Period`, `WindowDays`, `PageRows`,
`MaxRows`, `MaxRecords`, `MaxAdded` (a period of three windows, pages shorter than
a window, and a table that exceeds the export limit). Ids are used once, so the
number of transfers bounds the retries. Sets of records describe surroundings:
`TrustNetworks` and `Networks` (what the rules, and what a check, look at of a
network: `CampusNetworks` and `PortalNetworks` in the runs) and `Orders` (the
accounts in the orders a profile may ask for). The theorems of section 6 hold for every
value of these.

Two state constraints belong to passing runs: `AtMostThree`, at most three payments
and transfers are begun in a behaviour of `recharge`, and `OneChange`, the
credentials of only one account change in a behaviour of `billing_sessions` (a session
and the credentials it is compared with are of one account). `PlainFormUnused` belongs to
`spent_twice`, to find its counterexample sooner. In `services` the component
`AccountHealth` goes no further once its property excepts everything (`parted`),
and has one account, since the records of several do not depend on each other but
for the order in which a check tries them; the theorem has any number. Its waits
are 2 for a credential, 3 for a balance and 1 or 2 for the others, in 4 units of
time, so that a longer wait is followed by a shorter one and both end.

`CHECK_DEADLOCK FALSE` stands where the system may stop once the window has used
its operations or the environment its events: in the login runs, in
`billing_sessions`, `network`, `services` and the violations of `already_online`
and `blank_overwrites`. The two recharge runs, `network_progress` and
`spent_twice` check deadlock.

Symmetry is used for payments of one method, transfers, accounts, commands,
readers and networks in `recharge`, `spent_twice`, `billing_sessions` and
`network`, none of which checks liveness.

**Constants that are switches.** Only the first is an assumption about the code;
set to TRUE it gives the behaviours of section 8.

| Constant | Meaning |
|---|---|
| `Overlap` (CampusRecharge) | when FALSE: a copy of the journal is stored before the next is taken. Nothing in the code orders the two: a settings save copies the journal, writes and publishes it later. `recharge_live` runs with TRUE, `spent_twice` too |
| `AdaptiveChecks`, `OutsideLock`, `RouteBinds` (LoginCoordination) | settings of an instance: adaptive intervals; the tray login and logout, which take no lock (TRUE in `login_coordination_live`); whether it is Android, where a check may have to bind the Wi-Fi first (TRUE in both runs) |

Configurations that belong to no run, for who wants to see more:
`NewerResultStands.cfg` (module `LoginCoordination`), `OrdersSurviveRestart.cfg`,
`OneTransferOnePayment.cfg`, `UnfinishedNotErased.cfg` (module `CampusRecharge`),
`HealthOfThisGeneration.cfg` (module `ProbePool`) and `VpnSamples.cfg` (module
`MCBillingSessions`) each end in a counterexample told in section 8;
`ProbePoolLive.cfg` (module `ProbePool`) checks that readers of the pool return,
with several hundred thousand states.

## 5. Fairness

`LoginCancel`: IPC delivers a call that was made, a command that runs goes on
(its requests carry timeouts) and the approval dialog is answered. Pressing
cancel is never obliged.

`LoginCoordination`: each check task, the manual login, the set of ready tasks
and the tray and logout requests go on, for every request they wait for has a
timeout; the loop ticks for ever, so serving a pending check, resuming and the
countdown are fair one by one. The poll of the address is not fair, because
`wifi_change_detect` may switch it off, and no event of the user or the
environment is.

`CampusRecharge`: `Onward(f)` is what a command or the window does by itself
after the user has confirmed: storage writes end, requests are given up after 45
seconds, the window continues when a call returns. Nothing is assumed of the
user, the provider, the school, the settings page or who kills the app; in
particular a submission settles although the school may never answer.

`NetworkProgress`: a change that was noticed begins its run, checks and the tasks
that wait for an address go on, and a manual login that began ends. The loop's
tick is strongly fair (`ServesPending \/ CountsDown`): it comes every second for
ever, while the flags that make it wait are set and cleared around it. While checks
are suspended in the background it starts none (`lib.rs` 8549-8552); the tick leaves
that out, since nobody sees the display then, and the return of the window resumes
it. No network
change and no login is obliged to happen.

`ProbePool` (`ProbePoolLive.cfg`): readers and the tasks of a run go on.

## 6. What is proved

TLAPS proves the following for every value of the constants that satisfies the
named assumptions of the modules, and what a theorem states beside them.

| Module | Theorems | Assumed |
|---|---|---|
| `LoginCancelProofs` | `TypeCorrect`, `SlotHeld`, `AnswerReported`, `CancelFinal` | |
| `LoginCoordinationProofs` | `TypeCorrect`, `Invariance`, `FlagExact`, `Serialized`, `WaitersSuperseded`, `PauseEnds`, `OvertakenSilent`, `OvertakenReportsNothing` | |
| `CampusRechargeProofs` | `TypeCorrect`, `Invariance`, `TransferIsOnce`, `SubmissionIsOnRecord`, `CompletionIsMoved`, `EndingIsFinal`, `RechargeKeepsLedger` | `~Overlap` |
| | `LedgerPromises` | |
| `ConfigStoreProofs` | `NoPasswordIsLost` | `ValuesDiffer`: the passwords differ from the values that stand for none |
| `LinkProbeProofs` | `ProbeImplementsRaces` | |
| `BillingSessionsProofs` | `SessionsInvariant`, `CurrentCredentialsAlways`, `StoppedSentNothingAlways`, `NoSessionFromBeforeAWriteAlways`, `OwnPagesAlways` | |
| `MCNetworkProofs` | `TypeCorrect`, `ProbesAreRaces`, `AnswersAreFreshAlways`, `AcceptedOnOwnNetworkAlways`, `PlanFollowsTheStreakAlways`, `PasswordsNeedConsent` | |
| `MCServicesProofs` | `TypeCorrect`, `RecordsAnswerAlways`, `EndsItsOwnStayAlways`, `CancelledByItsOwnStopAlways`, `SavesAsConfirmed`, `ReadsAreSpacedAlways`, `OverviewIsShownAlways`, `CountedOnceAlways`, `UserTimeIsFreeAlways`, `ActionAnswerTellsAlways`, `OneLoginPerCheckAlways`, `FasterNeverWinsAlways`, `MonthIsWholeAlways`, `RefusedIsNotSentAgainAlways` | |
| | `NoPasswordIsLost` | `ValuesDiffer`, as above |

The assumptions on constants are named in the modules that declare them. Besides
that bounds are numbers (`BoundsAssumption`) and that the values which stand for
"none" are not members of the sets they stand beside, they say: `RecordsAssumption`,
a window of a query is not longer than its period and pages hold at least one
record; `UsageAssumption`, "local" is one of the scopes, as at the first start, and
the account may have a password; `RollupAssumption`, rows grow and
each kind divides the next, as minutes, hours, days and months do;
`MonthAssumption`, the retry is not longer than the spacing, and the spacing is
shorter than the age that stands for "never"; `PortalAssumption`, networks are
records of the declared form; `HealthAssumption`, the waits are numbers. `~Overlap`
is the constant of section 4, and `spent_twice` shows what the code does without it.

`LoginCancelProofs`. The invariant adds to the properties that one operation at a
time is under way, that an active slot belongs to a running login, that a slot is
never both submitted and cancelled, and, for the calls in flight, that an
operation which was never named has no call, that at most one call per operation
waits and that an accepted cancel stays remembered in the slot until the window
begins the next operation. The last part is what `CancelIsFinal` needs: the login
call may come after the cancel, and only the remembered cancel refuses it.

`LoginCoordinationProofs`. The invariant relates the flag to the phase of the
manual login, the lock to the phase of its holder on either side, and says that
an overtaken check carries a generation that is behind, or finds the flag set
(`OvertakenIsStale`). From it follows that a check that obtains the lock after
waiting is told to stop. `OvertakenNeverReports` follows from the same invariant:
a task that reports that a login is needed or failed is in a phase in which it has
just seen the flag clear and its generation current (`SupersededReportsNothing`),
and an action that ends a check in any other phase reports nothing, but for
`RouteFails`, which the property names.

`CampusRechargeProofs`. TransferredOnce is far from inductive: a second transfer
is prevented by the record, by the window, or by the conversation that is still
open, depending on where the first one is. The invariant says so in parts:

- `OneCopy`: at most one copy waits to be stored, and it is what memory holds;
- `Known`, `Fresh`, `Owned`: ids on record were given out, an order being
  prepared has not moved on, a conversation owns its transfer, which names its
  payment and has not been sent before it says so;
- `Noted`: what is about to be sent is on record in the copy to be stored;
- `OnRecord`, `Carried`, `Moved`: a sent transfer, a completed transfer and a
  completed payment are what the journal says, in memory and in storage;
- `SpentOnRecord`: a payment with a transfer the school may still carry out is,
  in memory and in storage, at a stage no restart offers;
- `NotOffered`: the window offers it no more, or its conversation is still open;
- `OnePerPayment`: at most one such transfer per payment, which with the fact
  that a refused transfer is never carried out (`Settledness`) gives the
  property.

Each action has a lemma `...Keeps`. Lemmas on the journal operators
(`TrimmedKeeps`, `PutMoves`, `WithParentMoves`, `ReviewedMoves`) say what an
operation may do to a record; `ChangedKeepsRecorded`, `StoredKeepsRecorded` and
`QuietKeepsRecorded` preserve the part about the records for any step that
changes memory admissibly, stores a copy, or leaves the journal alone, so that an
action's own lemma has only the conversation to look at.

The refinement of `TransferLedger` (`RechargeKeepsLedger`) needs one fact more,
`Final`: storage is never ahead of memory about what has ended, so that neither
writing memory to storage nor starting from storage revives a record. It is
preserved because a step that writes storage keeps memory (`DiskMoves`), a running
app keeps what has ended and what has been trimmed (`RunningEnds`), and the review
at start-up touches no ended record (`ReviewedMoves`). Every step then keeps the
books (`BooksKept`), and changes the stages of the transfers in one of four ways or
not at all (`SchoolMoves`), each a step of the ledger (`DrawStep`, `HandInStep`,
`MoveStep`, `TurnDownStep`); that the payment is unspent when a transfer is drawn
or handed in is `NotOffered`. `LedgerPromises` shows that the ledger itself allows
no payment two transfers that count and closes none without money
(`OneCounts`, `ClosedIsFunded`); the latter is `CompletedIsMoved` of
`CampusRecharge`, which no run checks separately.

`ConfigStoreProofs`. That the password is in one of two places is not inductive,
because a writer may be about to store something else. `ConfigInv` adds which
copies are current: what is in storage, or else in the file (`StoredOrFiled`),
what the file may still hold (`FileIsCurrent`), what memory holds unless storage
was unreadable (`MemoryIsCurrent`), and what the command under way will write
(`OpIsCurrent`, `Published`). It is claimed only while the account is certain to
exist, and until `slipped` is set (`HeldOrSlipped`); that a command which begins
alone keeps it, and one that does not sets `slipped`, is the step from the code to
the invariant.

`LinkProbeProofs`. Every step of a probe is, seen from a family's targets and
from a target's addresses, a step of `Race` or none. What a step does to the
outcomes and the verdict of a race is a move (`RaceMoves`); that the move is one
of the abstract specification needs only the invariant `NoneYet`: nothing has
succeeded where a request is still under way.

`BillingSessionsProofs`. `SessionsInv` has three parts. `Basic`: a task's record
fits its phase, and whoever is at work holds the fetch lock, except samples.
`Upstream`: two tasks that are under way through the WebVPN together are in `mixed`
(`Apart`), and the open session of a task that is not belongs to the account the
WebVPN's server is logged in to. `Current`, where no samples are made: what the pool keeps, and what a read has
taken, is as new as the last write of its account, except between a write that
disconnects and the removal its task is about to make (`PoolIsCurrent`), and the
pool is empty for an account whose action is under way.

`MCNetworkProofs`, by component:

- probes: `LinkProbeProofs` is instantiated and its operators shown equal to those
  of the instance that `network` checks;
- trust: `TrustInv` says that the lists, the window's copy and the copy it waits to
  save are what the user has said of every network but those in `undone`, and for
  the last also those decided on since (`CopiesAgree`); that a login's copy agrees
  with what had been said when it began (`LoginAgrees`); and that a run to be judged
  knows its login type (`Judged`);
- pool: the current run and every reader began after the last invalidation they
  know of (`RunIsFresh`, `ReaderIsFresh`) and have the generation and network of
  their task (`RunHasTask`, `ReaderHasTask`);
- schedule: the two counts are the lengths of the row of like results at the end of
  the history (`ScheduleInv`), which one more result makes longer by one or begins
  anew (`RowGrows`);
- types: a target that failed has a kind of failure, so that a family whose targets
  all failed shows one (`LinkTypes`).

`MCServicesProofs`, by component:

- `BackgroundExpiry`: a return that was reported has also advanced the generation,
  or has found the flag cleared without a report (`ReturnedIsOlder`), so that the
  task of an earlier stay fails its test unless the flag is set again silently;
- `UpdateDownload`: at most one command has the flags (`OneHolds`), since `active`
  stays set while one has them; from the reset on, `cancelled` says that a stop was
  written since, which found this download or crossed its beginning
  (`CancelledIsStopped`, `LateIsCrossed`);
- `AccountDiscovery`: the offer that is kept was shown, has a password of the user's
  own, and its token was not rejected (`OfferStands`); tokens are not given twice
  (`TokensGiven`);
- `ConfigStore`: `ConfigStoreProofs`, of the instance here;
- `AccountHealth`: until `parted`, every refusal still has its wait in the memory of
  the application unless the service has begun since or written more (`MemoryIsKept`),
  in the copy of the service, which then works alone (`ServiceIsKept`), and in the
  file unless somebody has a copy to write (`FileIsKept`); and the accounts a check
  has chosen have none (`ChosenAreLifted`);
- `MonthEndCheck`: the hours an attempt makes quiet follow from what memory knows,
  or the stamp file where memory knows nothing (`QuietIsKnown`), and a check that
  has asked has noted it in both (`TaskIsNoted`), so a restart forgets nothing; the
  file's part of both excepts a write that failed (`unstamped`);
- `BillingCenter`: a reading has taken at most the login and the limits of the pages
  it has done (`OverviewInTime`);
- `DeviceUsage`: the baseline is the highest counter seen since the last pause, and
  what was counted is at most its distance to the first (`BaselineIsHigh`);
- `WebVpnLogin`: the time since a command began is that of the network and that of
  the images, the open one included (`TimesAddUp`);
- `BillingActions`: while nobody else changes the account it is what the dashboard
  showed until the request goes out, and afterwards still so or as asked
  (`AsTheDashboard`, `SentSoFar`, `DoneIsAsked`);
- `PortalLogin`: between the requests of a check the gateway has let none of its
  accounts in (`NoneIsIn`), from which `OneLoginPerCheck` follows; what the probes
  of a type have found is what its gateway amounts to once the probes that would
  show it are over (`HeardSoFar`), from which `FasterNeverWins` follows;
- `BillingRecords`: while nothing newer than the heads has been taken, there is one
  moment of the query whose table every head that was read and every row that was
  gathered agree with (`HeadsOf`, `Gathered`): the rows so far are a run of that table
  that begins where the page does and ends where the next window's slice begins. A
  table only grows at its front, so the older windows of a later table hold what they
  held (`Tables`, `IsTable`). For a table without dates the rows are a run of the
  pages as long as nothing was added (`Paged`). The steps above the invariant are about
  sequences: a window of a table is a run of it (`WindowIsARun`), a page of a listing
  is a run of the listing (`SliceOfAListing`), and runs that meet make one
  (`ConcatAdjacentSubSeq`);
- `UsageRollups`: where a row of a kind begins, comparing the beginning of a row
  with it is comparing the sample (`BucketAgainst`), so that the month's days, the
  last day's hours, the last hour's minutes and the points are pieces of time that
  meet (`PiecesMeet`), and their samples add up.

- types: `TypeCorrect` says for every service what `MCServices.TypeOK` says, with its
  bounds. Most services stay in them by their own guards; the others need the
  invariants above: a sample that is recorded shows a counter (`UsageInv`), the time of
  a login adds up (`TimesAddUp`), what a detection has found belongs to its network
  (`DetectionInv`), and an action has sent one request at most (`ActionCounts`). The
  store needs of its invariant only that a command that saves a new password has one.

**Induction over data.** The library's induction theorems take an operator, which the
provers cannot instantiate. What is needed of them is proved from the theorems that
take none: a non-empty set of numbers has a least member (`LeastMember`, from `WFMin`
and the well-foundedness of `<`), hence a set that holds 0 and with each number its
successor holds all (`SetInduction`), and a function that is defined by recursion on
the numbers exists and obeys its equation (`Recursive`). With these, what the folds
and filters of `BillingRecords` yield is shown for sequences of every length.

## 7. What is only model-checked

- Liveness (`LoginSettles`, `FullCheckServed`, `EventuallyTrue`,
  `SubmissionSettles`, `ProgressSettles`), which is out of the prover's reach, as
  is ENABLED. `EventuallyTrue` says that when nothing happens any more, what is
  shown is true of the network the machine is on, unless checks are suspended in
  the background: it needs every network change either noticed by a check or by
  the ready task of a later one.
- The violations of section 8.

## 8. Findings

Three runs end in a violation, by design:

1. `spent_twice` (`lib.rs` 4238): saving settings writes back the journal it
   copied before secure storage was written, against the comment at lines
   4211-4213. A payment confirmed but not yet submitted when the copy was taken is
   submitted during the save; the save restores the older stage; after a restart
   the payment is offered, and transferred, again. `index.html` line 654 promises
   that a transfer order is submitted only once.
2. `already_online` (`lib.rs` 2477): the headless check of the Android service
   does not classify the answer that the address already has a session, counts it
   as a failure of the account and goes on to the next one, against the comment
   at `portal_auth.rs` 1682-1684. The check of the application stops.
3. `blank_overwrites` (`lib.rs` 6085): after a start in which secure storage could
   not be read, a trust decision stores the record in memory, which has no
   passwords, over the one in storage; `save_config` has a guard against it (line
   4230), the other writers do not.

Observed while modelling. The first six have a configuration of section 4; the cases
that a history names (section 3) are among the behaviours of the passing runs.

- A check tests its generation, queries the operating system, then publishes
  without a second test (`lib.rs` 4684), over the result of a manual login that
  the comment at 4352-4354 says must not be overwritten. The recheck repairs it
  (`NewerResultStands`). On Android a check whose Wi-Fi could not be bound reports
  BjutCampus without any test (4609-4629), also when it was overtaken: the exception
  of `OvertakenNeverReports`.
- The provider's order is created while the record says Prepared, a stage that no
  restart recovers (`campus_commands.rs` 585, 761), although `wiki/Billing.md`
  line 36 says the app offers it (`OrdersSurviveRestart`).
- The repair of old records does not mark the transfer it has used, and runs at
  every start; one transfer may complete several payments
  (`recharge_state.rs` 286, against the test at 563; `OneTransferOnePayment`).
- The settings save of finding 1 alone, without the second transfer
  (`UnfinishedNotErased`).
- A probe run that starts between the invalidation by a network change and the
  advance of the generation reports under the old generation after the change
  (`HealthOfThisGeneration`).
- Samples of device usage take the WebVPN session as it is, whose server is logged
  in to one account at a time, and take no lock: two that meet there, or one and a
  command, may read each other's pages (`device_usage.rs` 282-296), though the
  comment at `billing.rs` 1604-1607 knows that the server's session may be another
  account's (`PagesNeverMixed`, `VpnSamples.cfg`). `OwnPages` excepts just the tasks
  that met.
- `ConfigStore`: three slips lose a password. Storage is noted as available before the
  public file is written, and if that fails, memory keeps the blank of an unreadable
  start, which a later save no longer fills from storage (`lib.rs` 4239-4240). A save,
  and the storing of a router profile or of a password changed at the school
  (`billing_commands.rs` 282), each write the whole record, and one is lost; the same
  happens to the trust lists after a start that could not read them. And finding 3.
- `NetworkTrust`: settings queued by the window (`src/main.ts` 789-850) carry an older
  copy of the lists and take a rejection back. A login judges by the lists of its
  beginning (`lib.rs` 6527), so a rejection during the detection does not stop it; the
  lists are judged once per check, so a loop over the accounts goes on after a
  rejection. An answer "this once" for one wired network is good for any
  (6605-6613), since none has a name.
- `AccountHealth`: the Android application's own loop goes on in the background
  (`lib.rs` 8549-8567) with its own copy of the records, beside the service, and each
  may send what the other was refused. The copies are written outside the lock, so
  that an older one may follow a newer; a failed write is told to nobody; the tray
  login takes no lock, so that a check may send the password it has just been refused.
  A late refusal may count for a password that was changed meanwhile. Answers that are
  known to reject the password have only the server's wait of 60 seconds (section 3).
- `MonthEndCheck`: `save_stamp` ignores every error (`month_end.rs` 37-38), and the
  check goes on to ask (`lib.rs` 7097-7108); if the program then ends, the next one
  asks again at once.
- `PortalLogin`: the login type of a matching profile takes the place of the
  detected one (`lib.rs` 2341-2344); the headless check writes the records of all
  accounts back whole.
- `BackgroundExpiry`: a check that begins while the window is hidden stores
  `is_in_background` (`lib.rs` 4381); the report that follows finds it unchanged
  and starts no timer (7922-7925). Likewise the display of the window clears the flag
  (1290), and the return that is then reported changes nothing; when a check sets it
  again, the timer of the earlier stay finds its generation, and ends the sessions
  before their time. A timer that found its stay over waits for the
  WebVPN manager and then clears its session, whatever happened meanwhile.
- `UpdateDownload`: a control looks whether a download is active (`lib.rs` 3077) and
  writes its flag later without a lock; one that finds a download which then ends
  cancels the next, if that has begun. A stop acknowledged during the last wait or the verification
  no longer prevents the installation; a stop between the flag and the resets is
  lost.
- `AdaptiveSchedule`: reports of the window and settings saves lower the countdown
  to the configured interval (`lib.rs` 7958-7996, 5468-5484), also below the least
  interval that `docs/network-experience.md` line 11 names for power saving; a
  change of the network resets the schedule before it advances the generation
  (7770-7774), so that a check that ends in between leaves its observation.
- `UsageRollups`: when the first point of the chart is later than the start of its
  range, the window divides the month at that point and the history at the start
  (`usage_history.rs` 28-49, `src/device-usage-model.ts` 173-184): usage between
  the two may be left out of the month (`MonthIsAlwaysWhole`).
- `AccountDiscovery`: accepting takes the offer before comparing it, so a wrong
  token drops it; a late older call replaces a newer offer.
- Exports of tables without dates are read page after page; a record added
  meanwhile shifts the pages, and a row is exported twice and the last one cut off
  (`billing.rs` 885-914).
- `begin_billing_webvpn` reads the password before it waits for the manager's lock
  (`lib.rs` 7540-7541), and the refreshes of an image are unlimited.

## 9. What is not modelled, and why

Parsing, request building, TLS and routing of the portal, card and billing
protocols: pure data, covered by the repository's unit tests; the models use only
their outcome. Platform adapters and diagnostics: input and output. The network
timeline is one bounded list under one lock. Drawing, preferences, encryption of
backups, log redaction: no interaction. Router control: a client of another device
with hardly any state of its own; its saving of the profile is a writer of
`ConfigStore`. The website, the relay and the build scripts are not part of the
running program.

Parts of modelled components that are left out: the restart of the macOS network
adapter (`lib.rs` 5722-5805), which takes the flag and the lock of a manual login;
the provider sessions of the card commands; the storage limit of the usage
history; the schedule, notifications and journal of the Android service; release
metadata of updates; the matching of network names. The thirteen components of
`MCServices` are not composed with each other, since the properties speak of none
of the variables they share (`is_in_background`, the configuration); where two
components do disturb each other through shared state, one module has both.

## 10. Plan

1. An abstract specification of the request lock, implemented by
   `LoginCoordination`.
2. A discipline of storing under which `Overlap = FALSE` would follow and nothing
   would slip: the writers of the configuration queued behind one lock, as a refinement.
3. The adapter restart, added to `LoginCoordination`; the WebVPN manager composed
   with `BillingSessions`.
4. The storage limit of the usage history.
