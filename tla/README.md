# Verification of the Quest Esports platform

TLA+ models of the parts of the platform where several actors write the same rows, the model-checking
runs that exercise them on small instances, and proofs about them for every size. Paths below are
relative to `backend/src/` unless they begin with another top-level directory of the repository.

- [The system and its parts](#the-system-and-its-parts)
- [The modules](#the-modules)
- [JobQueue: the background job queue](#jobqueue-the-background-job-queue)
- [TournamentEntry: registrations, capacity and payments](#tournamententry-registrations-capacity-and-payments)
- [CommerceOrders: tickets, shop and their payments](#commerceorders-tickets-shop-and-their-payments)
- [RosterInvites: invitations and verdicts](#rosterinvites-invitations-and-verdicts)
- [VetoRoom: the map veto of a match](#vetoroom-the-map-veto-of-a-match)
- [ChallongeSync: the copy of a bracket](#challongesync-the-copy-of-a-bracket)
- [Accounts: ways into an account](#accounts-ways-into-an-account)
- [RealtimeTransport: live updates](#realtimetransport-live-updates)
- [The runs](#the-runs)
- [Where documentation and code disagree](#where-documentation-and-code-disagree)
- [The proofs](#the-proofs)
- [What is not modelled](#what-is-not-modelled)
- [Plan](#plan)

## The system and its parts

The platform runs esports tournaments: teams and players register, pay, are placed in numbered slots
or on a waitlist, and play; it also sells event tickets and merchandise. `backend/` is an Express
API over PostgreSQL (Prisma) in one or two processes; each also runs timers: a job worker, commerce
maintenance every minute, ranking and Challonge schedulers. `frontend/` (Next.js) and `mobile-admin/`
(Expo) are clients of that API, `valorant-platform-backend/` is a separate Python service that collects
match statistics, and `ops/` holds deployment and backup scripts.

All lasting state is in the database. Components interact through its rows, inside transactions that
are SERIALIZABLE with retry in the registration, payment, order and staff services, and READ COMMITTED
elsewhere; through jobs, which one component enqueues inside its own transaction and the worker runs
later; and through calls from outside (browsers, PayHere's notifications, Challonge, Discord, Google).

| Component | State it keeps | Operations | What is hard | What makes it correct | Modelled in |
| --- | --- | --- | --- | --- | --- |
| Job queue, `lib/jobs.js` | `background_jobs`: status, attempts, availableAt, lock and lease, dedupe key | enqueue, claim, reclaim, succeed, fail and retry, defer, purge | workers that die or overrun their lock, two processes, two callers with one key | one owner per lease, one live row per key, at-least-once delivery, every job settles | `JobQueue` |
| Tournament registration, `modules/tournaments/registration-*.js` | `team_registrations`: status, fee, reservedUntil, slot, waitlist position | register, resume payment, resubmit, queue, cancel | a decision taken before the transaction, a race for the last place | capacity and slots respected, queue in order | `TournamentEntry` |
| Payments, `modules/payments/` | `payment_transactions` and their notification audit | PayHere notifications, proofs and their review, reconciliation, reopening, expiry | late, repeated, reordered notifications; several payments of one entrant | paid means money or a waiver, a refund stands, reservations end | `TournamentEntry`, `CommerceOrders` |
| Staff decisions, `modules/admin/admin-registration*.js`, `admin-roster.service.js` | the same rows, `admin_slot_reservations` | status, promotion, waiver, holds, deletion, roster corrections | reads before the transaction | no rule of the others is broken except deliberately | `TournamentEntry`, `RosterInvites` |
| Automatic approval, `modules/tournaments/auto-approval.service.js` | the registration's status | called after fee, roster and staff verification | whichever comes last | complete entries are approved, and only those | `TournamentEntry`, `RosterInvites` |
| Roster invitations, `modules/teams/` | members' invite status on the saved team and on each registration | invite, resend, accept, decline, expire, copy to registrations | answers at the same time at READ COMMITTED, edits loaded before an answer | a verified roster has accepted, an accepted place stays | `RosterInvites` |
| Tickets, `modules/tickets/ticket.service.js` | orders, tickets, token versions, scans | order, pay, expire, scan, reissue, cancel | expiry against payment, scan against cancellation | capacity, one admission per ticket | `CommerceOrders` |
| Shop, `modules/shop/shop.service.js` | products, stock, orders | order, pay, expire, fulfil, edit | several paths that release one order | stock comes back once | `CommerceOrders` |
| Commerce maintenance, `lib/commerce-maintenance.js` | none | expire registrations, orders and tickets, requeue confirmations | runs beside every other path | what expires is released once | `TournamentEntry`, `CommerceOrders` |
| Veto rooms, `modules/veto/veto.service.js` | room, revision, toss, steps, actions | open, ready, toss, act, rewind, reset, cancel, delete | two captains and staff at once | turns kept, every map used once, the match not left waiting | `VetoRoom` |
| Match rooms, `modules/match-rooms/` | members, messages, support requests | synchronise from rosters, chat, lock, provision the veto | membership follows changing rosters | only participants are members | `VetoRoom` (provisioning) |
| Matches and brackets, `modules/matches/`, `modules/tournaments/bracket.service.js` | match rows; the bracket as one JSON document | create, update, publish, report result | read-modify-write of the document | no result lost | `VetoRoom`, `ChallongeSync` (a match's status) |
| Challonge, `modules/challonge/` | the integration: mode, next sync, lease; the fixtures copied | connect, sync by schedule and by hand, finalise | overlapping and slow runs, lost jobs, failed fetches, three writers of a fixture's status | newest copy wins, the copy catches up, no status is made up | `ChallongeSync` |
| Sign-in, `modules/auth/` | users, sessions, one-time tokens, linked providers | sign up, verify, reset, change address, link, unlink | tokens used twice or late, last login method removed | a link works once and only the last, a way in remains | `Accounts` |
| Game accounts, `modules/game-accounts/` | accounts, change requests, roster snapshots | request, review, snapshot | a locked account that changes | snapshots fixed at approval | - |
| Notifications and support | notification recipients, conversations | create, read, assign, archive | duplicate events | one notification per event key | - |
| Realtime, `modules/realtime/` | a subscription per process, the browsers' event streams | subscribe, reconnect, publish, start, stop; connect, authorise, drain | deadlines and aborts that the network ignores, authorisation against the drain | reconnections do not overlap, no event is silently missed, streams within limits | `RealtimeTransport` |
| Rankings, Valorant statistics | copies of external data | scheduled synchronisation | overlapping runs | newest copy wins | - |
| Shutdown, `server.js` | none | drain on a signal | the deadline passes first | nothing is half-written | `RealtimeTransport` (the drain), `JobQueue` (the worker's end) |
| Cache, permissions, content, clients, operations | independent records | create, edit, delete, read | little | checks only refuse | - |

`PROJECT.json` lists the same parts with their files and status, and under "hazards" each thing that can go
wrong at the line where it does, with the properties that would show it.

## The modules

| Module | Contents |
| --- | --- |
| `JobLedger` | abstract specification of the queue: what it promises to callers |
| `JobQueue`, `JobQueueProofs` | the queue as the code implements it, which implements `JobLedger` by a refinement mapping; theorems, the refinement included |
| `TournamentPlaces` | abstract specification of a tournament's places: who is inside, and the numbered slots |
| `TournamentEntry`, `TournamentEntryProofs` | registrations, capacity, slots, waitlist and payments of one tournament, which implement `TournamentPlaces` except where staff force; theorems |
| `CommerceOrders`, `CommerceOrdersProofs` | ticket orders of one event, orders of one product variant, their payments, the gate and the staff desk; theorems |
| `RosterInvites`, `RosterInvitesProofs` | invitations of one saved team and its registrations; theorems |
| `VetoRoom`, `VetoRoomProofs` | the map veto of one match and the match's status; theorems |
| `ChallongeSync`, `ChallongeSyncProofs` | one integration, its lease, its job, its fixtures and those who write them; theorems |
| `Accounts`, `AccountsProofs` | addresses, passwords, provider identities and mailed links; theorems |
| `RealtimeTransport`, `RealtimeTransportProofs` | one process's subscription to the shared channel and its browsers' streams; theorems |
| `MC...` | bounds, symmetry and constants of the instances |

Definitions marked "Mutant" that no action uses are variants of the definition after them with a plausible
mistake. Each property of a passing run is checked against one: with the variant in place of the definition,
the run must find the property violated. `PROJECT.json` pairs them under "mutants".

One convention holds in all modules. A transaction is one step where it is SERIALIZABLE and retried, or a
conditional write. A request that reads, decides, and writes later without asking again is two steps, and what
it read is kept in a variable of its own (`snap`, `form`, `desk`, `req`, `ans`, `sync`), so that anything may
happen between. A request that fails, is refused or dies with its process drops what it read.

The modules meet in shared rows, and each gives the other's part the freedom it has: `TournamentEntry` lets
the sum of a roster's answers change in one step (`RosterAnswers`), and `RosterInvites` is about how that sum
comes about; `TournamentEntry` and `CommerceOrders` are the branches of the same payment code for
registrations and for orders; `VetoRoom` and `ChallongeSync` share the status of a match. Each has the other's
writes in full freedom, and the edits by staff: `VetoRoom` a sync that reads the status and writes it back at any later
time, `ChallongeSync` a veto that moves a fixture whenever its status allows.

## JobQueue: the background job queue

One function per column of `background_jobs` (`status`, `attempts`, `due` for availableAt, `lockAge` for
lockedAt, `lease`, `keyed` for a set dedupeKey) and one per register of a worker's loop (`pc`, `job`,
`token`, `snap`, `taken`). Time is relative: a `Tick` makes every due time one nearer and every lock one
older.

| Action | Code |
| --- | --- |
| `InsertJob`, `LookUpDuplicate` | `enqueueJob`, its insert and, after P2002, its lookup |
| `StartTick`, `ClaimNextJob`, `EndTick` | one poll; the claim is a serializable transaction that takes the earliest claimable row and writes a fresh lease |
| `HandlerCompletes`, `HandlerThrows`, `DeferJob` | the handler, outside any transaction; courtesy mail may be held until the allowance resets |
| `MarkJobSucceeded`, `MarkJobFailed` | the outcome, written only where the row still has the worker's lease |
| `MarkSucceededThrows`, `MarkFailedThrows` | the outcome's update is refused by the database, or committed and its answer lost |
| `StopJobWorker`, `Exit`, `Crash`, `StartJobWorker` | shutdown, loss and start of a process |

Lease tokens are a finite set and a claim takes one that no worker remembers for the row, which is what a
random UUID gives. The bounds are `Horizon` (how far back availableAt is told apart), `MaxFaults` (crashes,
shutdowns, failed updates and overruns together) and `MaxDeferrals`.

Fairness (`Fairness`, which `EveryJobSettles` needs and nothing else does) is weak for time (`Tick`), for the polling
interval (`StartTick`, `EndTick`: `setInterval` keeps firing), for an awaited handler that returns (`Work`), and for a
stopped process that ends and that its orchestrator starts again (`Exit`, `StartJobWorker`). It is strong for
`ClaimNextJob`, one per worker: a row stops being claimable whenever another worker takes it and becomes claimable
again when its lease lapses, and the query, which runs every tick, takes the oldest available row, so a tick that
finds a row over and over claims one. Nothing is assumed of crashes or failed updates; they are bounded by
`MaxFaults`. With no worker running a job would wait for ever, so the property does depend on the restart.

## TournamentEntry: registrations, capacity and payments

State: `reg`, one row per entrant (status, fee, time left of reservedUntil, slot, waitlist position, hold,
verification, sum of the roster's answers); `pay`, the payments in the order they are created, with proof and
the reports already seen; `form` and `desk`, what an entrant's and a staff request read before
their transactions; `waived`, an observer that remembers whose fee staff waived.

| Action | Code |
| --- | --- |
| `Register` with `Admit`, `Enqueue` | `createConfiguredRegistration` without a registration |
| `LoadEntry`, then `ResumePayment`, `RetryEntry` or `RetryIntoWaitlist` | the same with one: the first read picks the path, the transaction re-checks only part of it |
| `CancelUnpaidRegistration` | `cancelUnpaidRegistration` |
| `RosterAnswers` | `refreshRegistrationVerificationStatus` after an answer |
| `Notify` | `processPayHereNotification`, with `NotProcessed` (the digest), `NotifiedStatus` and `Settled` (`applyTargetStatus`) |
| `AcceptPayHere`, `MarkRefunded` | `reconcilePayHerePayment` |
| `SubmitBankTransferProof`, `ApproveBankTransfer`, `RejectBankTransfer` | `bank-transfer.service.js` |
| `ReopenExpiredPayment`, `ExpireReservation` | reopening by staff; expiry by commerce maintenance or a status read |
| `LoadForStatus`, then `StaffWaitlists`, `StaffPromotes`, `StaffRejectsFromWaitlist`, `StaffSetsStatus` | `updateTeamRegistrationStatus`: the branch is picked from a row read before the transaction |
| `StaffVerifies`, `WaivePayment` | its verification-only and override branches |
| `ReserveAdminSlot`, `ReleaseAdminSlot`, `DeleteTeamRegistration` | `admin-registrations.service.js` |
| `Tick`, `DropForm`, `DropDesk` | time; a request refused, timed out or lost with its process |

Atomicity. A serializable transaction that is retried is one step. The three that are not serializable
(expiry, deletion, release of a hold) are conditional writes and are one step each. Every read that a request
makes before its transaction, and whose result it uses inside, is a step of its own, so that anything may
happen between. What a request reads before and re-reads inside is not kept.

Abstractions. Amounts, names, forms and mail are left out. Time left is in ticks. A registration
window, duplicate names, and a member who is coach and player of two teams only make a request fail, which
is a step not taken; only `Notify` does more on a role conflict (the payment goes to review) and has that
choice. A roster's answers are summed up in one of three values. The slot's price is not modelled, its number is.

A report (`Reports`) says what became of a charge: the digest by which the code recognises a repeated notification
covers status_code and payment_id, so a second charge of the same order, under a payment_id of its own, is a report that
was not seen before. It is acted on: after a refund, or on top of a paid payment, it puts the payment under review.

Bounds. `MaxPayments` payments and `MaxPosition` waitlist positions; each report once (a repeated one is recognised
and changes nothing); one entrant request and one staff request in flight at a time, against any number of complete
transactions of others; `Reports`, `StaffTargets` and `StaffVerdicts` restrict which reports are delivered and what
staff decide, to keep a run small. `entry_payhere` has two charges of each order and a chargeback of the first
(`TwoCharges`), `entry_queue` a charge that fails and then succeeds (`OneCharge`). The proofs are for any set of reports.

Fairness (`FairSpec`, for `ReservationsEnd` only): time passes, and the expiry of each reservation is weakly
fair. `lib/commerce-maintenance.js` runs every minute and goes through all elapsed reservations. Entrants,
staff and PayHere owe nothing. The property's premise is that a reservation is not renewed for ever, since an
entrant may resubmit and get a fresh deadline as often as the place is free.

## CommerceOrders: tickets, shop and their payments

State: `ev`, the event's status and capacity; `stock` of one product variant; `ord`, one row per order with its
payment and one of its tickets (kind, quantity, status, released for inventoryReleasedAt, time left of the
reservation, method, payment status, ticket status, checkedIn, and whether released stock was kept back);
`desk`, a staff request that has read its row.

| Action | Code |
| --- | --- |
| `CreateTicketOrder`, `CreateMerchandiseOrder` | `createTicketOrder`, with the capacity count `Reserved`; `createMerchandiseOrder`, with the conditional decrement of the stock |
| `SaveAdminEvent` | `saveAdminEvent`: the capacity never below what is reserved |
| `ExpireOrder` | `expireTicketOrderReservation`, `expireMerchandiseOrderReservation`, called by the sweep and when a buyer looks |
| `ProcessPayHereNotification` | `processPayHereNotification`: `ReportedStatus` and, in `Settle`, `applyTargetStatus` with `releaseOrderStock` (`ReleasedRow`, `StockAfter`) |
| `AcceptPayHerePayment`, `RefundPayHerePayment`, `ReconcileCash` | `reconcilePayHerePayment`, `reconcileCashTicketPayment` |
| `SubmitTicketProof`, `ReviewTicketProof` | `submitBankTransferProof`, `reviewBankTransfer` |
| `ScanTicket` | an accepted `scanTicket` |
| `DeskReads`, then `UpdateTicketStatus`, `FulfilOrder` or `CancelOrder` | `updateTicketStatus`, `updateAdminOrderStatus`: READ COMMITTED, the row is read, checked and written without a condition |
| `OpenProductForm`, `SaveAdminProduct` | the product form is loaded, and `saveAdminProduct` writes its stock |
| `Tick` | reservedUntil comes nearer |

Abstractions. All tickets of an order move together except under staff actions, so the record follows one of
them. Names, prices, mail, the content of codes and the audit of scans are left out; a refused scan changes
nothing. A repeated report changes nothing and is a stutter. Reissuing a code only decides which code is the
last, and `ScanTicket` is a scan of the last.

Bounds. Two orders, capacities 1 and 2, one place an order, one unit of stock, windows of one tick. Two
orders compete for one place or one unit; a capacity of two can shrink to one under them. A ticket order and a shop order
share no row, so a behaviour follows orders of one kind (`OneKind`). The run turns deadlock checking off: all
orders may be over.

Fairness (`FairSpec`, for `AbandonedOrdersEnd` only): time passes, and the expiry of each order is weakly fair,
as the sweep lists all lapsed orders every minute. The property leaves bank transfers out: a buyer may send
a proof again and again, each time with a new window.

## RosterInvites: invitations and verdicts

State: `saved`, the saved team's row of each invited person; `reg`, the registrations made from the team, each
with its status, its verdict (verificationStatus), whether a person set it, and a row per person; `ans`, the
answers whose transaction is open; `desk`, a nudge or profile edit that has read.

| Action | Code |
| --- | --- |
| `CreateSavedTeam`, `DeleteSavedTeam`, `RegisterTeam`, `SyncRegistration` | `createSavedTeam`, `deleteSavedTeam`, a registration's rows, `syncSavedTeamFromRegistration` |
| `AnswerOpens`, `AnswerCommits`, `AnswerFails` | `respondToInvitation` |
| `NudgeReads`, `NudgeWrites` | `nudgeTeamInvite` and the two resends by staff, with `reopenTeamInvite` |
| `ProfileReads`, `UpdateSavedTeam` | `updateSavedTeam`, with the corrected addresses it carries into open registrations |
| `Lapse`, `ExpireInvites` | a deadline passes; the sweep of `lib/data-hygiene.js`, one update per table |
| `CorrectRoster` | `correctTeamRegistrationRoster` |
| `StaffApproves`, `StaffSetsStatus`, `StaffVerifies` | `updateTeamRegistrationStatus` and the invitations an approval accepts |

`Refreshed` is `refreshRegistrationVerificationStatus` followed by `maybeAutoApproveRegistration`.

Atomicity. An answer is a READ COMMITTED transaction over several registrations. Between `AnswerOpens` and
`AnswerCommits` its own updates are locked and not yet visible to others, and it sees the other members' rows as
they were committed. The verdict of the registration it looks at first is decided at the start; those of the
others at the end. A SERIALIZABLE transaction that needs a locked row waits and is retried, so it is a step
that is possible while no answer holds its rows (`Quiet`).

Abstractions. Addresses are people; names, tokens and mail are left out. The registrations are those whose
captain can no longer submit them again: resubmission rewrites the roster and belongs to `TournamentEntry`. The
fee is paid or there is none. A team with two captains, and a change of captain, are left out.

Bounds. Two people besides the captain and two registrations. Beside the second registration nothing runs out of
time, no desk request is open and no verdict is set by hand (`SecondIsPlain`): it is there for answers that cover several
registrations, and everything else is explored with one.

## VetoRoom: the map veto of a match

State: `room` (status, revision, order and toss method, who controls it, the match's status before it, Team A,
winner of the toss, readiness, step, and the record of actions); `match`, the status of the match; `req`, the
request of each captain and each member of staff with the room it read; `seen`, the status of the match that a Challonge
sync under way has read.

| Action | Code |
| --- | --- |
| `CreateRoom`, `EnsureMatchVetoRoom` | `createRoom` by staff, the open room a match room provisions |
| `Reads` | every handler up to its transaction: it loads the room and checks status, access, turn and map (`StaffRequests`, `TeamRequests`) |
| `OpenRoom`, `ReadyRoom`, `StartRoom`, `AssignTeamA`, `TossRoom`, `ChooseTeamA`, `SubmitAction`, `RewindRoom`, `ResetRoom`, `CancelRoom` | the transactions, each beginning with `mutateRevision`, with `syncMatchStatus` |
| `DeleteRoom` | `deleteRoom`, which compares no revision |
| `Refused` | 409 when the revision moved, 404 when the room is gone |
| `UpdateMatch` | staff set the status of the match |
| `SyncReads`, `SyncWrites` | `syncSnapshotToMatches`: it reads the status before its transaction and writes it back in it, or what Challonge says |

What a transaction writes is computed from the room that was read, as in the code; that the revision makes the
two equal is what the record's invariant rests on. `Automatic` is `advanceAutomatic`: the decider takes the map
left. `turnDeadline` is stored and shown, but nothing in the code acts on it, so it is left out. Access grants
decide only who a captain is.

A sync that read `veto_in_progress`, and writes after the veto was completed or cancelled, leaves the match waiting again,
and every later sync keeps that as the site's own status until Challonge says complete. So do staff who set such a status by hand, and a room made on
a match that has one gives it back. `MatchNotLeftWaiting` is therefore about steps: no request to the room takes the
match from where it should be into waiting on a veto that is over; only those three do.

Bounds. Three maps and the preset ban, ban, decider, side, which has all kinds of step but the pick (the proofs
cover every preset `validateSteps` accepts); one referee, two captains and a sync for which the match is scheduled on
Challonge; two requests, or one and the sync, under way together, each request overtaken at most once (`TwoInFlight`);
six revisions, what a complete veto needs, and one room. Deadlock checking is off because revisions run out.

## ChallongeSync: the copy of a bracket

State: `bracket`, the versions Challonge has had; `status`, the fixtures' rows; `copied`, the version they were
written from; `conn`, whether the connection is automatic, the time to the next sync and the time left of the lease;
`over`, whether the tournament is completed; `edit`, the status an edit by staff has read; `veto`, the status a veto room
remembers; `job`, the queued sync; `sync`, how far each sync is and what it read.

| Action | Code |
| --- | --- |
| `SchedulerTick`, `SchedulerStops` | `claimDueIntegrationsForQueue`, then the enqueueing, with or without a stop between them |
| `StartSync`, `SkipScheduled` | the settings are read; a scheduled sync that has nothing to do ends |
| `ClaimSyncLease`, `AlreadyRunning` | the conditional update that takes the lease |
| `FetchChallongeSnapshot`, `FetchFails`, `ReadMatches` | the calls to Challonge; the fixtures' statuses are read |
| `SyncSnapshotToMatches`, `FinishSync` | the rows are written (`SyncedStatus`, `mapChallongeStatus`); the lease is given back, whoever has it, and the next sync planned |
| `SyncStops` | the process ends; the queue runs the job again and the lease runs out |
| `ReadsMatch`, `UpdateMatch` | `updateMatch`: it reads and checks, and later writes without a condition, also the status it has read |
| `MakesVetoRoom`, `VetoMovesMatch`, `CancelVeto` | `createRoom` remembers the status; `syncMatchStatus` moves it; `cancelRoom` restores it |
| `SaveAdminIntegration`, `Finalise`, `BracketMoves` | saved settings, the end of the tournament here or on Challonge, results on Challonge |
| `Tick` | time passes |

A sync may outlive its lease. `fetchWithTimeout` stops its timer at the headers, so bodies are not timed; a snapshot is
many requests, one after another; and nothing that a sync writes, neither the rows nor the lease it gives back, asks
whether the lease is still its own. The field `late` is history and no column: a sync is late when its lease ran out
or was cleared under it (`Outlived`), or when it took the lease while a late one was still at work. A late sync may
write an older version over a newer one. `NeverBackwards` says that only a late one does.

Atomicity. The rows are written in one transaction. Two such transactions of one integration do not interleave: both
begin with the upsert of the same participants, and the second waits there for the first. A fetch of several pages is
one read of the bracket. The table has one queued sync of an integration, as its dedupe key allows.

Bounds. One fixture, three versions of the bracket, one fault, a lease of two ticks, a manual sync beside the scheduled
one: two syncs are what it takes for one to be late and the other to be over it, or to come after it. Edits and vetoes
are explored beside the scheduled sync alone, within its lease, without faults and on an automatic connection
(`OneSyncInHand`); edit, veto and sync have then all read the fixture and may write it in any order.

Fairness (`Fairness`, for `FixturesConverge`): time passes, the scheduler keeps ticking, the queue runs what is
queued (which `EveryJobSettles` of `JobQueue` is about), and a sync under way goes on: every request is answered
or fails in the end, however late. Nothing is assumed of faults, staff or Challonge. The premises are that a sync is
planned (a manual connection, or a tournament finalised from here, has none), and that no late sync is still at work
when the bracket is final: such a one may write an old version after the last sync that is planned, and nothing
repairs that until staff ask for one.

## Accounts: ways into an account

State: `acct`, the users with address, pending address, whether there is a password, and Discord tag; `owner`, whose
each provider identity is; `links`, the mailed links by number; `asked`, the OAuth link nonces not used yet; `desk`, the
requests that have read and not yet written.

| Action | Code |
| --- | --- |
| `CreateSignup`, `UpdateAdminUser`, `DeleteAdminUser` | accounts made by sign-up or staff, edited, deleted with their rows |
| `RequestPasswordReset`, `ResetIssued`, `OpensReset`, `ResetPassword` | `requestPasswordReset` with `issueUserToken`; `resetPassword` up to the hash and its transaction |
| `AsksEmailChange`, `RequestEmailChange`, `OpensChange`, `ConfirmEmailChange` | `requestEmailChange` and `confirmEmailChange`, check and transaction |
| `ExpireLink` | a link runs out |
| `SignsIn`, then `RenamesTag`, `JoinsIdentity` or `CreateOAuthUser` | `findOrCreateOAuthUser` |
| `AsksToLink`, `ClaimsLink` | `createOAuthLinkAuthorization`, `handleOAuthLinkCallback` |
| `UnlinkOAuthProvider` | `unlinkOAuthProvider`, SERIALIZABLE |

Abstractions. A password is there or not; hashes, sessions, verification links, mobile grants and rate limits
are left out: they are conditional writes on rows that nothing here decides on. A user id is never used again.

Bounds. Two users, two addresses, a Discord and a Google identity, two requests under way, two links. An OAuth link
that was asked for counts as a request under way, and there is one at a time (`OneNonce`). Users, addresses and
desks are interchangeable. Deadlock checking is off: links run out and all accounts may be deleted.

## RealtimeTransport: live updates

With more than one API process, an event published in one reaches the browsers of another through a channel of an
external provider. Each process holds one long request to it; when that ends, it is made again.

State: `sub`, each call of `subscribe` with the await it is at and the physical request it made; `running`, `gen`,
`timer`, `barrier`, `poisoned`, the transport's own variables (`generation`, `reconnectTimer`, `subscriptionBarrier`,
`poisonedSubscriptionBarrier`); `starting`, `stopping`, `awaited`, a start and a stop under way; `shared`,
`everConnected`, what the service remembers; `conn`, each browser's stream, `draining`; `stale`, the open streams that
have not been given an event published so far.

| Action | Code |
| --- | --- |
| `StartCalled`, `StartAfterStop`, `StartAfterBarrier`, `StartGivesUp` | `start`, one step between two of its awaits |
| `StopCalled`, `StopReturns` | `stop` up to its first await, and its end |
| `FireReconnect`, with `Begin` | the reconnect timer; `beginSubscription` |
| `FetchAnswers`, `FetchFails`, `BodyRead`, `DeadlinePasses` | `subscribe`: the response, a rejected fetch, an error's body, the connection deadline |
| `Acknowledged`, `MessageArrives`, `StreamEnds`, `ReadStops`, `CloseReturns` | `consumeStream`: the acknowledgement, a message, the end of the stream, and its cleanup |
| `Retire` | every end of `subscribe`: the barrier, `reportFailure` and `scheduleReconnect` |
| `Connect`, `Authorized`, `Leave`, `DrainRealtimeConnections` | `getRealtimeEvents` before and after its authorisation, the stream's end, the drain |
| `GoesSlow`, `StreamBreaks`, `CancelEnds`, `CancelFails`, `PeerPublishes` | the provider, the network and another process |

Atomicity. JavaScript runs one continuation at a time, so what runs between two awaits is one step. A call of
`subscribe` is a member of `Subs` and lives on after its deadline and after stop, until the network lets go of it:
an abort is advisory, as the code says itself.

Abstractions. Messages have no content: `inbox` says that one is on its way, and the reconciliation that the service
sends after an interruption gives every open stream what it missed. Parsing of frames, size limits and the delay
before a reconnection are left out, as are topics, which only decide who may listen. A publication that fails is
logged and lost, by design; in the model that is a peer which does not publish. The heartbeat is a write that may fail
(`Leave`).

Bounds. Three names for calls of `subscribe`, used again once settled, so that an old call, its replacement and the
one after it exist together; two starts, three failures; two browsers of one address, of which one may have a
stream. The limit over all addresses is not reached in the run and is covered by the theorem.

Fairness (`Fairness`, for `Reconnects` only): timers fire, promises that have settled continue, and of the network that
a request which is not slow is answered, an aborted one settles, a stream that ended is read to its end, and a
cancellation settles. A request that ignores its abort for ever holds the barrier for ever, on purpose. `Reconnects`
leaves out a transport with a failed cancellation, which the code does not reconnect until its process restarts.

## The runs

| Run | Question | Bounds, and why they are enough |
| --- | --- | --- |
| `jobs` | leases, keys, outcomes, refinement of `JobLedger`, does every queued job settle | two calls with one key, one of which may be held, two workers, one fault: a stale owner, a new owner and a twin exist together |
| `entry_payhere` | money, capacity and refunds under PayHere | two entrants for one place, two payments of up to two charges: both may belong to one entrant (an old and a new one) or to rivals |
| `entry_slots` | numbered slots and automatic approval under bank transfer | two teams, two slots: a slot can be held, quoted, released and given again |
| `entry_queue` | order of the waitlist, do reservations end | two entrants for one place and a waitlist of three positions, so that rows leave gaps and return; reservations of two ticks, so that expiry can be early, late or forestalled |
| `orders` | capacity, admission, money, stock, do abandoned orders end | two orders for one place, or one unit |
| `rosters` | verdicts, accepted places, staff's decisions | two people, two registrations |
| `veto` | the record, turns, and the match's status | two captains, one referee, three maps, one sync: a status read in a veto outlives it |
| `challonge` | which bracket is shown, does the copy catch up, what status a fixture may have | two syncs, three versions, one fault: a late sync meets one that is not; one fixture written by a sync, an edit and a veto, as with more each row is still written by itself |
| `accounts` | a way in, which link counts | two accounts, two addresses, two requests under way |
| `realtime` | does a reconnection overlap, is anything missed, who gets a stream, does it reconnect | three calls of subscribe, three failures, two starts, two browsers |
| `entry_waiver`, `rosters_verdict` | the next section | the smallest instance that shows each |

`RegSymmetry`, `RosterSymmetry`, `MapSymmetry` and `Symmetric` permute values that the modules treat alike; runs
with a liveness property use none. Deadlock checking is off in `orders`, `veto` and `accounts`, where a
behaviour may be over (all orders done, revisions or links used up).

What the passing runs say beyond types:

- `jobs`: a stale worker can never overwrite the outcome of the worker that took over (`LeaseOwnership`); a retry
  never frees a key that a second call could take while the first is alive (`OneLiveRowPerKey`); the queue
  implements `JobLedger` (`KeepsLedger`), so that success means delivered and an outcome is final; every job settles
  (`EveryJobSettles`).
- `entry_*`: no order of notifications, reviews, expiries and reopenings leaves an entrant paid without money or
  a waiver (`PaidIsFunded`; a payment that was paid and is under review for a second charge is money); a refund stands
  until a new charge is reported, which is for staff to review (`RefundStands`); the last place is given once, except by the two
  staff decisions that do not count, and every other step is one of `TournamentPlaces` (`OnlyStaffOverfills`); a held
  or reserved slot is not given to a second entrant (`SlotsStayApart`); no waiting entrant overtakes another (`QueueOrderKept`); an entry that approves itself is never
  left complete and pending (`CompleteIsApproved`); an unattended reservation gives its place back (`ReservationsEnd`).
- `orders`: paid and waiting orders never exceed the event (`NeverOversold`); a ticket lets one person in once
  around any cancel, restore and scan (`AdmittedOnce`); paid money and paid orders go together
  (`TicketMoneyMatchesOrder`); stock leaves and comes back once for each order (`StockMovesWithHolds`); late money never
  revives what was given back (`ReleasedStaysReleased`); an unpaid order ends (`AbandonedOrdersEnd`).
- `rosters`: verified means accepted by everyone (`VerifiedMeansAccepted`); an accepted place is not reopened
  (`SeatKept`); an answer under way does not overrule staff (`DecisionsStand`).
- `veto`: the record is the preset carried out so far (`RecordFollowsSteps`); a captain's choice lands on their own
  turn (`TurnsKept`); no request leaves the match waiting for a veto that is over (`MatchNotLeftWaiting`).
- `challonge`: no sync but a late one puts an older version over a newer one (`NeverBackwards`);
  the rows catch up (`FixturesConverge`); whoever writes them, the rows are the fixtures of the version copied last, and
  a status that is not the site's own is one Challonge has given that fixture (`RowsFromBracket`).
- `accounts`: no unlink leaves an account without a way in, around links, resets and sign-ins under way
  (`EveryoneCanSignIn`; the unlink is one serializable transaction, so this is the guard it has); an address becomes the one last asked for
  (`OnlyTheAddressLastAsked`).
- `realtime`: a reconnection begins only after the request it replaces has settled (`ReconnectNeverOverlaps`); an open
  stream hears of every event or is told to read everything again (`NothingMissed`); streams stay within the limits
  and none outlives the drain (`StreamsAdmitted`); a lost connection comes back (`Reconnects`).

## Where documentation and code disagree

Two have a run that ends in a counterexample; `PROJECT.json` quotes the text under "findings".

- `entry_waiver`. `docs/admin-operations.md` says that approving without payment cannot bypass capacity. The count is
  skipped when the row has a slot number, and a reservation that has elapsed keeps its number until the sweep.
- `rosters_verdict`. `registration-verification.js` says the verdict cannot drift from the answers it is made of.
  Two members who accept at once each read the other as pending, and nothing recomputes the verdict afterwards.

Other behaviour met while modelling, which the models contain and no property forbids:

- Job queue: a row whose lock timed out is claimed again whatever its count, so it can be delivered more often than
  `JOB_WORKER_MAX_ATTEMPTS`, which `docs/email-system.md` calls the maximum of delivery attempts.
- Registrations: the expiry sweep, and an entrant's next attempt, turn payments in review into expired ones, so money
  that came late can be neither accepted nor marked refunded; a resubmission that read a pending registration
  undoes a rejection made meanwhile; approval checks the fee on a row read before its transaction, so a
  chargeback in between leaves an unpaid registration approved; refunding a superseded payment marks the registration
  unpaid although another payment has paid for it.
- Shop: a staff request that found an order unpaid cancels it after its money came, because only the release is
  conditional; a fulfilled order can go back to processing, and a chargeback then restores stock that was shipped;
  the product form writes the stock it was loaded with.
- Saved teams: a profile edit loaded before an answer writes the member back to pending on the saved team; the
  registration keeps the answer (`SeatKept`).
- Veto: a rewind does not look at the room's status, so a cancelled room can be put in progress. `veto.service.js` says
  live rooms must be cancelled before they are deleted, but `deleteRoom` checks the status before its transaction and
  compares no revision: a draft room that another member of staff opens in between is deleted live, and its match
  stays `veto_starting_soon`. For this reason `MatchNotLeftWaiting` is checked and proved for one referee.
- Registrations: a second charge of a paid order puts its payment under review while the registration stays paid, and one
  of a refunded order puts it under review from which staff may accept it, though the first charge was given back.
- Challonge: `updateMatch` refuses staff the state of a linked fixture ("Challonge owns the upstream match state"), but lets
  through the status it has read and saves that in a second statement, so an edit of a fixture's station undoes what a sync
  wrote meanwhile, until the next sync. A sync that outlives its lease, or whose lease a scheduled run clears because the
  tournament is completed, goes on beside the next one, may write an older version over a newer, and gives back a lease that is not its own.
  Cancelling a veto on a linked fixture restores the status from before the room, whatever Challonge said meanwhile. A
  sync writes back a status of the site's own that it read before its transaction, so a match may wait again on a veto
  that has ended.
- Accounts: a sign-in that read an identity before it was unlinked still writes its Discord handle, and the profile
  keeps a handle nobody vouches for.
- Realtime: a start after a stop may overlap the old request, in two ways. A stop before the acknowledgement cancels the
  stream; the error path then asks for a cancellation again, after the reader was let go, and the task it gets
  replaces the one under way, so nobody waits for it. And a cancellation that fails while start waits for the barrier
  puts another barrier in its place, which start takes for the old one being gone. The server starts and stops its
  transport once, so neither happens there; `ReconnectNeverOverlaps` is about one run of the transport.

## The proofs

All theorems are for every number of jobs, workers, entrants, orders, people, accounts, maps and steps, and every value
of the other constants allowed by the ASSUME of the module, which the runs evaluate too.

`JobQueueProofs`. The inductive invariant is `TypeOK`, `HandInv` (what a worker has in hand fits what it is
doing) and `LeaseInv` (a lease is set exactly while its row is processing; two workers never remember the same
lease of a row; the holder of a lease knows the row's attempts). The middle part is what makes `LeaseOwnership`
inductive: a claim takes a token nobody remembers (`FreshToken`), and outcomes are written only by its
holder (`WriteOutcome`). On top, `KeyInv` (a live row with a key holds it) and `DeliveryInv` (a worker about to
write a success has delivered) give `OneLiveRowPerKeyHolds`, `SucceededWasDeliveredHolds` and
`FailedOnlyWhenExhaustedHolds`. `TerminalIsFinalHolds` is a step property from the same invariant, and
`KeepsLedgerHolds` proves the refinement: initial states map to initial states and every step of the queue is a
step of the ledger or a stutter.

`TournamentEntryProofs`. `IInv` joins three parts. `RowInv` holds of each row: a running reservation is a pending one,
a waiting row has a position, a hold is a slot of the tournament, and a running bank-transfer reservation has its
slot. `PayInv` holds of each payment: PayHere's money was announced by a report of a charge that was paid, and a
payment exists only where there is a fee. `RequestInv` types what requests remember. One lemma per
action shows that it is kept, with lemmas for the helpers (`SettledRow`, `AutoApprovedRow`, `CompactedRows`, `RetiredPays`, `SlotRange`). From it:

- `TypeCorrect`, `WaitlistedHasPositionHolds`, `BankReservationNumberedHolds` follow at once.
- `PaidIsFundedHolds`: `PaidIsFunded` is inductive relative to `IInv`. `StillFunded` says that a step which keeps the
  payments an entrant's place rests on (`Funds`) and does not mark the entrant paid cannot take the money away; each action
  is such a step, or marks the entrant unpaid, or brings the money. The delicate case is a paid payment that receives a
  report: it stays paid, or is reversed with its registration, or the report is of a charge other than the one that, by
  `PayInv`, was paid already, and these two charges are what `Funds` asks of a payment under review.
- `RefundStandsHolds`: a report changes a refunded payment only if it says paid and was not seen before, and then it is a
  charge more. Every other action leaves refunded payments alone or deletes them with their registration.
- The capacity (`NextCapacity`): `CapacityCountsOccupants` shows that active plus held minus both is the number of
  other entrants with a place, `RoomForOne` that one more fits after the check, and every action but the two
  exceptions either checks first or gives nobody a place.
- `SlotsStayApartHolds`, `CompleteIsApprovedHolds`, `QueueOrderKeptHolds` share one argument. `HandlesOrderly` is all a
  step may do: write one row, and compact the queue if that row leaves it (`LeavesQueue`). The row that is written gains
  only slots that were free (`TakesFreeSlots`), does not become complete and stay pending (`LeftForNobody`), and keeps its
  position or takes the next one (`StaysInLine`). `EntrantOrderly`, `StaffOrderly`, `PaymentOrderly` and `ExpireOrderly`
  show this of every action. A slot that was free belongs to nobody else since `UsedSlotsArePlaces`: what the allocation
  avoids is exactly the places of the other entrants. Compaction keeps the order because only the rows behind the gap
  move; two rows could meet on the freed position alone, and the unique index refuses that (`CompactionKeepsOrder`).
- `OnlyStaffOverfillsHolds` joins the two: a step that staff do not force writes one row, so it lets one entrant in
  (`OneRowPlaces`, with the room that `CameInWithRoom` derives from the capacity), changes one entrant's slots, or gives
  places up, and each of these is a step of `TournamentPlaces`. `ImplementsTournamentPlaces` is the refinement: as long as
  staff force nothing, every behaviour of `TournamentEntry` is one of `TournamentPlaces` under the mapping that reads the
  entrants inside and their slots off the rows.
- `UnforcedCapacity` and `UnforcedSlots` turn capacity and slots into statements about every state: as long as staff
  do not take one of the two decisions that skip the count (`[][~StaffForces]_vars`), the entrants with a place never
  outnumber `MaxTeams`, and no two entrants have the same slot.

`CommerceOrdersProofs`. `IInv` is `TypeOK`, `Row` for each order and `DeskNamed` (a staff request works on an order of
the kind its task is for). `Row` is `TicketMoneyMatchesOrder` for one order, with two parts that make it inductive: a
bank transfer that lost its places is over, so no review can accept it, and a shop order is paid through PayHere, so
no review or cash desk touches it. Each action changes one order (`OneOrder`) to a row that satisfies `Row` and
`Follows`, which is what no step does to an order: revive what was released, or admit twice. `TypesHold`,
`MoneyHolds`, `OneAdmission` and `NothingRevived` follow.

Places and stock are sums over all orders. `Units` counts them one by one, as pairs of an order and a number up to its
quantity, because the theorems on folds take an operator as a parameter, which the provers cannot instantiate, and those
on cardinality do not. That the count is the sum is proved: `TotalOfOne`, the total of one order is its quantity, and
`TotalAdds`, totals of disjoint sets add up. It needs finitely many orders, which is assumed.

- `PlacesSuffice`: `NeverOversold` is inductive with `Stands`: a ticket order whose money is open or under review still
  waits for it, so a payment that comes in turns places that are counted already into paid ones, or is checked against
  what is left (`Accounted`, `AccountedKeeps`). `Stands` was checked on small instances before it was proved.
- `StockBalanced`: each action moves as many units between the stock and the order it is about (`Booked`, `HoldsBalance`).
- `StockNeverNegative`: a product form only ever writes a stock that there was (`StockInv`).
- `NoMoreSoldThanStock`: as long as no product form is saved, stock and held units add up to the first stock; with the
  stock never negative, orders hold no more than that.

`RosterInvitesProofs`. `VerifiedMeansAccepted` is not inductive because an answer carries a verdict from before its
commit. `AnswersHold` says what that verdict rests on while the answer is open: it is verified only if every other
row of that registration has accepted, and these rows stay so until the answer ends, because everything that would change
them waits for its lock, is another answer, or cannot reopen an accepted row. With `NudgesNamed` (a nudge names a
person) it gives `TypesHold`, `VerifiedRosters`, `SeatsKept` and `DecisionsKept`.

`VetoRoomProofs`. `RevisionNames` says that of one room, equal revisions mean an equal room. So what a request computed
from the room it read is right for the room it writes (`LandsOnWhatItSaw`). `Passed` keeps the checks a request
passed, and `Sound` is the record: rows numbered 1 to the step, of the preset's kinds, with distinct maps. From it
`RecordFollows` and `TurnsAreKept`, for every preset that `validateSteps` accepts. `NoMatchLeftWaiting`
assumes one member of staff, for the reason given above, and any number of syncs. It adds `DeletesDead`: a deletion under way is of a room that is still one to delete, since captains move live rooms only and the referee is busy
deleting. So each request that ends a room also moves the match out of waiting, to the status the room was made on at
worst.

`ChallongeSyncProofs`. Beside `Typed` there are two inductive parts. `RowsInv`: the status of a row, and whatever an edit,
a veto or a sync has read to write later, is the site's own or one Challonge has given the fixture so far, which grows with
the bracket (`KnownGrows`, `RowsGrow`), and an edit or a veto has a row; this gives `RowsComeFromBracket`. `Alone`: a sync
that is not late works alone, under a lease that is not over, and what it fetched is no older than the rows. It is kept
because whatever takes the lease from under a sync makes it late, and a sync that starts beside a late one is late
too (`OutlivedGiven`). `BracketNeverBackwards` and `LeaseExcludesOthers` follow. They do not say that the lease lasts long
enough; they say that nothing but its running out, or its being cleared, lets two syncs work at once.

`AccountsProofs`. `Typed` (with `DesksNamed` and `LinksNamed`: requests and links name a user) gives `TypesHold` and
`EveryoneSignsIn`. `LinksCurrent` says that a live address-change link is for its account's pending address and that a
request which opened a link carries the link's account and address; `LinksKept`, that no step alters or revives a mailed
link. Consuming asks for a live link, so `OnlyTheLastAddress` follows.

`RealtimeTransportProofs`. `IInv` has, beside the types, `Apart` (two unsettled calls are never of one generation, and
none is of the current one while a reconnection is scheduled), `Cancelled` (a call that waits for its cancellation has
no other request, and one that cannot be cancelled has poisoned the barrier), `Phases` (a start or stop under way means
not running) and `Reported` (the service takes the transport for connected only after an acknowledgement). `Apart`
needs the others: a call schedules a reconnection when it ends, and they say that its request has ended too.
`Continues` sums up what any step of a call comes to, so that the invariant is shown once for all of them.
`ReconnectsNeverOverlap` follows; `NothingIsMissed` is inductive relative to it, with `Carries` for the steps that
subscribe nobody and take no message; `StreamsAreAdmitted` counts one more stream only where there is room.

Proved, and without a run of their own: `TerminalIsFinal`, `SucceededWasDelivered`, `FailedOnlyWhenExhausted`,
`WaitlistedHasPosition`, `BankReservationNumbered`. The first two are part of what `JobLedger` promises, and the run that
checks `KeepsLedger` checks them with it.

Only model-checked: the liveness properties (`EveryJobSettles`, `ReservationsEnd`, `AbandonedOrdersEnd`,
`FixturesConverge`, `Reconnects`), because liveness under fairness and ENABLED are beyond the prover used. Every
invariant and action property that a passing run checks is a theorem. The free-entry tournament
(`FeeCharged = FALSE`) is covered by the proofs and not by a run of its own.

## What is not modelled

- Job queue: the day's count of courtesy mail; the model lets such mail be held or sent at any time.
- Registrations: edits of a registration's roster, seed and saved team by staff (no column of `TournamentEntry`; the
  roster is in `RosterInvites`), the snapshot of the roster at approval, proof files, receipts, audit rows and mail; the
  statement-level check of the waitlist's unique index during compaction.
- Tickets: reissuing a code, the reports and exports. Shop: categories and images; a product that is deleted.
- Invitations: a team with two captains, a changed captain, a resubmission that rewrites the roster.
- Match rooms: membership, chat and support requests are records on which nothing else decides.
- The bracket document: a result is read, changed and written back at READ COMMITTED, so two results at once can lose
  one. With one document and nothing to relate it to, a model would only restate this.
- Challonge: participants and results sent there, the cached snapshot, a connection whose identifier is changed to
  another bracket, and a completed tournament that staff reopen. Matches that are deleted under a veto room.
- Sign-in: sessions, verification links and the mobile grant are single conditional writes.
- Realtime: topics and the content of messages. Shutdown: the order of the steps after the drain, and the deadline.
- Game accounts, notifications, support: records with an event key; rankings and statistics: copies that overwrite by
  key; cache, permissions, content: checks that only refuse, single rows; `frontend/`, `mobile-admin/`: clients, every
  rule they show is enforced by the API; `valorant-platform-backend/`, `ops/`: separate programs without shared state.

## Plan

1. `RosterInvites` composed with the resubmission of `TournamentEntry`, and a change of captain.
2. `VetoRoom` with a best of three, and with two rooms one after another.
3. Game account changes with their reviews, and shutdown as the composition of what each component does on a signal.

Totals are counts of sets and nothing is recursive, so that theorems stay within reach.
