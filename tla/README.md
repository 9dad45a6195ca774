# TLA+ models of agenda-back

Agenda-back is the backend of a multi-tenant appointment book: one Node process
(NestJS), MongoDB for the data, Redis with a Bull queue for reminders, and two
message providers (Evolution for WhatsApp, Brevo for email). Handlers are
`async`, so everything they do interleaves at every `await`, and what one
handler does is spread over MongoDB documents, transactions, queue entries and
services of others that fail separately. These modules model that: who may
overwrite whom, what a crash or a failing call leaves behind, and which of the
promises of the documentation survive it.

## Inventory

| Component | State | Operations that change it | Interacts with |
|---|---|---|---|
| appointments | the collection of appointments | `create`, `createPublicByTenantSlug`, `reschedule`, `cancel`, `confirm`, `markNoShow`, `updateNotes`, `remove` | availability (asked first), catalogue (looked up), notifications (schedule, cancel, announce), audit, sockets |
| reminders | `ReminderJob` documents; Bull jobs | `scheduleReminders`, `cancelReminders`, `handleReminder` | reads appointments and tenants; sends through WhatsApp or email |
| event emails and messages | none of their own | `sendAppointmentEventEmails`, `sendAppointmentEventWhatsApp` | read appointment, catalogue and administrators after the write |
| password reset | `passwordHash`, `resetPasswordVersion`, `isActive` of users; signed links in mailboxes | `forgotPassword`, `resetPassword`, `changePassword`, `update`, `remove` | email |
| availability | one document per professional: weekly rules, exceptions | `setAvailability` | answers `isSlotAvailable` for appointments |
| accounts | users, unique by tenant and email | `register`, `create`, `createSuperAdmin`, `findOrCreateClientForTenant`, `update`, `remove` | public booking creates accounts |
| WhatsApp instance | `whatsappConfig` of the tenant; the instance at Evolution | `createInstance`, `deleteInstance`, `getInstanceStatus` (writes what it polled), `handleConnectionUpdate` | webhooks from Evolution; `sendText` reads it |
| tenants | settings and profile | `create`, `update`, image uploads | shares its document with the WhatsApp instance |
| professionals, services | catalogue with references between the two and to users | create, update, add and remove service, remove (two writes each) | appointments and availability refer to them |
| audit, email client, gateway, cloudinary | append-only log; none; socket rooms; none | `log`; sends | called by the handlers, errors mostly swallowed |

What is hard in it:

- *Concurrency.* An overlap check and the insert it protects are in one MongoDB
  transaction, but snapshot isolation does not make a read and somebody else's
  insert conflict. `cancel` and `remove` work on copies. A reminder document is
  written by its scheduler, by cancellers and by the worker; the tenant's
  document by forms, polls and webhooks.
- *Failure.* Side effects (reminders, audit, messages) follow the commit one by
  one; any of them may throw. MongoDB, Redis and Evolution are not joined by a
  transaction, and neither are the two writes of each removal in the catalogue.
- *References.* Nothing enforces them. What an appointment refers to may be gone
  by the time a handler, or the query of an email, looks at it.
- *Order and time.* Queue entries fire at any time after they are due, retries
  and stalled jobs run twice what was done once, webhooks arrive late and out of
  order, links expire, the clock moves between a check and the write it allowed.

What makes each part correct: appointments, that bookings do not overlap beyond
what the transactions can see, answers and audit match the effect, deleted
appointments stay deleted, sessions are returned; reminders, that they go out a
bounded number of times, never long after a cancel, that records are true and no
document is stranded; announcements, that they go to exactly those concerned and
never tell old news; password reset, that a link works once and never on an
inactive account; availability, that a slot is accepted exactly in working time;
accounts, one per address; the tenant's document, that it says what is true of
the instance and that forms keep their fields; the catalogue, that what is
offered and booked was there.

## Modules

| Module | Models | Proofs | Instance |
|---|---|---|---|
| `Booking` | the eight operations of `AppointmentsService` | `BookingProofs` | `MCBooking` |
| `BookVersions`, `AppointmentBook` | `Booking` with its past written down, and what its handlers promise together | `BookingProofs` | `MCBookVersions` |
| `Reminders` | `scheduleReminders`, `cancelReminders`, `handleReminder`, the queue | `RemindersProofs` | `MCReminders` |
| `Catalog` | professionals, services, accounts and what refers to them | `CatalogProofs` | (with the next) |
| `Announcements` | emails and WhatsApp messages of events, composed with `Catalog` | `AnnouncementsProofs` | `MCAnnouncements` |
| `PasswordReset`, `ResetLedger` | reset links, and what they promise | `PasswordResetProofs` | `MCPasswordReset` |
| `Accounts`, `Directory` | the creators of accounts, and what they promise together | `AccountsProofs` | `MCAccounts` |
| `Availability` | the schedule and the decision on a slot | `AvailabilityProofs` | `MCAvailability` |
| `Tenants` | the tenant's document, its WhatsApp instance and webhooks | `TenantsProofs` | `MCTenants` |

### Booking

One action per step between two awaits of each handler. A request `r` moves
through `pc[r]`; `loc[r]` is the in-memory copy read by `findById`, `want[r]` the
slot computed from it, `resp[r]` the HTTP answer. `appts` is the collection; the
appointment inserted by request `r` is called `r`, so that ids need no generator.

MongoDB is modelled by what the handlers rely on. `commits` numbers the writes,
`snap[r]` is the snapshot a transaction reads from, `stamp[a]` the last write of
document `a`. The overlap check, the `findByIdAndUpdate` of `reschedule` and its
commit are separate steps, so everything can happen between them. From the second to
the third (`pc[r] = "commit"`) the transaction holds the document (`Held`). Another
transaction that wants to update it is refused, also if the first never commits, as
is one whose document was written after its snapshot (`WriteConflict`);
`withTransaction` then starts the callback again (`TxnRetry`), and it does so for any
other transient error of the write or the commit, in all three operations
(`TxnTransient`). Writes outside transactions wait for a held document. An insert
has a fresh id and meets nobody, so it is one step with its commit.

A call that fails has written nothing (`Fail`), or it has and its reply is lost
(`ReplyLost`, which `doubt` remembers): then the handler ends with an error as if it
had not. `auditService.log` swallows the error of an insert that fails (`unlogged`),
so that the handler goes on without the entry; `audited` is the entries that are
there.

| Actions | Code |
|---|---|
| `CreateValidate`, `TxnFind`, `TxnInsert`, `ScheduleReminders` | `create`, `createPublicByTenantSlug`; the two differ in what they check and in whether the audit entry precedes the reminders (`AfterWrite`, `AfterAudit`, `AfterRemind`) |
| `ReadTarget`, `RescheduleCheck`, `TxnFind`, `TxnWrite`, `TxnMove` | `reschedule`: the checks, the transaction, its commit |
| `TxnRetry`, `TxnTransient` | `withTransaction` runs the callback again |
| `ReadTarget`, `CancelCheck`, `CancelSave`, `ClearReminders` | `cancel`; `save()` sends only differences from the copy `loc[r]`, which stays as it was read, and throws for a document that is gone |
| `ReadTarget`, `ClearReminders`, `Delete` | `remove` |
| `UpdateInPlace` | `confirm`, `markNoShow`, `updateNotes` |
| `Audit`, `Answer` | the common tail; only `reschedule` reads again before it answers |
| `Fail`, `Crash` | a rejected database call; the death of the process |

`jobsFor[a]` abstracts the reminder documents to the starts they count back from;
their life is in Reminders, and the messages at the end of the handlers are in
Announcements. The history variables (`wrote`, `slotAt`, `slotSnap`, `solid`, `doubt`,
`unlogged`) are read by properties only; `faults` counts transient errors, lost
replies and failed audit inserts against their bound.

### BookVersions and AppointmentBook

`AppointmentBook` is the abstract promise of the handlers. The book goes through
versions, one entry changing at a time; each request changes it at most once, as a
whole. Whoever takes a slot (`TakeSlot`, in `Insert` and `Move`) has found it free in
one version, not older than the request and not necessarily the latest, and the
entry it writes is as it was in that version. That is snapshot isolation without
its mechanism: no handlers, transactions, retries, errors or crashes. It allows
finding 1, which is what the code does, and rules out a check against a mixture of
versions, a lost update, two effects of one request and the return of a removed
entry.

`BookVersions` adds to `Booking` three history variables that no handler reads:
`versions`, the version `since[r]` at which a request arrived, and `retries[r]`, how
often its transaction was run again although its document had been written since the
snapshot. `BookSpec` is `AppointmentBook` under the
mapping `served <- wrote`.

### Reminders

One appointment with `N` reminders: the loop of `scheduleReminders`
(`SchedCreate`, `SchedAdd`, `SchedLink`), cancel and remove requests with the loop
of `cancelReminders` (`CancelBegin`, `CancelFind`, `CancelUnqueue`,
`CancelSaveJob`, `CancelDelete`), and workers running `handleReminder` (`Take`,
`ReadAppointment`, `Close`, `Send`, `MarkSent`, `Return`, `Catch`, `Throw`). A
`cancel` saves the status before it clears the reminders, a `remove` clears them
before it deletes. Every call may fail: `SchedFail` and `CancelFail` end a
request, a run throws. Bull is modelled from how the code uses it: a due job goes
to one worker, a failed run counts an attempt, and after a `Crash` active jobs
are found stalled and run again up to the stall limit. Retry delays are "at any
later moment". The provider may refuse a message, or take it and leave the
handler with an error; with the instance off, or without a phone or an email, the
handler records "sent" without sending, which `skipped` remembers. `MarkNoShow`
and `Revive` are the other operations that make the appointment one that is, or
is not, reminded of.

### Catalog and Announcements

`Catalog` has the removals of a professional (then the account) and of a service
(then the references), two writes each with anything between them, the unchecked
assignment of services, the lookups of a booking one by one, and the operations
on appointments that exist, as far as they look at what the appointment refers
to. `appt[a].rev` counts the writes. `blind`, `halted` and `lost` are history.

`Announcements` adds what a request does after its write: the emails (awaited),
then `TextSend` (not awaited, and it outlives the request). The emails are a query at
a time, and people go between any two: the appointment (`MailRead`), what it refers
to (`LookupClient` beside `LookupProfessional` and then `LookupStaff`, in any order;
`asking[r]` says which are left), the administrators (`FindAdmins`). `found[r]` holds
who was there and as what. `MailSend` hands in the emails: the recipients are a map
by mailbox to which the administrators, the staff and the client are added in this
order, so that of those who share a mailbox the last stays (`LastSet`), and a
message names the recipient it was made for, so that two of them in one mailbox
would be two. Whether a query fails is a choice (`MailFails`), and so is an error
that ends the request before or after its emails (`FailSilently`); an email that
fails in the provider holds up no other, so handing it in is what counts.
`TextSend` is one step: nobody comes back, so who is there when the client is
looked up was there when the appointment was read.
Names, prices, rules and `isActive` (a filter of lists) are left out; so are
changes of role, which is why administrators, staff and clients are disjoint.

### PasswordReset and ResetLedger

`PasswordReset` follows a link from `forgotPassword` to the conditional
`updateOne` of `resetPasswordWithVersion`; the read (`ReadUser`) and the update
(`UpdatePassword`) are separated by the hashing. Documents older than the field
`resetPasswordVersion` have it `Absent`. `ResetLedger` is the abstract promise:
only links of a user's current version can be redeemed, and redeeming one moves
the version on. `LedgerSpec` is that specification under the refinement mapping
`ledger <- redeemed`, `next <- CurrentVersion`.

### Accounts

`Create` (`register` and `create`), `Seed` and `SeedFind` (the seed script and
`createSuperAdmin`), `Guest`, `GuestFind` and `GuestUpdate`
(`findOrCreateClientForTenant`), each with its lookup and, after the hashing, its
`Insert` into the unique index; beside them `Update`, `Remove` and the lookup of
`forgotPassword`. An account is called after the request that inserted it. An
address is a mailbox and whether it is spelled in normal form, which is all that
`normalizeEmail` changes. `held` remembers what a request saw, for the properties.

`Directory` is the abstract promise: accounts are opened at vacant addresses only,
keep tenant, address and role for life and are never reopened, and each request
opens or closes at most one. The mapping (`Listed`) forgets the lookups, the hashing
and the fields that `update` and public bookings write, and takes a request as
served when it is answered.

### Availability

The document (`SetAvailability`) and the decision (`Open`, `IsTimeInRanges`),
beside a reference (`Works`, `Covered`) that reads the same schedule tick by tick
and knows nothing of the code. Ranges that compare as text `HH:mm` are numbers of
ticks in a day.

### Tenants

The document of one tenant. `whatsappConfig` is written as a whole by the
settings form (`UpdateSettings`) and path by path by `createInstance`
(`CreatePost`, `CreateConfigure`, `CreateHook`), `getInstanceStatus`
(`ReadTenant`, `StatusGet`, `StatusWrite`), `deleteInstance` (`DeleteCall`,
`DeleteClear`) and the webhook (`WebhookFind`, `WebhookWrite`). The profile is
replaced by its form and by image uploads (`Upload`, `StoreImage`). The instance
changes by itself (`InstanceChanges`) and its webhooks may be overtaken or lost
(`WebhookLost`). Evolution may refuse, or do what it was asked and not say so.
The instance's name is computed from the tenant's id, so whether it is set is all
there is to it, and tenants do not meet. `calm`, `trusted` and `matched` are
history: whether anything happened that may make document and instance differ.

`sendWithButtons` does what `sendText` does, `getQrCode` only asks Evolution, and
inbound messages are only logged by the code.

Definitions marked "Seeded fault" are altered forms of the definition that
follows them; each makes one property fail, which shows that the property is
sensitive to the code it is about. No specification uses them.

## What is checked

| Run | Question | Result |
|---|---|---|
| `booking_safety` | What do transactions, `finally` blocks and the order of effects guarantee, whatever three requests do, whoever holds a document, and when a reply or an audit entry is lost? Do the handlers together keep a book in which every change is whole and every slot was free in one version, and how often does a newer version make a transaction run again? | `SlotDoubledOnlyUnseen`, `AnswerMatchesEffect`, `ChangesAreAudited`, `SessionsReleased`, `RetriesPaidFor`, `BookSpec` hold |
| `booking_live` | Do the reruns of transactions end, and does who waits for a held document get it? | `EveryRequestAnswered` holds |
| `booking_double` | Do transactions prevent overlaps (README.md:577)? | no, finding 1 |
| `booking_reminders` | Do reminders follow a move (README.md:605)? | no, finding 2 |
| `password_reset` | Do links work once, under any interleaving around the hashing? | `SingleUse`, `RefusedOnlyForCause`, `NoResetWhileInactive`, `LedgerSpec` hold |
| `reminders` | How often does a reminder go out under retries, a stall, a crash and failing calls, what does its document say, what does a failed remove leave, what keeps it in the queue, and does it end? | `DuplicateOnlyAfterDoubt`, `DeliveriesBounded`, `LateDeliveriesBounded`, `PendingIsOnItsWay`, `RecordsAreTrue`, `CancelLeavesNonePending`, `LiveLosesNoReminder`, `QueueRunsDown`, `EveryReminderSettles` hold |
| `accounts` | What do creators of one address, guests and administrators do to each other? | `ServedOnOwnAccount`, `DuplicateOnlyByRace`, `GuestsWriteOnlyClients`, `DirectorySpec` hold |
| `accounts_link` | Does whoever has an account get a link (auth.service.ts:103)? | no, finding 3 |
| `availability_schedule` | Does the decision agree with the schedule? | `AgreesWithSchedule`, `BlocksAreRespected` hold, under the conditions they state |
| `availability_covered` | ... for every slot (availability.service.ts:51)? | no, finding 4 |
| `tenants` | When do name and status in the document agree with the instance, and who may touch the forms' fields? | `StatusFollowsInstance`, `NamesMatchInstances`, `FormsKeepTheirFields` hold |
| `catalog` | What do removals in two writes leave behind, who is told of an event, how often, with which links and of which version? | `BlindOffersOnly`, `BookedWasThere`, `NewsIsCurrent`, `OnlyTheConcernedAreTold`, `EverybodyIsTold` hold |

Each of the passing runs but `booking_live` and `availability_schedule` also checks
the type invariant of its module. Three more properties, `DeletedStaysDeleted`,
`MoveSeesLatestVersion` and `UniqueWithinTenant`, are proved as theorems and have no
place in a run, since they follow from `BookSpec` and `DirectorySpec`, which are
checked there: a removed entry cannot come back in `AppointmentBook`, an entry
that is moved is untouched since the version that was looked at, and `Directory`
opens accounts at vacant addresses only.

### Findings

1. **Overlapping appointments** (`booking_double`). Two transactions read the same
   empty range, both insert, both commit. What does hold is
   `SlotDoubledOnlyUnseen`: an appointment that kept its slot can be doubled only
   by a request whose check read before that appointment was committed. Two
   further ways to an overlap that the model has: `confirm` revives a cancelled
   appointment without a check, and a moved appointment is RESCHEDULED, a status
   the overlap query does not look at.
2. **Reminders of the old time** (`booking_reminders`). `reschedule` touches no
   reminder.
3. **No link for addresses with capitals** (`accounts_link`). `register` and
   `create` store the address as typed; `forgotPassword` and the public booking
   look it up in lower case. The account is there, the link is not sent; a booking
   of the same person opens a second account.
4. **Slots past midnight** (`availability_covered`). Times of day are compared
   without their date, so that a slot from after closing time to just after
   midnight is accepted.

### What the properties had to allow for

Each exception in a property is something the code does:

- A change can be without its audit entry (`ChangesAreAudited`): the insert of the
  entry failed and `log` swallowed the error; the reply of the change was lost;
  `scheduleReminders` threw in a public booking or `cancelReminders` in a cancel. An
  entry can be without a change: a cancel of what had been cancelled already, a
  remove or a reschedule of what was gone.
- A 500 can leave a write behind (`AnswerMatchesEffect`): a later call threw, or the
  reply of the write was lost. A success can be without one: a cancel that had read
  a cancelled appointment, although it may have been confirmed since, or a remove
  that found nothing.
- A reminder is recorded as sent when the WhatsApp instance was off
  (`RecordsAreTrue`): `sendText` returns without sending and without an error.
- A `remove` that fails between clearing and deleting leaves a live appointment
  without reminders (`LiveLosesNoReminder`). A document whose queue entry was
  never made stays pending for ever (`PendingIsOnItsWay` assumes no fault).
- The settings form wipes the instance's name and sets the status back
  (`NamesMatchInstances`). The comments of `StatusFollowsInstance` and
  `NamesMatchInstances` list everything that may disturb them. An image upload
  replaces the whole profile
  (`FormsKeepTheirFields`), and `deleteInstance` forgets the instance even when
  Evolution kept it. `createInstance` for an instance that was connected writes
  DISCONNECTED (`StatusFollowsInstance`). Polling an instance that is not there
  guesses DISCONNECTED and never stores it.
- A professional may be given a service that is gone, and a removal that breaks
  off leaves the references (`BlindOffersOnly`). The staff can book for a
  professional or a client who is gone; only the service is looked up
  (`BookedWasThere`), and what was looked up may go before the insert, of which
  this property says nothing.
- A slot that overlaps a blocked range, or lies across two, is accepted:
  `BlocksAreRespected` says only that a slot does not lie in one of them.
- `NewsIsCurrent` bounds how old a message may be. Messages may overtake each other.
- `AgreesWithSchedule` states each direction with what stands against it. On a
  partly blocked date the code accepts everything that is not inside a blocked
  range, weekly hours or not, and a slot past midnight by its time of day: neither
  is promised to be in working time. A slot across two ranges that touch or
  overlap is refused: there, and nowhere else, working time is turned down. Ranges
  that overlap never make the code accept what is not covered.

### Bounds, and why they are enough

All safety properties below are proved without these bounds; the runs find out
whether they hold, and what breaks them.

- `booking_safety`: three requests, one professional, two services of one and two
  ticks, starts 1 and 2, and one transient error, lost reply or failed audit insert
  (`MaxFaults`) beside any number of failing calls and crashes. One is enough for
  each kind to hit each operation at each of its steps with two others around it; what
  several do to one another is proved. The clock stands still, which no version of
  the book depends on, and every start is too near for a reminder (`Lead`), of
  which no property of this run speaks; `minCancelMinutes` is such that one start can be cancelled and the
  other cannot. Each property relates at most two appointments and the request
  between them; three requests allow two bookings and one further operation on
  either, or one booking and two operations that race on it.
  Appointments of different professionals do not meet in any query.
- `booking_live`: the operations that open transactions or change what a
  transaction touches, with confirmations beside them, and one tick of the clock,
  so that deadlines pass on the way; a retry needs one move and one writer of the
  same document. Its property is that from some time on every request has either
  not come or is done; requests come and go once, so this is "each request that
  comes is answered", in the form that TLC checks fastest.
- `reminders`: one reminder by WhatsApp, one canceller, one worker, two attempts,
  one stall, one crash, so that there is one retry of each kind. What loops over
  several reminders and several workers do to each other is proved.
- `password_reset`: five requests are enough for two links of one version, two
  presentations of them, and one administrative change; links live two ticks.
- `accounts`: four requests are a first creator, an administrator who removes, a
  second creator and the guest between them; one mailbox in two spellings; one
  tenant, with the super admins, who have none, as the other.
- `availability_schedule`: two entries for one date or weekday show which of them
  counts; days of six ticks hold two separate ranges with a break; four ticks are
  enough to straddle a break and to pass midnight.
- `tenants`: three requests and two changes of the instance: one request that is
  disturbed, one that disturbs it and one that repairs, with two webhooks that
  overtake each other.
- `catalog`: two requests and one appointment that was there; two professionals
  and one service; an administrator, a member of the staff and a guest who reads
  the administrator's mailbox. Each removal, booking or change can be cut by any
  other between any two of its steps, messages and the queries of the emails
  included. The account of a professional who does not
  exist yet is chosen when he is created.

`MaxNow`, `MaxFaults`, `MaxCrashes`, `MaxChanges`, `MaxUpdates`, `MaxRules`, `MaxExceptions` and
`MaxTicks` bound the state space and are guards of the actions that count. All
runs switch deadlock checking off: requests are finite and the system may come to
rest. Symmetry is used for safety only, never in the two runs with liveness.

### Fairness

`Booking`: weak fairness of each request's own steps, as an `await` on MongoDB
settles or rejects; nothing is assumed of clients, failures, crashes or the
clock. `Reminders`: the same for the scheduler, the cancellers and the workers,
and the clock goes on, since delayed jobs need it. Bull hands a waiting job to a
free worker, which is `Work`. No strong fairness is needed. The other modules
promise nothing that must eventually happen.

## What is proved

TLAPS checks every type invariant, every safety and action property of the runs
that pass and the refinement of each abstract specification, for every set of
requests, users, workers and so on, and without the bounds. The assumptions are the
named `ASSUME`s of the modules (types of the constants, "no value" is no value, a
user has one role, a day has at least one tick); `LateDeliveriesBounded` also
assumes a finite set of workers.

- `BookingProofs`. `TypeOK` is not inductive: a step that uses `want[r]` or
  `loc[r]` must know that it is there, and `HandlerShape` says which `pc` guarantees
  it. For `SlotDoubledOnlyUnseen`, the overlap check speaks of the moment of its
  snapshot and the property of the moment of the write: `WriterChecked` bridges
  them (while a request waits to write, no appointment that was committed by its
  snapshot and has stayed solid overlaps its slot), completed by `OptimesBounded`
  and `SolidBlocks` to `OverlapInv`. For answers, audit and sessions, `Progress(r)`
  says for each point of a handler what it has written, audited and opened by
  then (`Advancing`); the two action properties follow from it step by step.

  Who holds a document between its update and its commit is alone in that, and
  nobody else writes it: `Undisturbed`, from `WritesWait` and the conflict of two
  open transactions. So a commit still meets the version its transaction saw.

  `ImplementsBook` takes `BookInv`. The record of versions must tell the past of
  every document (`VersionsKept`: it is as it has been since its last write, and was
  not there before it was booked), so that "not written after my snapshot"
  becomes "untouched since version `snap[r] + 1`"; a transaction about to write
  has found its slot free in that very version, which its request did not come
  after (`FoundFree`, `ArrivalsKept`); and what a reschedule writes is its target with
  another time and nothing else (`Wanted`, from `ServiceStays`: no handler changes
  an appointment's professional or service). Then there is one lemma for each way
  of writing (`InsertInBook`, `MoveInBook`, `WriteInBook` with `CancelInBook`,
  `RemoveInBook` and `MarkInBook`) and `QuietInBook` for the steps in between.
  `RetriesArePaidFor` takes `RerunsPaid`: a transaction about to write has been rerun
  less often, on account of a newer version, than there were commits before its
  snapshot, and a rerun takes a snapshot that is newer, so each such rerun can be
  charged to another write; each write is by another request, and neither the mover
  nor the one that booked the appointment is among them. Reruns that no commit
  causes (an open transaction, a transient error) are not counted; `booking_live`
  looks at these, too.
- `RemindersProofs`. A busy worker has a job of its own whose attempts are not
  used up (`Worked`, in `TypeInv`). On it stand `Held` (what a canceller has in hand
  covers what it found), `Marked` (what each way through the handler leaves on the document),
  `Counted` (deliveries against doubts, attempts and stalls), `CalledOff` (who
  may have cancelled a live appointment's reminders), `Lagging` (late deliveries
  against the workers that still send, by cardinality) and `NoneStranded`. `QueueRunsDownHolds`
  needs no more than the types: `RunsOn` lists what a step does to an entry, and
  each line of it makes `Left` smaller.
- `PasswordResetProofs`. `LedgerInv` says that every version in `redeemed` is below
  the user's current version, and who has redeemed is done: the conditional update
  adds a new version each time, which gives `SingleUse` and the refinement
  (`ImplementsLedger`). `CauseInv` is its converse: every version below the current
  one is in `redeemed`, and nobody waits with a version ahead of it, so whoever is
  refused is refused for a cause.
- `AccountsProofs`. The invariant adds what a request in mid-flight has made sure
  of (`ArgShape`, `KindShape`), that accounts belong to finished requests, so that
  a removed one never comes back as another's (`LiveShape`), and what a guest knows
  of the account in hand (`ClientShape`). `ImplementsDirectory` follows from the same
  invariant: a step opens an entry (`InsertOpens`), closes one (`RemoveCloses`) or
  leaves all entries as they are (`QuietStep`, `WritesStay`), and a request that does
  either of the first two ends with it. `GuestsWriteClients` compares the account a
  guest writes to with the role, tenant and address the request came for.
- `AvailabilityProofs`. Two lemmas are the heart. `EndPointsEnclose`: on one day, a
  range that holds both end points holds every tick between them, which needs
  nothing of the other ranges. `ApartTicksShareARange`: in ranges that lie apart,
  ticks that are all in some range are all in one, because nothing could go on at
  the end of the first. `SameDay` and `TimeToTick` are the arithmetic of days,
  `CoveredWithinOneDay` and `SameEntries` say that slot and ticks are read against the
  same entries, and `OpenIsCovered` and `CoveredIsOpen` are the two directions.
  `TicksInOneRange` gives `BlocksAreRespected`: ranges end before midnight, so a slot
  with all its ticks in one of them ends on its day and the code refuses it.
- `TenantsProofs`. `Knowing` says what `trusted` and `matched` stand for while
  requests and webhooks are under way (`StatusTrusted`, `NamesFollow`), and what
  an undisturbed request knows at each step (`CalmKnows`), which is how it puts
  right what went wrong before.
- `CatalogProofs`. `Carried` says that a step that follows a reference has one. What
  a step does to requests, appointments and catalogue is stated once for all steps
  (`EachMoves`, `EachKeeps`, `EachCatalog`, `EachHistory`), and the properties follow
  from these: gone is gone for ever, and what a request asked for it has seen.
- `AnnouncementsProofs`. `NewsRefinesCatalog`: telling is a refinement of Catalog, so
  that its invariants carry over. `News(r)` ties messages to how far their
  request is and the version they describe to the one it wrote. `Known(r)` says of
  everybody in `found[r]` that he is what he was found as and was there at the
  write, which with `LastSet` gives `OnlyTheConcernedAreTold`. `Real` and `Accounted`
  say that whoever is referred to has been there, so that who is live later was
  live at each query (`NobodyComesBack`); `Unmissed(r)`, that he is then in `found[r]`
  or his query is still to come; and `SendTells`, that somebody with his mailbox is
  in the map that is made of it, which gives `EverybodyIsTold`.

Model-checked only: the two liveness properties, `EveryRequestAnswered` and
`EveryReminderSettles`, which are out of the prover's reach. What bounds them is
proved: reruns on account of newer versions are paid for by writes of
others (`RetriesPaidFor`), and every change of a queue entry brings it nearer to its end
(`QueueRunsDown`); that a step which may be taken is taken is what the runs add. The
four properties that fail have counterexamples instead.

## Not modelled

- Login, refresh and logout sign or clear tokens and change no state of the
  server; guards and validation check one request; queries and health only read;
  socket events are sent and forgotten. None of them has state to model.
- `TenantsService.create` is a lookup and an insert under a unique index, the
  pattern `Accounts` models. Edits of names, prices, durations, rules and `isActive`
  are single updates that nothing else reads twice; Booking takes durations and
  rules as constants.
- The wording of messages, the building of emails, images themselves.
- Offset changes of time zones in Availability. Bull's and MongoDB's own recovery
  is assumed to work as documented.

## Plan

Done, in this order: Booking, PasswordReset with ResetLedger, Reminders,
Availability, Accounts, Tenants, Catalog, Announcements, each with its proofs; then
the abstract specifications of Booking (AppointmentBook) and Accounts (Directory).

What is left, should the code grow in these directions: a second tenant with
`create` and the slug; durations and rules that change under a booking in flight;
reminders of several appointments in one queue.
