------------------------------ MODULE Booking ------------------------------
(***************************************************************************)
(* The appointment book of one tenant: the handlers of AppointmentsService *)
(* run concurrently (one Node process, interleaved at every await) over    *)
(* the MongoDB collection of appointments.                                 *)
(*                                                                         *)
(* create, createPublicByTenantSlug and reschedule check for overlapping   *)
(* appointments and write inside a MongoDB transaction.  Such a            *)
(* transaction reads from a snapshot and aborts when a document it WRITES   *)
(* was written by somebody else after that snapshot, or is being written   *)
(* by another open transaction; documents it merely read may change under  *)
(* it.  confirm, markNoShow and updateNotes are one atomic                 *)
(* findByIdAndUpdate; cancel and remove are a read followed by later       *)
(* writes with no transaction.  Writes outside a transaction wait while an *)
(* open transaction holds their document.                                  *)
(*                                                                         *)
(* A request that creates an appointment gives the document its own name:  *)
(* appointment a is the one inserted by request a.                         *)
(***************************************************************************)
EXTENDS Integers, FiniteSets

CONSTANTS
  Requests,       \* HTTP requests, and the appointments they may create
  Ops,            \* the operations clients ask for, a subset of AllOps
  Professionals,
  Services,
  Times,          \* starting times a client may ask for
  MaxNow,         \* bound of the clock
  Duration,       \* Duration[s]: durationMinutes of service s
  Offers,         \* Offers[p]: the services p.services lists
  Bookable,       \* <<p, s, e>> for which isSlotAvailable answers true
  MinCancel,      \* MinCancel[p]: rules.minCancelMinutes
  MinReschedule,  \* MinReschedule[p]: rules.minRescheduleMinutes
  MaxFaults,      \* bound of the faults counted in the variable faults
  Lead,           \* smallest reminder offset of the tenant
  NoDoc           \* "no such document"

AllOps == {"create", "public", "reschedule", "cancel", "confirm", "noShow",
           "notes", "remove"}

Status == {"PENDING", "CONFIRMED", "CANCELLED", "RESCHEDULED", "NO_SHOW"}

\* The statuses the overlap query looks at.
Blocking == {"PENDING", "CONFIRMED"}

\* The slot a request wants to write.
Slot == [prof: Professionals, serv: Services, startAt: Nat, endAt: Nat]

\* The part of an appointment document the handlers decide on.
Doc == [prof: Professionals, serv: Services, startAt: Nat, endAt: Nat,
        status: Status]

ASSUME OpsAssumption == Ops \subseteq AllOps

ASSUME CatalogueAssumption ==
  /\ Times \subseteq Nat
  /\ MaxNow \in Nat
  /\ MaxFaults \in Nat
  /\ Lead \in Nat
  /\ Duration \in [Services -> Nat \ {0}]
  /\ Offers \in [Professionals -> SUBSET Services]
  /\ MinCancel \in [Professionals -> Nat]
  /\ MinReschedule \in [Professionals -> Nat]

ASSUME NoDocAssumption == NoDoc \notin Doc /\ NoDoc \notin Slot

VARIABLES
  now,        \* the wall clock
  appts,      \* the collection: appts[a] is a document or NoDoc
  jobsFor,    \* jobsFor[a]: starts that pending ReminderJobs of a count back from
  audited,    \* requests that have their entry in the audit collection
  sessions,   \* requests that hold a MongoDB client session
  pc,         \* next step of each handler
  op,         \* what each request asked for
  target,     \* the appointment it is about
  loc,        \* that appointment as the handler has read it
  want,       \* the slot it is about to write
  resp,       \* the answer sent
  \* --- MongoDB's bookkeeping (optimes) ---
  commits,    \* number of writes to the collection so far
  snap,       \* snap[r]: the optime the transaction of r reads at
  stamp,      \* stamp[a]: optime of the last write to document a
  \* --- history, read by properties only ---
  wrote,      \* requests that changed the collection
  slotAt,     \* slotAt[a]: optime at which a took its current slot
  slotSnap,   \* slotSnap[a]: optime the overlap check for that slot read at
  solid,      \* appointments that have been Blocking ever since they took it
  doubt,      \* requests whose write took effect although its reply was lost
  unlogged,   \* requests whose audit entry could not be created
  faults      \* transient errors, lost replies and failed audit inserts so far

mongo   == <<commits, snap, stamp>>
history == <<wrote, slotAt, slotSnap, solid>>
mishaps == <<doubt, unlogged, faults>>
vars == <<now, appts, jobsFor, audited, sessions, pc, op, target, loc, want,
          resp, mongo, history, mishaps>>

PC == {"idle", "check", "find", "write", "commit", "save", "clear", "delete",
       "remind", "audit", "answer", "done"}

Answers == {"none", "ok", "bad", "notFound", "conflict", "error", "lost"}

TypeOK ==
  /\ now \in 0..MaxNow
  /\ appts \in [Requests -> Doc \cup {NoDoc}]
  /\ jobsFor \in [Requests -> SUBSET Nat]
  /\ audited \subseteq Requests
  /\ sessions \subseteq Requests
  /\ pc \in [Requests -> PC]
  /\ op \in [Requests -> AllOps \cup {"none"}]
  /\ target \in [Requests -> Requests]
  /\ loc \in [Requests -> Doc \cup {NoDoc}]
  /\ want \in [Requests -> Slot \cup {NoDoc}]
  /\ resp \in [Requests -> Answers]
  /\ commits \in Nat
  /\ snap \in [Requests -> Nat]
  /\ stamp \in [Requests -> Nat]
  /\ wrote \subseteq Requests
  /\ slotAt \in [Requests -> Nat]
  /\ slotSnap \in [Requests -> Nat]
  /\ solid \subseteq Requests
  /\ doubt \subseteq Requests
  /\ unlogged \subseteq Requests
  /\ faults \in 0..MaxFaults

Init ==
  /\ now = 0
  /\ appts = [a \in Requests |-> NoDoc]
  /\ jobsFor = [a \in Requests |-> {}]
  /\ audited = {}
  /\ sessions = {}
  /\ pc = [r \in Requests |-> "idle"]
  /\ op = [r \in Requests |-> "none"]
  /\ target = [r \in Requests |-> r]
  /\ loc = [r \in Requests |-> NoDoc]
  /\ want = [r \in Requests |-> NoDoc]
  /\ resp = [r \in Requests |-> "none"]
  /\ commits = 0
  /\ snap = [r \in Requests |-> 0]
  /\ stamp = [a \in Requests |-> 0]
  /\ wrote = {}
  /\ slotAt = [a \in Requests |-> 0]
  /\ slotSnap = [a \in Requests |-> 0]
  /\ solid = {}
  /\ doubt = {}
  /\ unlogged = {}
  /\ faults = 0

----------------------------------------------------------------------------
(* Helpers.                                                                *)

Exists(a) == appts[a] # NoDoc

\* Ids clients can hold: of documents that exist or once existed.
KnownIds == {a \in Requests : slotAt[a] # 0}

\* Seeded fault: the query looks for an appointment around the whole slot.
OverlapAround(x, y) ==
  /\ x.prof = y.prof
  /\ x.startAt <= y.startAt
  /\ x.endAt >= y.endAt

Overlap(x, y) ==
  /\ x.prof = y.prof
  /\ x.startAt < y.endAt
  /\ x.endAt > y.startAt

\* reschedule's query leaves out the appointment being moved.
Own(r) == IF op[r] = "reschedule" THEN {target[r]} ELSE {}

\* Seeded fault: the overlap query looks at confirmed appointments only.
ConflictingConfirmedOnly(r) ==
  {a \in Requests \ Own(r) :
     /\ Exists(a)
     /\ appts[a].status = "CONFIRMED"
     /\ Overlap(appts[a], want[r])}

\* What the findOne of the overlap check can return.
Conflicting(r) ==
  {a \in Requests \ Own(r) :
     /\ Exists(a)
     /\ appts[a].status \in Blocking
     /\ Overlap(appts[a], want[r])}

\* Seeded fault: a retried transaction keeps its first snapshot.
SnapshotTimeStale(r) == IF snap[r] # 0 THEN snap[r] ELSE commits

\* The first read of a transaction fixes the snapshot it reads from.
SnapshotTime(r) == commits

\* A write of a still open transaction stands on document a: between its
\* findByIdAndUpdate and its commit a reschedule holds the document it found.
Held(a) == \E q \in Requests : pc[q] = "commit" /\ target[q] = a /\ Exists(a)

\* The document has been written since the snapshot of r was taken.
Overtaken(r) == stamp[target[r]] > snap[r]

\* MongoDB refuses a transaction's write to a document changed since its
\* snapshot, or held by another transaction, whether that one commits or not.
WriteConflict(r) == op[r] = "reschedule" /\ (Overtaken(r) \/ Held(target[r]))

\* Seeded fault: the duration is subtracted.
MkSlotBackwards(p, s, t) ==
  [prof |-> p, serv |-> s, startAt |-> t, endAt |-> t - Duration[s]]

MkSlot(p, s, t) ==
  [prof |-> p, serv |-> s, startAt |-> t, endAt |-> t + Duration[s]]

Appointment(slot, st) ==
  [prof |-> slot.prof, serv |-> slot.serv, startAt |-> slot.startAt,
   endAt |-> slot.endAt, status |-> st]

SetStatus(a, st) == [appts EXCEPT ![a].status = st]

\* Bookkeeping of one write by r to document a.
Wrote(r, a) ==
  /\ commits' = commits + 1
  /\ stamp' = [stamp EXCEPT ![a] = commits + 1]
  /\ wrote' = wrote \cup {r}

Goto(r, step) == pc' = [pc EXCEPT ![r] = step]

\* The handler returns or throws: the request is answered.
Reply(r, answer) ==
  /\ Goto(r, "done")
  /\ resp' = [resp EXCEPT ![r] = answer]

\* Seeded fault: the session is ended on the normal path only.
FinishWithoutFinally(r, answer) ==
  /\ Reply(r, answer)
  /\ UNCHANGED sessions

\* The handler leaves its try block, by a return or an error: the finally ends
\* the session.
Finish(r, answer) ==
  /\ Reply(r, answer)
  /\ sessions' = sessions \ {r}

\* A fault that the handler is not stopped by, or that hides a success.
Fault == faults < MaxFaults /\ faults' = faults + 1

\* The write of r took effect but its reply is lost: the driver rejects, as if
\* nothing had been written.
ReplyLost(r) ==
  /\ Finish(r, "error")
  /\ Fault
  /\ doubt' = doubt \cup {r}
  /\ UNCHANGED unlogged

\* The write of r took effect, and the handler goes on if it learns of it.
Landed(r, step) ==
  \/ /\ Goto(r, step)
     /\ UNCHANGED <<resp, sessions, mishaps>>
  \/ ReplyLost(r)

\* Seeded fault: create, too, schedules reminders instead of auditing first.
AfterWriteRemind(o) == IF o = "reschedule" THEN "audit" ELSE "remind"

\* The order of the steps after the main write differs between operations.
AfterWrite(o)  == IF o = "public" THEN "remind" ELSE "audit"
AfterAudit(o)  == IF o = "create" THEN "remind" ELSE "answer"
AfterRemind(o) == IF o = "public" THEN "audit" ELSE "answer"
AfterClear(o)  == IF o = "remove" THEN "delete" ELSE "audit"

----------------------------------------------------------------------------
(* create and createPublicByTenantSlug                                     *)

\* Everything before the session is opened: lookups, the future check and
\* availability.  Only the public endpoint asks offersService.
CreateValidate(r) ==
  /\ pc[r] = "idle"
  /\ \E o \in Ops \cap {"create", "public"}, p \in Professionals,
        s \in Services, t \in Times :
       /\ op' = [op EXCEPT ![r] = o]
       /\ IF \/ t <= now
             \/ o = "public" /\ s \notin Offers[p]
             \/ o = "create" /\ <<p, t, t + Duration[s]>> \notin Bookable
          THEN Reply(r, "bad") /\ UNCHANGED <<want, sessions>>
          ELSE IF <<p, t, t + Duration[s]>> \notin Bookable
          THEN Reply(r, "conflict") /\ UNCHANGED <<want, sessions>>
          ELSE /\ want' = [want EXCEPT ![r] = MkSlot(p, s, t)]
               /\ Goto(r, "find")
               /\ sessions' = sessions \cup {r}
               /\ UNCHANGED resp
  /\ UNCHANGED <<now, appts, jobsFor, audited, target, loc, mongo, history, mishaps>>

\* The overlap check; an overlap throws ConflictException out of
\* withTransaction.
TxnFind(r) ==
  /\ pc[r] = "find"
  /\ snap' = [snap EXCEPT ![r] = SnapshotTime(r)]
  /\ \/ /\ Conflicting(r) # {}
        /\ Finish(r, "conflict")
     \/ /\ Conflicting(r) = {}
        /\ Goto(r, "write")
        /\ UNCHANGED <<resp, sessions>>
  /\ UNCHANGED <<now, appts, jobsFor, audited, op, target, loc, want, commits,
                 stamp, history, mishaps>>

\* Insert and commit.  An insert has a fresh _id and stays invisible until the
\* commit, so it meets nobody and the two are one step.
TxnInsert(r) ==
  /\ pc[r] = "write"
  /\ op[r] \in {"create", "public"}
  /\ appts' = [appts EXCEPT ![r] = Appointment(want[r], "PENDING")]
  /\ Wrote(r, r)
  /\ slotAt' = [slotAt EXCEPT ![r] = commits + 1]
  /\ slotSnap' = [slotSnap EXCEPT ![r] = snap[r]]
  /\ solid' = solid \cup {r}
  /\ Landed(r, AfterWrite(op[r]))
  /\ UNCHANGED <<now, jobsFor, audited, op, target, loc, want, snap>>

\* scheduleReminders: jobs only for reminder times still ahead.  It may throw
\* (MongoDB or Redis), possibly after some jobs were made; then the handler
\* goes straight to its finally.
ScheduleReminders(r) ==
  /\ pc[r] = "remind"
  /\ \/ /\ jobsFor' = IF want[r].startAt - Lead > now
                      THEN [jobsFor EXCEPT ![r] = @ \cup {want[r].startAt}]
                      ELSE jobsFor
        /\ Goto(r, AfterRemind(op[r]))
        /\ UNCHANGED <<resp, sessions>>
     \/ /\ \/ UNCHANGED jobsFor
           \/ /\ want[r].startAt - Lead > now
              /\ jobsFor' = [jobsFor EXCEPT ![r] = @ \cup {want[r].startAt}]
        /\ Finish(r, "error")
  /\ UNCHANGED <<now, appts, audited, op, target, loc, want, mongo, history, mishaps>>

----------------------------------------------------------------------------
(* reschedule                                                              *)

\* findById, the first await of reschedule, cancel and remove.
ReadTarget(r) ==
  /\ pc[r] = "idle"
  /\ \E o \in Ops \cap {"reschedule", "cancel", "remove"}, a \in KnownIds :
       /\ op' = [op EXCEPT ![r] = o]
       /\ target' = [target EXCEPT ![r] = a]
       /\ loc' = [loc EXCEPT ![r] = appts[a]]
       /\ IF Exists(a)
          THEN /\ Goto(r, IF o = "remove" THEN "clear" ELSE "check")
               /\ UNCHANGED resp
          ELSE Reply(r, "notFound")
  /\ UNCHANGED <<now, appts, jobsFor, audited, sessions, want, mongo, history, mishaps>>

\* The checks use the copy read before and the clock of this moment.
RescheduleCheck(r) ==
  /\ pc[r] = "check"
  /\ op[r] = "reschedule"
  /\ \E t \in Times :
       LET new == MkSlot(loc[r].prof, loc[r].serv, t) IN
       IF \/ loc[r].startAt - now < MinReschedule[loc[r].prof]
          \/ t <= now
          \/ <<new.prof, new.startAt, new.endAt>> \notin Bookable
       THEN Reply(r, "bad") /\ UNCHANGED <<want, sessions>>
       ELSE /\ want' = [want EXCEPT ![r] = new]
            /\ Goto(r, "find")
            /\ sessions' = sessions \cup {r}
            /\ UNCHANGED resp
  /\ UNCHANGED <<now, appts, jobsFor, audited, op, target, loc, mongo, history, mishaps>>

\* findByIdAndUpdate inside the transaction: until the commit nobody else sees
\* it, and it holds the document.  A document deleted before the snapshot
\* matches nothing and the null result is ignored.
TxnWrite(r) ==
  /\ pc[r] = "write"
  /\ op[r] = "reschedule"
  /\ ~WriteConflict(r)
  /\ Goto(r, "commit")
  /\ UNCHANGED <<now, appts, jobsFor, audited, sessions, op, target, loc, want,
                 resp, mongo, history, mishaps>>

\* The commit, and the finally: the session ends before the audit entry.
\* Pending reminders are left as they are.
TxnMove(r) ==
  /\ pc[r] = "commit"
  /\ LET a == target[r] IN
     \/ /\ Exists(a)
        /\ appts' = [appts EXCEPT ![a] = Appointment(want[r], "RESCHEDULED")]
        /\ Wrote(r, a)
        /\ slotAt' = [slotAt EXCEPT ![a] = commits + 1]
        /\ slotSnap' = [slotSnap EXCEPT ![a] = snap[r]]
        /\ solid' = solid \ {a}
        /\ \/ /\ Goto(r, AfterWrite(op[r]))
              /\ sessions' = sessions \ {r}
              /\ UNCHANGED <<resp, mishaps>>
           \/ ReplyLost(r)
     \/ /\ ~Exists(a)
        /\ Goto(r, AfterWrite(op[r]))
        /\ sessions' = sessions \ {r}
        /\ UNCHANGED <<appts, resp, commits, stamp, history, mishaps>>
  /\ UNCHANGED <<now, jobsFor, audited, op, target, loc, want, snap>>

\* withTransaction runs the callback again after a write conflict, and after
\* any other transient error of the write or the commit.
TxnRetry(r) ==
  /\ pc[r] = "write"
  /\ WriteConflict(r)
  /\ Goto(r, "find")
  /\ UNCHANGED <<now, appts, jobsFor, audited, sessions, op, target, loc, want,
                 resp, mongo, history, mishaps>>

TxnTransient(r) ==
  /\ pc[r] \in {"write", "commit"}
  /\ Fault
  /\ Goto(r, "find")
  /\ UNCHANGED <<now, appts, jobsFor, audited, sessions, op, target, loc, want,
                 resp, mongo, history, doubt, unlogged>>

----------------------------------------------------------------------------
(* cancel and remove                                                       *)

CancelCheck(r) ==
  /\ pc[r] = "check"
  /\ op[r] = "cancel"
  /\ IF loc[r].startAt - now < MinCancel[loc[r].prof]
     THEN Reply(r, "bad")
     ELSE Goto(r, "save") /\ UNCHANGED resp
  /\ UNCHANGED <<now, appts, jobsFor, audited, sessions, op, target, loc, want,
                 mongo, history, mishaps>>

\* Seeded fault: save() upserts the whole in-memory document.
CancelSaveUpsert(r) ==
  /\ pc[r] = "save"
  /\ appts' = [appts EXCEPT ![target[r]] = [loc[r] EXCEPT !.status = "CANCELLED"]]
  /\ Wrote(r, target[r])
  /\ solid' = solid \ {target[r]}
  /\ Landed(r, "clear")
  /\ UNCHANGED <<now, jobsFor, audited, op, target, loc, want, snap, slotAt,
                 slotSnap>>

\* Seeded fault: the status is set on the copy and never saved.
CancelSaveForgotten(r) ==
  /\ pc[r] = "save"
  /\ Goto(r, "clear")
  /\ UNCHANGED <<now, appts, jobsFor, audited, sessions, op, target, loc, want,
                 resp, mongo, history, mishaps>>

\* save() sends only the fields that differ from the copy that was read: when
\* that copy was CANCELLED already it writes nothing.  A document deleted in
\* the meantime makes it throw DocumentNotFoundError.
CancelSave(r) ==
  /\ pc[r] = "save"
  /\ LET a == target[r] IN
     \/ /\ ~Exists(a)
        /\ Reply(r, "error")
        /\ UNCHANGED <<appts, sessions, commits, stamp, history, mishaps>>
     \/ /\ Exists(a)
        /\ loc[r].status = "CANCELLED"
        /\ Goto(r, "clear")
        /\ UNCHANGED <<appts, sessions, resp, commits, stamp, history, mishaps>>
     \/ /\ Exists(a)
        /\ loc[r].status # "CANCELLED"
        /\ ~Held(a)
        /\ appts' = SetStatus(a, "CANCELLED")
        /\ Wrote(r, a)
        /\ solid' = solid \ {a}
        /\ Landed(r, "clear")
        /\ UNCHANGED <<slotAt, slotSnap>>
  /\ UNCHANGED <<now, jobsFor, audited, op, target, loc, want, snap>>

\* cancelReminders.  It may throw after some of the jobs; cancel then leaves a
\* cancelled appointment without an audit entry, remove one that still exists.
ClearReminders(r) ==
  /\ pc[r] = "clear"
  /\ \/ /\ jobsFor' = [jobsFor EXCEPT ![target[r]] = {}]
        /\ Goto(r, AfterClear(op[r]))
        /\ UNCHANGED <<resp, sessions>>
     \/ /\ \E left \in SUBSET jobsFor[target[r]] :
             jobsFor' = [jobsFor EXCEPT ![target[r]] = left]
        /\ Finish(r, "error")
  /\ UNCHANGED <<now, appts, audited, op, target, loc, want, mongo, history, mishaps>>

\* findByIdAndDelete; deleting what is already gone is not an error.
Delete(r) ==
  /\ pc[r] = "delete"
  /\ LET a == target[r] IN
     \/ /\ Exists(a)
        /\ ~Held(a)
        /\ appts' = [appts EXCEPT ![a] = NoDoc]
        /\ Wrote(r, a)
        /\ solid' = solid \ {a}
        /\ Landed(r, "audit")
        /\ UNCHANGED <<slotAt, slotSnap>>
     \/ /\ ~Exists(a)
        /\ Goto(r, "audit")
        /\ UNCHANGED <<appts, sessions, resp, commits, stamp, history, mishaps>>
  /\ UNCHANGED <<now, jobsFor, audited, op, target, loc, want, snap>>

----------------------------------------------------------------------------
(* confirm, markNoShow and updateNotes: one findByIdAndUpdate that looks   *)
(* at no field of the document.                                            *)

NewStatus(o, old) ==
  CASE o = "confirm" -> "CONFIRMED"
    [] o = "noShow"  -> "NO_SHOW"
    [] OTHER         -> old

UpdateInPlace(r) ==
  /\ pc[r] = "idle"
  /\ \E o \in Ops \cap {"confirm", "noShow", "notes"}, a \in KnownIds :
       /\ op' = [op EXCEPT ![r] = o]
       /\ target' = [target EXCEPT ![r] = a]
       /\ \/ /\ Exists(a)
             /\ ~Held(a)
             /\ appts' = SetStatus(a, NewStatus(o, appts[a].status))
             /\ Wrote(r, a)
             /\ solid' = IF o = "noShow" THEN solid \ {a} ELSE solid
             /\ Landed(r, IF o = "notes" THEN "answer" ELSE "audit")
          \/ /\ ~Exists(a)
             /\ Reply(r, "notFound")
             /\ UNCHANGED <<appts, sessions, commits, stamp, wrote, solid, mishaps>>
  /\ UNCHANGED <<now, jobsFor, audited, loc, want, snap, slotAt, slotSnap>>

----------------------------------------------------------------------------
(* Common tail of the handlers.                                            *)

\* auditService.log swallows its own errors: the handler goes on, with or
\* without the entry.
Audit(r) ==
  /\ pc[r] = "audit"
  /\ \/ /\ audited' = audited \cup {r}
        /\ UNCHANGED mishaps
     \/ /\ Fault
        /\ unlogged' = unlogged \cup {r}
        /\ UNCHANGED <<audited, doubt>>
  /\ Goto(r, AfterAudit(op[r]))
  /\ UNCHANGED <<now, appts, jobsFor, sessions, op, target, loc, want, resp,
                 mongo, history>>

\* Seeded fault: reschedule answers without reading the document again.
AnswerUnread(r) ==
  /\ pc[r] = "answer"
  /\ Finish(r, "ok")
  /\ UNCHANGED <<now, appts, jobsFor, audited, op, target, loc, want, mongo,
                 history, mishaps>>

\* Emails, WhatsApp message and socket event (none of which can fail the
\* request), the finally of the two create handlers, and the return.  Only
\* reschedule reads the document again, and answers 404 when it is gone.
Answer(r) ==
  /\ pc[r] = "answer"
  /\ Finish(r, IF op[r] = "reschedule" /\ ~Exists(target[r])
              THEN "notFound" ELSE "ok")
  /\ UNCHANGED <<now, appts, jobsFor, audited, op, target, loc, want, mongo,
                 history, mishaps>>

\* A database call rejects, or withTransaction gives up: nothing is written,
\* the session is ended and the error becomes a 500.  At "answer" it is the
\* findById of reschedule; every other call there catches its own errors.
Fail(r) ==
  /\ \/ pc[r] \in {"check", "find", "write", "commit", "save", "delete"}
     \/ pc[r] = "answer" /\ op[r] = "reschedule"
  /\ Finish(r, "error")
  /\ UNCHANGED <<now, appts, jobsFor, audited, op, target, loc, want, mongo,
                 history, mishaps>>

\* The Node process dies: handlers stop where they are, open transactions are
\* aborted, clients lose the connection.
Crash ==
  /\ \E r \in Requests : pc[r] \notin {"idle", "done"}
  /\ resp' = [r \in Requests |->
                IF pc[r] \in {"idle", "done"} THEN resp[r] ELSE "lost"]
  /\ pc' = [r \in Requests |-> IF pc[r] = "idle" THEN "idle" ELSE "done"]
  /\ sessions' = {}
  /\ UNCHANGED <<now, appts, jobsFor, audited, op, target, loc, want, mongo,
                 history, mishaps>>

Tick ==
  /\ now < MaxNow
  /\ now' = now + 1
  /\ UNCHANGED <<appts, jobsFor, audited, sessions, pc, op, target, loc, want,
                 resp, mongo, history, mishaps>>

\* The steps a request takes by itself once it has arrived.
Step(r) ==
  \/ TxnFind(r) \/ TxnInsert(r) \/ TxnWrite(r) \/ TxnMove(r) \/ TxnRetry(r)
  \/ ScheduleReminders(r)
  \/ RescheduleCheck(r)
  \/ CancelCheck(r) \/ CancelSave(r) \/ ClearReminders(r) \/ Delete(r)
  \/ Audit(r) \/ Answer(r)

Arrive(r) == CreateValidate(r) \/ ReadTarget(r) \/ UpdateInPlace(r)

Next ==
  \/ \E r \in Requests : Arrive(r) \/ Step(r) \/ TxnTransient(r) \/ Fail(r)
  \/ Crash
  \/ Tick

Spec == Init /\ [][Next]_vars

\* Every await settles, so a handler that has begun keeps running.  Nothing is
\* assumed about failures, crashes, the clock, or clients sending requests.
Fairness == \A r \in Requests : WF_vars(Step(r))

FairSpec == Spec /\ Fairness

----------------------------------------------------------------------------
(* Properties.                                                             *)

\* An appointment that has kept its slot as PENDING or CONFIRMED can be
\* doubled only by a request whose overlap check ran before the appointment
\* was committed: the findOne in the transactions of create,
\* createPublicByTenantSlug and reschedule sees every booking committed
\* before it.
SlotDoubledOnlyUnseen ==
  \A a \in solid, b \in Requests :
    (a # b /\ Exists(b) /\ Overlap(appts[a], appts[b]))
      => slotSnap[b] < slotAt[a]

\* The answer tells what happened to the collection.  A 400 or 409 left it as
\* it was, and a 404 too unless it is a reschedule whose appointment was removed
\* after the move.  A 500 leaves a write behind only where a later call may throw
\* (scheduleReminders, cancelReminders, the last findById of reschedule), never
\* for remove, confirm, markNoShow and updateNotes; or where the reply of the
\* write itself was lost.  A success without a write is only a cancel that had
\* read a cancelled appointment, or a remove that found it gone.
AnswerMatchesEffect ==
  \A r \in Requests :
    /\ resp[r] \in {"bad", "conflict"} => r \notin wrote
    /\ resp[r] = "notFound" /\ r \in wrote =>
         op[r] = "reschedule" /\ ~Exists(target[r])
    /\ resp[r] = "error" /\ r \in wrote \ doubt =>
         op[r] \in {"create", "public", "cancel", "reschedule"}
    /\ resp[r] = "ok" /\ r \notin wrote =>
         \/ op[r] = "cancel" /\ loc[r].status = "CANCELLED"
         \/ op[r] = "remove" /\ ~Exists(target[r])

\* Every change of an answered request has its audit entry, with four
\* exceptions: the insert of the entry failed (log swallows that error), the
\* reply of the change itself was lost, a public booking whose
\* scheduleReminders call threw (that handler audits after scheduling, create
\* before) and a cancel whose cancelReminders call threw.  An entry without a
\* change of its own is a cancel of what was cancelled already, or a remove or
\* a reschedule of what was gone.
ChangesAreAudited ==
  /\ \A r \in wrote :
       (resp[r] \notin {"none", "lost"} /\ op[r] # "notes") =>
         \/ r \in audited \cup unlogged \cup doubt
         \/ op[r] \in {"public", "cancel"} /\ resp[r] = "error"
  /\ \A r \in audited \ wrote :
       \/ op[r] = "cancel" /\ loc[r].status = "CANCELLED"
       \/ op[r] \in {"remove", "reschedule"} /\ ~Exists(target[r])

\* The finally blocks: an answered request holds no MongoDB session, whichever
\* of its steps threw, and a handler inside its transaction holds one.
SessionsReleased ==
  \A r \in Requests :
    /\ pc[r] = "done" => r \notin sessions
    /\ pc[r] \in {"find", "write", "commit"} => r \in sessions

\* A removed appointment stays removed: neither the save of a cancel that
\* read it earlier nor a reschedule in flight brings it back.
DeletedStaysDeleted ==
  [][\A a \in Requests :
       (slotAt[a] # 0 /\ ~Exists(a)) => ~Exists(a)']_vars

\* No lost update by a move: when a reschedule gives an appointment another
\* slot, nobody wrote that appointment after the snapshot its overlap check
\* read (a concurrent cancel or move forces the transaction to run again).
MoveSeesLatestVersion ==
  [][\A a \in Requests :
       (Exists(a) /\ slotAt'[a] # slotAt[a]) => stamp[a] <= slotSnap'[a]]_vars

\* Every request that arrives is answered (a request comes and goes once, so in
\* the end each has either not come or is done): write conflicts, with commits
\* or with other open transactions, make the transaction of reschedule run
\* again, but never for ever, and who waits for a held document gets it.
EveryRequestAnswered ==
  <>[](\A r \in Requests : pc[r] \in {"idle", "done"})

\* The overlap rule as README.md states it, for appointments that occupy a
\* slot.  The transactions do not give it: two of them may both find nothing
\* and both insert, and confirm brings back appointments without a check.
NoDoubleBooking ==
  \A a, b \in Requests :
    (/\ a # b /\ Exists(a) /\ Exists(b)
     /\ appts[a].status \in Blocking /\ appts[b].status \in Blocking)
      => ~Overlap(appts[a], appts[b])

\* "24 hours before": the pending reminders of an appointment count back from
\* the start it has.  reschedule moves the appointment and leaves the reminders
\* of the old start.
RemindersCountFromStart ==
  \A a \in Requests : Exists(a) => jobsFor[a] \subseteq {appts[a].startAt}
============================================================================
