----------------------------- MODULE Reminders -----------------------------
(***************************************************************************)
(* The reminders of one appointment: NotificationsService.scheduleReminders *)
(* and cancelReminders, the ReminderJob documents they keep in MongoDB, the *)
(* Bull queue "reminders" in Redis, and ReminderProcessor.handleReminder.  *)
(*                                                                         *)
(* A reminder lives in two stores that no transaction joins: a document    *)
(* with a status and a queue entry that makes it fire.  Three kinds of     *)
(* process write them: the request that created the appointment, requests  *)
(* that cancel or remove it, and the queue workers.  The appointment       *)
(* itself changes under all of them.                                       *)
(*                                                                         *)
(* Reminders are numbered in the order of the loops over offsets and       *)
(* channels.  Due[j] is scheduledFor of reminder j.  Bull's retry delay is *)
(* abstracted: a failed entry may run again at any later moment.           *)
(***************************************************************************)
EXTENDS Integers, FiniteSets

CONSTANTS
  N,            \* number of reminders of the appointment
  Due,          \* Due[j]: when reminder j is to be sent
  ByWhatsapp,   \* the reminders of channel "whatsapp"; the others are email
  Reachable,    \* the reminders whose client has the phone or email needed
  Cancellers,   \* cancel and remove requests for the appointment
  Workers,      \* concurrent executions the queue allows
  MaxAttempts,  \* attempts: 3 of queue.add
  MaxStalls,    \* Bull's maxStalledCount
  MaxNow,       \* bound of the clock
  MaxCrashes    \* bound on crashes of the process

Jobs == 1..N

ASSUME RemindersAssumption ==
  /\ N \in Nat
  /\ Due \in [Jobs -> Nat]
  /\ ByWhatsapp \subseteq Jobs
  /\ Reachable \subseteq Jobs
  /\ MaxAttempts \in Nat \ {0}
  /\ MaxStalls \in Nat
  /\ MaxNow \in Nat
  /\ MaxCrashes \in Nat

VARIABLES
  now,
  appt,       \* "live", "dead" (CANCELLED or NO_SHOW) or "gone" (removed)
  connected,  \* the tenant's WhatsApp instance is CONNECTED
  doc,        \* doc[j]: status of the ReminderJob document, or "absent"
  linked,     \* reminders whose document has its bullJobId
  queue,      \* queue[j]: state of the Bull job
  made,       \* made[j]: attempts Bull counted
  stalls,     \* stalls[j]: how often it was found stalled
  sched,      \* scheduleReminders: [step, job]
  can,        \* the cancel and remove handlers: [step, kind, todo, ids]
  run,        \* the workers: [step, job, saw, sent]
  crashes,
  \* --- history ---
  known,      \* known[c]: documents that existed when c looked for them
  delivered,  \* delivered[j]: messages that reached the client
  doubt,      \* doubt[j]: runs that delivered j and then failed or died
  late,       \* deliveries since the appointment was last live
  skipped,    \* reminders for which a run found nobody to send to
  wasDead,    \* the appointment has been CANCELLED or NO_SHOW
  faulty      \* a database or Redis call failed, or the process crashed

procs == <<sched, can, run>>
store == <<doc, linked, queue, made, stalls>>
history == <<known, delivered, doubt, late, skipped, wasDead>>
vars == <<now, appt, connected, store, procs, crashes, history, faulty>>

NoJob == 0

TypeOK ==
  /\ now \in 0..MaxNow
  /\ appt \in {"live", "dead", "gone"}
  /\ connected \in BOOLEAN
  /\ doc \in [Jobs -> {"absent", "pending", "sent", "failed", "cancelled"}]
  /\ linked \subseteq Jobs
  /\ queue \in [Jobs -> {"none", "delayed", "active", "retry", "completed",
                         "failed", "removed"}]
  /\ made \in [Jobs -> 0..MaxAttempts]
  /\ stalls \in [Jobs -> 0..MaxStalls]
  /\ sched \in [step: {"create", "add", "link", "done", "aborted"},
                job: 1..N + 1]
  /\ can \in [Cancellers ->
                [step: {"idle", "find", "unqueue", "save", "delete", "ok",
                        "failed"},
                 kind: {"cancel", "remove"},
                 todo: SUBSET Jobs, ids: SUBSET Jobs]]
  /\ run \in [Workers ->
                [step: {"idle", "read", "close", "send", "mark", "return",
                        "catch", "throw"},
                 job: Jobs \cup {NoJob}, saw: {"live", "dead", "gone"},
                 sent: BOOLEAN]]
  /\ crashes \in 0..MaxCrashes
  /\ known \in [Cancellers -> SUBSET Jobs]
  /\ delivered \in [Jobs -> Nat]
  /\ doubt \in [Jobs -> Nat]
  /\ late \in Nat
  /\ skipped \subseteq Jobs
  /\ wasDead \in BOOLEAN
  /\ faulty \in BOOLEAN

Idle == [step |-> "idle", job |-> NoJob, saw |-> "live", sent |-> FALSE]

Init ==
  /\ now = 0
  /\ appt = "live"
  /\ connected \in BOOLEAN
  /\ doc = [j \in Jobs |-> "absent"]
  /\ linked = {}
  /\ queue = [j \in Jobs |-> "none"]
  /\ made = [j \in Jobs |-> 0]
  /\ stalls = [j \in Jobs |-> 0]
  /\ sched = [step |-> "create", job |-> 1]
  /\ can \in [Cancellers -> [step: {"idle"}, kind: {"cancel", "remove"},
                             todo: {{}}, ids: {{}}]]
  /\ run = [w \in Workers |-> Idle]
  /\ crashes = 0
  /\ known = [c \in Cancellers |-> {}]
  /\ delivered = [j \in Jobs |-> 0]
  /\ doubt = [j \in Jobs |-> 0]
  /\ late = 0
  /\ skipped = {}
  /\ wasDead = FALSE
  /\ faulty = FALSE

----------------------------------------------------------------------------
(* scheduleReminders.                                                      *)

SchedGoto(step, j) == sched' = [step |-> step, job |-> j]

\* A reminder whose time has passed is skipped.
SchedCreate ==
  /\ sched.step = "create"
  /\ \/ /\ sched.job > N
        /\ SchedGoto("done", sched.job)
        /\ UNCHANGED doc
     \/ /\ sched.job \in Jobs
        /\ IF Due[sched.job] <= now
           THEN SchedGoto("create", sched.job + 1) /\ UNCHANGED doc
           ELSE /\ doc' = [doc EXCEPT ![sched.job] = "pending"]
                /\ SchedGoto("add", sched.job)
  /\ UNCHANGED <<now, appt, connected, linked, queue, made, stalls, can, run,
                 crashes, history, faulty>>

SchedAdd ==
  /\ sched.step = "add"
  /\ queue' = [queue EXCEPT ![sched.job] = "delayed"]
  /\ SchedGoto("link", sched.job)
  /\ UNCHANGED <<now, appt, connected, doc, linked, made, stalls, can, run,
                 crashes, history, faulty>>

\* Seeded fault: the whole document is saved as it was created.
SchedLinkWhole ==
  /\ sched.step = "link"
  /\ linked' = linked \cup {sched.job}
  /\ doc' = [doc EXCEPT ![sched.job] = "pending"]
  /\ SchedGoto("create", sched.job + 1)
  /\ UNCHANGED <<now, appt, connected, queue, made, stalls, can, run, crashes,
                 history, faulty>>

\* The update writes bullJobId and leaves the status alone.
SchedLink ==
  /\ sched.step = "link"
  /\ linked' = linked \cup {sched.job}
  /\ SchedGoto("create", sched.job + 1)
  /\ UNCHANGED <<now, appt, connected, doc, queue, made, stalls, can, run,
                 crashes, history, faulty>>

\* MongoDB or Redis fails; an add may have reached Redis all the same.  The
\* error leaves scheduleReminders: the remaining reminders are never made.
SchedFail ==
  /\ sched.step \in {"create", "add", "link"}
  /\ SchedGoto("aborted", sched.job)
  /\ \/ UNCHANGED queue
     \/ /\ sched.step = "add"
        /\ queue' = [queue EXCEPT ![sched.job] = "delayed"]
  /\ faulty' = TRUE
  /\ UNCHANGED <<now, appt, connected, doc, linked, made, stalls, can, run,
                 crashes, history>>

----------------------------------------------------------------------------
(* cancel and remove, with cancelReminders.                                *)

CanGoto(c, step) == can' = [can EXCEPT ![c].step = step]

\* What follows when the list of reminders is worked off.
CanNext(kind, todo) ==
  IF todo # {} THEN "unqueue" ELSE IF kind = "remove" THEN "delete" ELSE "ok"

\* Seeded fault: the status of the appointment is not saved.
CancelBeginUnsaved(c) ==
  /\ can[c].step = "idle"
  /\ CanGoto(c, IF appt = "gone" THEN "failed" ELSE "find")
  /\ UNCHANGED <<now, appt, connected, store, sched, run, crashes, history,
                 faulty>>

\* cancel saves the status first, and that save writes nothing when the copy
\* it read was CANCELLED; remove only reads the appointment.  What they check
\* before that is in Booking.
CancelBegin(c) ==
  /\ can[c].step = "idle"
  /\ IF appt = "gone"
     THEN CanGoto(c, "failed") /\ UNCHANGED <<appt, wasDead>>
     ELSE /\ CanGoto(c, "find")
          /\ appt' \in IF can[c].kind = "remove" THEN {appt}
                      ELSE IF wasDead THEN {"dead", appt} ELSE {"dead"}
          /\ wasDead' = (wasDead \/ appt' = "dead")
  /\ UNCHANGED <<now, connected, store, sched, run, crashes, known, delivered,
                 doubt, late, skipped, faulty>>

\* The list is read once; each element carries the bullJobId it had then.
CancelFind(c) ==
  /\ can[c].step = "find"
  /\ LET found == {j \in Jobs : doc[j] = "pending"} IN
       can' = [can EXCEPT ![c].todo = found, ![c].ids = found \cap linked,
                          ![c].step = CanNext(can[c].kind, found)]
  /\ known' = [known EXCEPT ![c] = {j \in Jobs : doc[j] # "absent"}]
  /\ UNCHANGED <<now, appt, connected, store, sched, run, crashes, delivered,
                 doubt, late, skipped, wasDead, faulty>>

\* The query asks for no order; the loop takes the reminders in a fixed one.
First(S) == CHOOSE j \in S : TRUE

\* Seeded fault: a reminder that could not be taken out of the queue is left
\* as it is.
CancelUnqueueOrSkip(c) ==
  /\ can[c].step = "unqueue"
  /\ LET j == First(can[c].todo)
         rest == can[c].todo \ {j} IN
       IF j \in can[c].ids /\ queue[j] \in {"delayed", "retry", "failed"}
       THEN /\ queue' = [queue EXCEPT ![j] = "removed"]
            /\ CanGoto(c, "save")
       ELSE /\ can' = [can EXCEPT ![c].todo = rest,
                                  ![c].step = CanNext(can[c].kind, rest)]
            /\ UNCHANGED queue
  /\ UNCHANGED <<now, appt, connected, doc, linked, made, stalls, sched, run,
                 crashes, history, faulty>>

\* bullJob.remove() throws for a job that a worker has locked; that error, a
\* job that is no longer there and Redis being down are all ignored.
CancelUnqueue(c) ==
  /\ can[c].step = "unqueue"
  /\ LET j == First(can[c].todo) IN
       \/ /\ j \in can[c].ids
          /\ queue[j] \in {"delayed", "retry", "failed"}
          /\ queue' = [queue EXCEPT ![j] = "removed"]
          /\ UNCHANGED faulty
       \/ /\ \/ j \notin can[c].ids
             \/ queue[j] \notin {"delayed", "retry", "failed"}
          /\ UNCHANGED <<queue, faulty>>
       \/ /\ j \in can[c].ids
          /\ UNCHANGED queue
          /\ faulty' = TRUE
  /\ CanGoto(c, "save")
  /\ UNCHANGED <<now, appt, connected, doc, linked, made, stalls, sched, run,
                 crashes, history>>

\* save() of the copy read by find: it writes the status whatever happened to
\* the document since.
CancelSaveJob(c) ==
  /\ can[c].step = "save"
  /\ LET j == First(can[c].todo)
         rest == can[c].todo \ {j} IN
       /\ doc' = [doc EXCEPT ![j] = "cancelled"]
       /\ can' = [can EXCEPT ![c].todo = rest,
                             ![c].step = CanNext(can[c].kind, rest)]
  /\ UNCHANGED <<now, appt, connected, linked, queue, made, stalls, sched, run,
                 crashes, history, faulty>>

CancelDelete(c) ==
  /\ can[c].step = "delete"
  /\ appt' = "gone"
  /\ CanGoto(c, "ok")
  /\ UNCHANGED <<now, connected, store, sched, run, crashes, history, faulty>>

\* A database error leaves the handler with whatever it had done.
CancelFail(c) ==
  /\ can[c].step \in {"find", "save", "delete"}
  /\ CanGoto(c, "failed")
  /\ faulty' = TRUE
  /\ UNCHANGED <<now, appt, connected, store, sched, run, crashes, history>>

----------------------------------------------------------------------------
(* The queue and handleReminder.                                           *)

RunGoto(w, step) == run' = [run EXCEPT ![w].step = step]

Take(w) ==
  /\ run[w].step = "idle"
  /\ \E j \in Jobs :
       /\ queue[j] = "retry" \/ (queue[j] = "delayed" /\ Due[j] <= now)
       /\ queue' = [queue EXCEPT ![j] = "active"]
       /\ run' = [run EXCEPT ![w].step = "read", ![w].job = j]
  /\ UNCHANGED <<now, appt, connected, doc, linked, made, stalls, sched, can,
                 crashes, history, faulty>>

\* Seeded fault: the status of the appointment is not looked at.
AfterReadUnchecked(a) == IF a = "gone" THEN "close" ELSE "send"

\* Where the run goes after reading the appointment.
AfterRead(a) == IF a = "live" THEN "send" ELSE "close"

\* Any error up to the send (the database, a client or service that is gone)
\* lands in the catch.
ReadAppointment(w) ==
  /\ run[w].step = "read"
  /\ \/ run' = [run EXCEPT ![w].step = AfterRead(appt), ![w].saw = appt]
     \/ RunGoto(w, "catch")
  /\ UNCHANGED <<now, appt, connected, store, sched, can, crashes, history,
                 faulty>>

\* updateJobStatus with status s.  When the update fails inside the try block
\* the catch block takes over.
Record(w, s) ==
  \/ /\ doc' = [doc EXCEPT ![run[w].job] = s]
     /\ RunGoto(w, "return")
     /\ UNCHANGED faulty
  \/ /\ UNCHANGED doc
     /\ RunGoto(w, "catch")
     /\ faulty' = TRUE

\* The appointment read was missing or cancelled.
Close(w) ==
  /\ run[w].step = "close"
  /\ Record(w, IF run[w].saw = "gone" THEN "failed" ELSE "cancelled")
  /\ UNCHANGED <<now, appt, connected, linked, queue, made, stalls, sched, can,
                 crashes, history>>

\* sendText returns without sending when the instance is not connected, and
\* nothing is sent to a client without the phone or the email.
Reaches(j) == j \in Reachable /\ (j \in ByWhatsapp => connected)

\* Seeded fault: an error of the provider is logged and forgotten.
SendSwallowing(w) ==
  /\ run[w].step = "send"
  /\ LET j == run[w].job IN
     /\ skipped' = IF Reaches(j) THEN skipped ELSE skipped \cup {j}
     /\ \/ RunGoto(w, "mark") /\ UNCHANGED <<delivered, late>>
        \/ /\ Reaches(j)
           /\ run' = [run EXCEPT ![w].step = "mark", ![w].sent = TRUE]
           /\ delivered' = [delivered EXCEPT ![j] = @ + 1]
           /\ late' = IF appt = "live" THEN late ELSE late + 1
  /\ UNCHANGED <<now, appt, connected, store, sched, can, crashes, known,
                 doubt, wasDead, faulty>>

\* The provider takes the message or refuses it; when the connection breaks the
\* handler sees an error although the message went out.
Send(w) ==
  /\ run[w].step = "send"
  /\ LET j == run[w].job IN
     \/ /\ ~Reaches(j)
        /\ RunGoto(w, "mark")
        /\ skipped' = skipped \cup {j}
        /\ UNCHANGED <<delivered, late>>
     \/ /\ Reaches(j)
        /\ RunGoto(w, "catch")
        /\ UNCHANGED <<delivered, late, skipped>>
     \/ /\ Reaches(j)
        /\ \E step \in {"mark", "catch"} :
             run' = [run EXCEPT ![w].step = step, ![w].sent = TRUE]
        /\ delivered' = [delivered EXCEPT ![j] = @ + 1]
        /\ late' = IF appt = "live" THEN late ELSE late + 1
        /\ UNCHANGED skipped
  /\ UNCHANGED <<now, appt, connected, store, sched, can, crashes, known,
                 doubt, wasDead, faulty>>

MarkSent(w) ==
  /\ run[w].step = "mark"
  /\ Record(w, "sent")
  /\ UNCHANGED <<now, appt, connected, linked, queue, made, stalls, sched, can,
                 crashes, history>>

\* Seeded fault: the reminder is put back when it was handled.
ReturnRequeued(w) ==
  /\ run[w].step = "return"
  /\ queue' = [queue EXCEPT ![run[w].job] = "retry"]
  /\ run' = [run EXCEPT ![w] = Idle]
  /\ UNCHANGED <<now, appt, connected, doc, linked, made, stalls, sched, can,
                 crashes, history, faulty>>

\* The handler returned: Bull completes the job and forgets it.
Return(w) ==
  /\ run[w].step = "return"
  /\ queue' = [queue EXCEPT ![run[w].job] = "completed"]
  /\ run' = [run EXCEPT ![w] = Idle]
  /\ UNCHANGED <<now, appt, connected, doc, linked, made, stalls, sched, can,
                 crashes, history, faulty>>

\* Seeded fault: a status outside the schema's enum, which findByIdAndUpdate
\* would store unchecked.
CatchUnknownStatus(w) ==
  /\ run[w].step = "catch"
  /\ doc' = [doc EXCEPT ![run[w].job] = "error"]
  /\ RunGoto(w, "throw")
  /\ UNCHANGED <<now, appt, connected, linked, queue, made, stalls, sched, can,
                 crashes, history, faulty>>

\* The catch block records the failure, unless that fails too, and rethrows.
Catch(w) ==
  /\ run[w].step = "catch"
  /\ \/ /\ doc' = [doc EXCEPT ![run[w].job] = "failed"]
        /\ UNCHANGED faulty
     \/ UNCHANGED doc /\ faulty' = TRUE
  /\ RunGoto(w, "throw")
  /\ UNCHANGED <<now, appt, connected, linked, queue, made, stalls, sched, can,
                 crashes, history>>

\* A run that delivered its message ends badly.
Doubted(w) ==
  IF run[w].sent THEN [doubt EXCEPT ![run[w].job] = @ + 1] ELSE doubt

\* Seeded fault: the failed attempt is not counted.
CountNothing(j) == made

Count(j) == [made EXCEPT ![j] = @ + 1]

\* The handler threw: Bull counts the attempt and retries or gives up.
Throw(w) ==
  /\ run[w].step = "throw"
  /\ LET j == run[w].job IN
       /\ made' = Count(j)
       /\ queue' = [queue EXCEPT ![j] =
                      IF made'[j] < MaxAttempts THEN "retry" ELSE "failed"]
  /\ doubt' = Doubted(w)
  /\ run' = [run EXCEPT ![w] = Idle]
  /\ UNCHANGED <<now, appt, connected, doc, linked, stalls, sched, can,
                 crashes, known, delivered, late, skipped, wasDead, faulty>>

----------------------------------------------------------------------------
(* The surroundings.                                                       *)

\* The process dies with everything it was doing.  Bull finds the active jobs
\* stalled and queues them again, a bounded number of times each.
Crash ==
  /\ crashes < MaxCrashes
  /\ crashes' = crashes + 1
  /\ faulty' = TRUE
  /\ LET busy == {w \in Workers : run[w].step # "idle"}
         hit  == {run[w].job : w \in busy}
         sent == {run[w].job : w \in {v \in busy : run[v].sent}} IN
       /\ queue' = [j \in Jobs |->
                      IF j \notin hit THEN queue[j]
                      ELSE IF stalls[j] < MaxStalls THEN "retry" ELSE "failed"]
       /\ stalls' = [j \in Jobs |->
                       IF j \in hit /\ stalls[j] < MaxStalls
                       THEN stalls[j] + 1 ELSE stalls[j]]
       /\ doubt' = [j \in Jobs |->
                      IF j \in sent THEN doubt[j] + 1 ELSE doubt[j]]
  /\ run' = [w \in Workers |-> Idle]
  /\ sched' = IF sched.step = "done" THEN sched
              ELSE [sched EXCEPT !.step = "aborted"]
  /\ can' = [c \in Cancellers |->
               IF can[c].step \in {"idle", "ok", "failed"} THEN can[c]
               ELSE [can[c] EXCEPT !.step = "failed"]]
  /\ UNCHANGED <<now, appt, connected, doc, linked, made, known, delivered,
                 late, skipped, wasDead>>

\* markNoShow, which leaves the reminders alone.
MarkNoShow ==
  /\ appt = "live"
  /\ appt' = "dead"
  /\ wasDead' = TRUE
  /\ UNCHANGED <<now, connected, store, procs, crashes, known, delivered,
                 doubt, late, skipped, faulty>>

\* confirm and reschedule bring a cancelled appointment back, and leave its
\* reminders alone.
Revive ==
  /\ appt = "dead"
  /\ appt' = "live"
  /\ late' = 0
  /\ UNCHANGED <<now, connected, store, procs, crashes, known, delivered,
                 doubt, skipped, wasDead, faulty>>

ConnectionUpdate ==
  /\ connected' = ~connected
  /\ UNCHANGED <<now, appt, store, procs, crashes, history, faulty>>

Tick ==
  /\ now < MaxNow
  /\ now' = now + 1
  /\ UNCHANGED <<appt, connected, store, procs, crashes, history, faulty>>

Schedule == SchedCreate \/ SchedAdd \/ SchedLink

Cancel(c) ==
  CancelFind(c) \/ CancelUnqueue(c) \/ CancelSaveJob(c) \/ CancelDelete(c)

Work(w) ==
  \/ Take(w) \/ ReadAppointment(w) \/ Close(w) \/ Send(w) \/ MarkSent(w)
  \/ Return(w) \/ Catch(w) \/ Throw(w)

Next ==
  \/ Schedule
  \/ SchedFail
  \/ \E c \in Cancellers : CancelBegin(c) \/ Cancel(c) \/ CancelFail(c)
  \/ \E w \in Workers : Work(w)
  \/ Crash
  \/ MarkNoShow \/ Revive \/ ConnectionUpdate \/ Tick

Spec == Init /\ [][Next]_vars

\* Awaits settle, the queue hands out due jobs, and time passes.  Nothing is
\* assumed of failures, crashes, clients or the WhatsApp connection.
Fairness ==
  /\ WF_vars(Schedule)
  /\ \A c \in Cancellers : WF_vars(Cancel(c))
  /\ \A w \in Workers : WF_vars(Work(w))
  /\ WF_vars(Tick)

FairSpec == Spec /\ Fairness

----------------------------------------------------------------------------
(* Properties.                                                             *)

\* A client gets a reminder twice only because a run that had delivered it
\* failed or died before Bull knew: the handler looks neither at the status of
\* the document nor at what it sent before, so the queue is all that keeps it
\* from sending again.
DuplicateOnlyAfterDoubt ==
  \A j \in Jobs : delivered[j] <= 1 + doubt[j]

\* However the provider, the database and the process fail, a reminder goes
\* out at most once per attempt and once per stall.
DeliveriesBounded ==
  \A j \in Jobs : delivered[j] <= MaxAttempts + MaxStalls

\* Once the appointment is cancelled, marked absent or removed, only the runs
\* that had read it before still deliver: at most one message per worker.
LateDeliveriesBounded == late <= Cardinality(Workers)

\* When no call to MongoDB or Redis fails and nothing crashes, a reminder whose
\* document says pending is still on its way: it is in the queue, or the
\* scheduler or a canceller has it in hand.
PendingIsOnItsWay ==
  ~faulty => \A j \in Jobs : doc[j] = "pending" =>
    \/ queue[j] \in {"delayed", "active", "retry"}
    \/ sched = [step |-> "add", job |-> j]
    \/ \E c \in Cancellers :
         can[c].step \in {"unqueue", "save"} /\ j \in can[c].todo

\* The document agrees with what happened although queue, provider and database
\* fail at any point.  A completed queue entry has left its mark on it, on each
\* of the three ways through the handler that end normally; and a reminder that
\* is recorded as sent has gone out, or there was nobody to send it to: the
\* instance was off, or the client had no phone or no email.
RecordsAreTrue ==
  \A j \in Jobs :
    /\ queue[j] = "completed" => doc[j] # "pending"
    /\ doc[j] = "sent" => delivered[j] > 0 \/ j \in skipped

\* A cancel or remove that succeeded left none of the reminders pending that
\* existed when it looked, whatever the scheduler and the workers did meanwhile.
CancelLeavesNonePending ==
  \A c \in Cancellers : can[c].step = "ok" =>
    \A j \in known[c] : doc[j] # "pending"

\* remove clears the reminders before it deletes the appointment, and each of
\* its steps may fail.  An appointment that was live all the time has lost a
\* reminder only to a remove that is under way or that failed: a cancel that
\* fails never leaves a live appointment without its reminders, because it
\* saves the status first.
LiveLosesNoReminder ==
  \A j \in Jobs : appt = "live" /\ ~wasDead /\ doc[j] = "cancelled" =>
    \E c \in Cancellers : can[c].kind = "remove"
                          /\ can[c].step \notin {"idle", "find", "ok"}

\* What the queue can still do with entry j: two steps for each attempt and each
\* stall that is left, and those of its present state.
Rank == [none |-> 4, delayed |-> 3, retry |-> 3, active |-> 2, failed |-> 1,
         completed |-> 0, removed |-> 0]

Left(j) == 2 * ((MaxAttempts - made[j]) + (MaxStalls - stalls[j])) + Rank[queue[j]]

\* An entry never goes back without paying for it: whatever changes its state,
\* a worker, a cancel, an error or a crash, uses up an attempt or a stall or
\* takes it nearer to its end (attempts: 3 in scheduleReminders, and Bull's
\* limit of stalls), so that no order of these keeps it in the queue for ever.
QueueRunsDown ==
  [][\A j \in Jobs : queue'[j] # queue[j] => Left(j)' < Left(j)]_vars

\* Every reminder that entered the queue ends there: completed, failed for
\* good, or removed.
EveryReminderSettles ==
  \A j \in Jobs : queue[j] \in {"delayed", "active", "retry"} ~>
                    queue[j] \in {"completed", "failed", "removed"}
============================================================================
