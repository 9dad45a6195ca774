-------------------------- MODULE RemindersProofs --------------------------
(* Proofs about Reminders for every number of reminders, workers, requests,  *)
(* attempts, stalls and crashes.                                             *)
EXTENDS Reminders, FiniteSetTheorems, TLAPS

USE RemindersAssumption DEF procs, store, history, vars

(***************************************************************************)
(* Type correctness.  A worker that is busy has a job of its own in the    *)
(* queue, whose attempts are not used up.                                  *)
(***************************************************************************)

Busy(w) == run[w].step # "idle"

Worked ==
  /\ \A w \in Workers : Busy(w) =>
       /\ run[w].job \in Jobs
       /\ queue[run[w].job] = "active"
  /\ \A v, w \in Workers :
       Busy(v) /\ Busy(w) /\ v # w => run[v].job # run[w].job
  /\ \A j \in Jobs :
       queue[j] \in {"none", "delayed", "retry", "active"} => made[j] < MaxAttempts

\* What scheduleReminders has not come to yet is in neither store.
Ahead ==
  /\ sched.step \in {"add", "link"} => sched.job \in Jobs
  /\ sched.step = "add" => queue[sched.job] = "none" /\ doc[sched.job] # "absent"
  /\ sched.step = "create" => \A j \in Jobs :
       j >= sched.job => queue[j] = "none" /\ doc[j] = "absent"
  /\ sched.step \in {"add", "link"} => \A j \in Jobs :
       j > sched.job => queue[j] = "none" /\ doc[j] = "absent"

\* What a canceller has in hand is something that scheduleReminders made.
InHand ==
  /\ \A j \in Jobs : queue[j] # "none" => doc[j] # "absent"
  /\ \A c \in Cancellers :
       /\ can[c].step \in {"unqueue", "save"} => can[c].todo # {}
       /\ can[c].step \in {"idle", "find"} => can[c].todo = {}
       /\ can[c].todo \subseteq known[c]
       /\ \A j \in known[c] : doc[j] # "absent"

TypeInv == TypeOK /\ Worked /\ Ahead /\ InHand

LEMMA FirstIn ==
  ASSUME NEW S, S # {}
  PROVE  First(S) \in S
  BY DEF First

SchedType == [step: {"create", "add", "link", "done", "aborted"}, job: 1..N + 1]

CanStep == {"idle", "find", "unqueue", "save", "delete", "ok", "failed"}

CanType == [step: CanStep, kind: {"cancel", "remove"}, todo: SUBSET Jobs,
            ids: SUBSET Jobs]

RunStep == {"idle", "read", "close", "send", "mark", "return", "catch", "throw"}

RunType == [step: RunStep, job: Jobs \cup {NoJob}, saw: {"live", "dead", "gone"},
            sent: BOOLEAN]

StoreType ==
  /\ now \in 0..MaxNow
  /\ appt \in {"live", "dead", "gone"}
  /\ connected \in BOOLEAN
  /\ doc \in [Jobs -> {"absent", "pending", "sent", "failed", "cancelled"}]
  /\ linked \subseteq Jobs
  /\ queue \in [Jobs -> {"none", "delayed", "active", "retry", "completed",
                         "failed", "removed"}]
  /\ made \in [Jobs -> 0..MaxAttempts]
  /\ stalls \in [Jobs -> 0..MaxStalls]
  /\ crashes \in 0..MaxCrashes

HistoryType ==
  /\ known \in [Cancellers -> SUBSET Jobs]
  /\ delivered \in [Jobs -> Nat]
  /\ doubt \in [Jobs -> Nat]
  /\ late \in Nat
  /\ skipped \subseteq Jobs
  /\ wasDead \in BOOLEAN
  /\ faulty \in BOOLEAN

LEMMA Typed ==
  TypeOK <=> /\ StoreType /\ HistoryType
             /\ sched \in SchedType
             /\ can \in [Cancellers -> CanType]
             /\ run \in [Workers -> RunType]
  BY DEF TypeOK, StoreType, HistoryType, SchedType, CanType, CanStep, RunType, RunStep

LEMMA CanGotoTyped ==
  ASSUME can \in [Cancellers -> CanType], NEW c \in Cancellers,
         NEW s \in CanStep, CanGoto(c, s)
  PROVE  /\ can' \in [Cancellers -> CanType]
         /\ can'[c].step = s /\ can'[c].kind = can[c].kind
         /\ can'[c].todo = can[c].todo
         /\ \A b \in Cancellers \ {c} : can'[b] = can[b]
  BY DEF CanGoto, CanType

LEMMA RunGotoTyped ==
  ASSUME run \in [Workers -> RunType], NEW w \in Workers,
         NEW s \in RunStep, RunGoto(w, s)
  PROVE  /\ run' \in [Workers -> RunType]
         /\ run'[w].step = s /\ run'[w].job = run[w].job
         /\ run'[w].saw = run[w].saw /\ run'[w].sent = run[w].sent
         /\ \A v \in Workers \ {w} : run'[v] = run[v]
  BY DEF RunGoto, RunType

LEMMA TypeInit == Init => TypeInv
  <1> SUFFICES ASSUME Init PROVE TypeInv
    OBVIOUS
  <1>1. \A c \in Cancellers : /\ can[c].step = "idle" /\ can[c].todo = {}
                              /\ can[c].kind \in {"cancel", "remove"}
                              /\ can[c].ids = {}
    BY DEF Init
  <1>2. TypeOK
    <2>1. sched \in [step: {"create", "add", "link", "done", "aborted"},
                    job: 1..N + 1]
      BY DEF Init
    <2>3. run \in [Workers ->
                     [step: {"idle", "read", "close", "send", "mark",
                             "return", "catch", "throw"},
                      job: Jobs \cup {NoJob}, saw: {"live", "dead", "gone"},
                      sent: BOOLEAN]]
      BY DEF Init, Idle
    <2>4. 0 \in 0..MaxNow /\ 0 \in 0..MaxAttempts /\ 0 \in 0..MaxStalls
          /\ 0 \in 0..MaxCrashes
      OBVIOUS
    <2>2. can \in [Cancellers ->
                     [step: {"idle", "find", "unqueue", "save", "delete", "ok",
                             "failed"},
                      kind: {"cancel", "remove"},
                      todo: SUBSET Jobs, ids: SUBSET Jobs]]
      BY DEF Init
    <2> QED
      BY <2>1, <2>2, <2>3, <2>4 DEF Init, TypeOK
  <1>3. Worked
    BY DEF Init, Worked, Busy, Idle
  <1>4. Ahead
    BY DEF Init, Ahead
  <1>5. InHand
    BY <1>1 DEF Init, InHand
  <1> QED
    BY <1>2, <1>3, <1>4, <1>5 DEF TypeInv

LEMMA TypeSchedule ==
  ASSUME TypeInv, Schedule \/ SchedFail
  PROVE  TypeInv'
  <1>1. TypeOK /\ Worked /\ Ahead /\ InHand
    BY DEF TypeInv
  <1>2. sched \in SchedType
    BY <1>1 DEF TypeOK, SchedType
  <1>3. sched.job \in Int /\ (sched.job \in Jobs => sched.job + 1 \in 1..N + 1)
    BY <1>2 DEF Jobs, SchedType
  <1>4. sched' \in SchedType
    <2>1. \A s \in {"create", "add", "link", "done", "aborted"}, j \in 1..N + 1 :
            [step |-> s, job |-> j] \in SchedType
      BY DEF SchedType
    <2>2. sched.step = "link" => sched.job \in Jobs
      BY <1>1 DEF Ahead
    <2>3. sched.job \in 1..N + 1 /\ sched = [step |-> sched.step, job |-> sched.job]
      BY <1>2 DEF SchedType
    <2> QED
      BY <1>2, <1>3, <2>1, <2>2, <2>3 DEF Schedule, SchedCreate, SchedAdd, SchedLink,
         SchedFail, SchedGoto
  <1>5. TypeOK'
    <2>1. sched.step = "add" => sched.job \in Jobs
      BY <1>1 DEF Ahead
    <2>2. CASE SchedCreate
      BY <1>1, <1>4, <2>2 DEF TypeOK, SchedType, SchedCreate
    <2>3. CASE SchedAdd
      BY <1>1, <1>4, <2>1, <2>3 DEF TypeOK, SchedType, SchedAdd
    <2>4. CASE SchedLink
      BY <1>1, <1>4, <2>4, <1>2 DEF TypeOK, SchedType, SchedLink, Ahead
    <2>5. CASE SchedFail
      BY <1>1, <1>4, <2>1, <2>5 DEF TypeOK, SchedType, SchedFail
    <2> QED
      BY <2>2, <2>3, <2>4, <2>5 DEF Schedule
  <1>6. Worked'
    BY <1>1 DEF Worked, Busy, Ahead, TypeOK, Schedule, SchedCreate, SchedAdd,
       SchedLink, SchedFail
  <1>7. Ahead'
    <2>1. \A j \in Jobs : j \in Int
      BY DEF Jobs
    <2>2. CASE SchedCreate
      BY <1>1, <1>3, <2>1, <2>2 DEF SchedCreate, SchedGoto, Ahead, TypeOK
    <2>3. CASE SchedAdd
      BY <1>1, <1>3, <2>1, <2>3 DEF SchedAdd, SchedGoto, Ahead, TypeOK, InHand
    <2>4. CASE SchedLink
      BY <1>1, <1>3, <2>1, <2>4 DEF SchedLink, SchedGoto, Ahead
    <2>5. CASE SchedFail
      BY <2>5 DEF SchedFail, SchedGoto, Ahead
    <2> QED
      BY <2>2, <2>3, <2>4, <2>5 DEF Schedule
  <1>8. InHand'
    BY <1>1 DEF InHand, Ahead, TypeOK, Schedule, SchedCreate, SchedAdd, SchedLink,
       SchedFail
  <1> QED
    BY <1>5, <1>6, <1>7, <1>8 DEF TypeInv

LEMMA CanNextIn ==
  ASSUME NEW k, NEW S
  PROVE  /\ CanNext(k, S) \in CanStep
         /\ CanNext(k, S) \notin {"idle", "find", "save", "failed"}
         /\ CanNext(k, S) = "unqueue" <=> S # {}
         /\ CanNext(k, S) = "ok" => k # "remove"
  BY DEF CanNext, CanStep

\* The steps of a canceller, one by one, as functions of the old state.
LEMMA CancelTyped ==
  ASSUME TypeInv, NEW c \in Cancellers,
         CancelBegin(c) \/ Cancel(c) \/ CancelFail(c)
  PROVE  /\ can' \in [Cancellers -> CanType]
         /\ \A b \in Cancellers \ {c} : can'[b] = can[b]
         /\ can'[c].kind = can[c].kind
         /\ UNCHANGED <<now, connected, linked, made, stalls, sched, run, crashes,
                        delivered, doubt, late, skipped>>
  <1>1. can \in [Cancellers -> CanType] /\ StoreType
    BY Typed DEF TypeInv
  <1>2. CASE CancelBegin(c) \/ CancelUnqueue(c) \/ CancelDelete(c) \/ CancelFail(c)
    <2>1. PICK s \in CanStep : CanGoto(c, s)
      BY <1>2 DEF CancelBegin, CancelUnqueue, CancelDelete, CancelFail, CanStep
    <2> QED
      BY <1>1, <1>2, <2>1, CanGotoTyped DEF CancelBegin, CancelUnqueue, CancelDelete,
         CancelFail
  <1>3. CASE CancelFind(c)
    <2> DEFINE found == {j \in Jobs : doc[j] = "pending"}
               s == CanNext(can[c].kind, found)
    <2>1. s \in CanStep
      BY CanNextIn
    <2>2. can' = [can EXCEPT ![c].todo = found, ![c].ids = found \cap linked,
                             ![c].step = s]
      BY <1>3 DEF CancelFind
    <2>3. found \in SUBSET Jobs
      OBVIOUS
    <2>4. UNCHANGED <<now, connected, linked, made, stalls, sched, run, crashes,
                     delivered, doubt, late, skipped>>
      BY <1>3 DEF CancelFind
    <2>5. found \cap linked \in SUBSET Jobs
      OBVIOUS
    <2> HIDE DEF found, s
    <2>6. /\ can' \in [Cancellers -> CanType]
          /\ \A b \in Cancellers \ {c} : can'[b] = can[b]
          /\ can'[c].kind = can[c].kind
      <3> DEFINE next == [can[c] EXCEPT !.todo = found,
                                        !.ids = found \cap linked, !.step = s]
      <3>1. can[c] \in CanType
        BY <1>1
      <3>2. next \in CanType /\ next.kind = can[c].kind
        BY <2>1, <2>3, <2>5, <3>1 DEF CanType
      <3>3. can' = [can EXCEPT ![c] = next]
        BY <2>2
      <3> HIDE DEF next
      <3> QED
        BY <1>1, <3>2, <3>3
    <2> QED
      BY <2>4, <2>6
  <1>4. CASE CancelSaveJob(c)
    <2> DEFINE rest == can[c].todo \ {First(can[c].todo)}
               s == CanNext(can[c].kind, rest)
    <2>1. s \in CanStep
      BY CanNextIn
    <2>2. can' = [can EXCEPT ![c].todo = rest, ![c].step = s]
      BY <1>4 DEF CancelSaveJob
    <2>3. rest \in SUBSET Jobs
      BY <1>1 DEF CanType
    <2>4. UNCHANGED <<now, connected, linked, made, stalls, sched, run, crashes,
                     delivered, doubt, late, skipped>>
      BY <1>4 DEF CancelSaveJob
    <2> HIDE DEF rest, s
    <2>5. /\ can' \in [Cancellers -> CanType]
          /\ \A b \in Cancellers \ {c} : can'[b] = can[b]
          /\ can'[c].kind = can[c].kind
      BY <1>1, <2>1, <2>2, <2>3 DEF CanType
    <2> QED
      BY <2>4, <2>5
  <1> QED
    BY <1>2, <1>3, <1>4 DEF Cancel

\* What the steps of a canceller do to the rest.
LEMMA CancelEffect ==
  ASSUME TypeInv, NEW c \in Cancellers,
         CancelBegin(c) \/ Cancel(c) \/ CancelFail(c)
  PROVE  /\ StoreType' /\ HistoryType'
         /\ \A j \in Jobs :
              \/ queue'[j] = queue[j]
              \/ queue[j] \in {"delayed", "retry", "failed"} /\ queue'[j] = "removed"
         /\ \A j \in Jobs :
              \/ doc'[j] = doc[j]
              \/ doc[j] # "absent" /\ doc'[j] = "cancelled"
         /\ \A b \in Cancellers \ {c} : known'[b] = known[b]
         /\ \/ known' = known /\ can'[c].todo \subseteq can[c].todo
            \/ /\ can[c].step = "find"
               /\ known'[c] = {j \in Jobs : doc[j] # "absent"}
               /\ can'[c].todo = {j \in Jobs : doc[j] = "pending"}
         /\ can'[c].step \in {"unqueue", "save"} => can'[c].todo # {}
         /\ can'[c].step \in {"idle", "find"} => can'[c].todo = {}
  <1>1. /\ can \in [Cancellers -> CanType] /\ StoreType /\ HistoryType
        /\ UNCHANGED <<now, connected, linked, made, stalls, crashes, delivered,
                       doubt, late, skipped>>
    BY Typed, CancelTyped DEF TypeInv
  <1>2. /\ can[c].step \in {"unqueue", "save"} => can[c].todo # {}
        /\ can[c].step \in {"idle", "find"} => can[c].todo = {}
        /\ can[c].todo \subseteq known[c]
        /\ \A j \in known[c] : doc[j] # "absent"
        /\ can[c].todo \subseteq Jobs
    BY <1>1 DEF TypeInv, InHand, CanType
  <1>3. CASE CancelBegin(c)
    <2>1. PICK s \in {"failed", "find"} : CanGoto(c, s) /\ can[c].step = "idle"
      BY <1>3 DEF CancelBegin
    <2>2. can'[c].step = s /\ can'[c].todo = can[c].todo
      BY <1>1, <2>1, CanGotoTyped DEF CanStep
    <2>3. UNCHANGED <<doc, queue, known, faulty>> /\ appt' \in {"live", "dead", "gone"}
          /\ wasDead' \in BOOLEAN
      BY <1>1, <1>3 DEF CancelBegin, StoreType, HistoryType
    <2> QED
      BY <1>1, <1>2, <2>1, <2>2, <2>3 DEF StoreType, HistoryType
  <1>4. CASE CancelFind(c)
    <2> DEFINE found == {j \in Jobs : doc[j] = "pending"}
               s == CanNext(can[c].kind, found)
    <2>1. /\ s \notin {"idle", "find", "save", "failed"}
          /\ s = "unqueue" => found # {}
      BY CanNextIn
    <2>2. can' = [can EXCEPT ![c].todo = found, ![c].ids = found \cap linked,
                             ![c].step = s]
      BY <1>4 DEF CancelFind
    <2>3. /\ UNCHANGED <<appt, doc, queue, faulty, wasDead>> /\ can[c].step = "find"
          /\ known' = [known EXCEPT ![c] = {j \in Jobs : doc[j] # "absent"}]
      BY <1>4 DEF CancelFind
    <2> HIDE DEF found, s
    <2>4. can'[c].todo = found /\ can'[c].step = s
      BY <1>1, <2>2 DEF CanType
    <2>5. StoreType' /\ HistoryType'
      BY <1>1, <2>3 DEF StoreType, HistoryType
    <2>6. /\ \A b \in Cancellers \ {c} : known'[b] = known[b]
          /\ known'[c] = {j \in Jobs : doc[j] # "absent"}
      BY <1>1, <2>3 DEF HistoryType
    <2>7. found = {j \in Jobs : doc[j] = "pending"}
      BY DEF found
    <2> QED
      BY <2>1, <2>3, <2>4, <2>5, <2>6, <2>7
  <1>5. CASE CancelUnqueue(c)
    <2>1. First(can[c].todo) \in Jobs
      BY <1>2, <1>5, FirstIn DEF CancelUnqueue
    <2>2. can'[c].step = "save" /\ can'[c].todo = can[c].todo /\ can[c].step = "unqueue"
      BY <1>1, <1>5, CanGotoTyped DEF CancelUnqueue, CanStep
    <2>3. UNCHANGED <<appt, doc, known, wasDead>> /\ faulty' \in BOOLEAN
      BY <1>1, <1>5 DEF CancelUnqueue, HistoryType
    <2>4. \/ queue' = queue
          \/ /\ queue' = [queue EXCEPT ![First(can[c].todo)] = "removed"]
             /\ queue[First(can[c].todo)] \in {"delayed", "retry", "failed"}
      BY <1>5 DEF CancelUnqueue
    <2>5. StoreType' /\ HistoryType'
      BY <1>1, <2>3, <2>4 DEF StoreType, HistoryType
    <2> QED
      BY <1>1, <1>2, <2>1, <2>2, <2>3, <2>4, <2>5 DEF StoreType
  <1>6. CASE CancelSaveJob(c)
    <2> DEFINE first == First(can[c].todo)
               rest == can[c].todo \ {first}
               s == CanNext(can[c].kind, rest)
    <2>1. /\ s \notin {"idle", "find", "save", "failed"}
          /\ s = "unqueue" => rest # {}
      BY CanNextIn
    <2>2. first \in Jobs /\ doc[first] # "absent"
      BY <1>2, <1>6, FirstIn DEF CancelSaveJob
    <2>3. /\ can' = [can EXCEPT ![c].todo = rest, ![c].step = s]
          /\ doc' = [doc EXCEPT ![first] = "cancelled"]
          /\ UNCHANGED <<appt, queue, known, faulty, wasDead>>
      BY <1>6 DEF CancelSaveJob
    <2>4. rest \subseteq can[c].todo
      OBVIOUS
    <2> HIDE DEF first, rest, s
    <2>5. can'[c].todo = rest /\ can'[c].step = s
      BY <1>1, <2>3 DEF CanType
    <2>6. StoreType' /\ HistoryType'
      BY <1>1, <2>3 DEF StoreType, HistoryType
    <2>7. \A j \in Jobs : \/ doc'[j] = doc[j]
                          \/ doc[j] # "absent" /\ doc'[j] = "cancelled"
      BY <1>1, <2>2, <2>3 DEF StoreType
    <2> QED
      BY <2>1, <2>3, <2>4, <2>5, <2>6, <2>7
  <1>7. CASE CancelDelete(c) \/ CancelFail(c)
    <2>1. PICK s \in {"ok", "failed"} : CanGoto(c, s)
      BY <1>7 DEF CancelDelete, CancelFail
    <2>2. can'[c].step = s /\ can'[c].todo = can[c].todo
      BY <1>1, <2>1, CanGotoTyped DEF CanStep
    <2>3. UNCHANGED <<doc, queue, known, wasDead>> /\ appt' \in {"live", "dead", "gone"}
          /\ faulty' \in BOOLEAN
      BY <1>1, <1>7 DEF CancelDelete, CancelFail, StoreType, HistoryType
    <2> QED
      BY <1>1, <2>1, <2>2, <2>3 DEF StoreType, HistoryType
  <1> QED
    BY <1>3, <1>4, <1>5, <1>6, <1>7 DEF Cancel

LEMMA TypeCancel ==
  ASSUME TypeInv, NEW c \in Cancellers,
         CancelBegin(c) \/ Cancel(c) \/ CancelFail(c)
  PROVE  TypeInv'
  <1>1. /\ can' \in [Cancellers -> CanType]
        /\ \A b \in Cancellers \ {c} : can'[b] = can[b]
        /\ UNCHANGED <<made, sched, run>>
    BY CancelTyped
  <1>2. /\ StoreType /\ HistoryType /\ sched \in SchedType /\ run \in [Workers -> RunType]
        /\ Worked /\ Ahead /\ InHand
    BY Typed DEF TypeInv
  <1>3. /\ StoreType' /\ HistoryType'
        /\ \A j \in Jobs :
             \/ queue'[j] = queue[j]
             \/ queue[j] \in {"delayed", "retry", "failed"} /\ queue'[j] = "removed"
        /\ \A j \in Jobs :
             \/ doc'[j] = doc[j]
             \/ doc[j] # "absent" /\ doc'[j] = "cancelled"
    BY CancelEffect
  <1>4. TypeOK'
    <2>1. sched' \in SchedType /\ run' \in [Workers -> RunType]
      BY <1>1, <1>2
    <2> QED
      BY <1>1, <1>3, <2>1 DEF TypeOK, StoreType, HistoryType, SchedType, CanType,
         CanStep, RunType, RunStep
  <1>5. Worked'
    BY <1>1, <1>2, <1>3 DEF Worked, Busy
  <1>6. Ahead'
    BY <1>1, <1>2, <1>3 DEF Ahead
  <1>7. InHand'
    <2>1. \A j \in Jobs : queue'[j] # "none" => doc'[j] # "absent"
      BY <1>2, <1>3 DEF InHand
    <2>2. SUFFICES ASSUME NEW b \in Cancellers
                   PROVE  /\ can'[b].step \in {"unqueue", "save"} => can'[b].todo # {}
                          /\ can'[b].step \in {"idle", "find"} => can'[b].todo = {}
                          /\ can'[b].todo \subseteq known'[b]
                          /\ \A j \in known'[b] : doc'[j] # "absent"
      BY <2>1 DEF InHand
    <2>3. CASE b # c
      <3>1. known'[b] = known[b] /\ can'[b] = can[b]
        BY <1>1, <2>3, CancelEffect
      <3>2. known[b] \subseteq Jobs
        BY <1>2 DEF HistoryType
      <3> QED
        BY <1>2, <1>3, <3>1, <3>2 DEF InHand
    <2>4. CASE b = c
      <3>1. /\ \/ known' = known /\ can'[c].todo \subseteq can[c].todo
               \/ /\ known'[c] = {j \in Jobs : doc[j] # "absent"}
                  /\ can'[c].todo = {j \in Jobs : doc[j] = "pending"}
            /\ can'[c].step \in {"unqueue", "save"} => can'[c].todo # {}
            /\ can'[c].step \in {"idle", "find"} => can'[c].todo = {}
        BY CancelEffect
      <3>2. known[c] \subseteq Jobs
        BY <1>2 DEF HistoryType
      <3> QED
        BY <1>2, <1>3, <2>4, <3>1, <3>2 DEF InHand
    <2> QED
      BY <2>3, <2>4
  <1> QED
    BY <1>4, <1>5, <1>6, <1>7 DEF TypeInv

\* The part of a run that lies between Take and Return or Throw.
Handle(w) ==
  \/ ReadAppointment(w) \/ Close(w) \/ Send(w) \/ MarkSent(w) \/ Catch(w)

LEMMA RecordTyped ==
  ASSUME NEW S, NEW s \in S, NEW w \in Workers, run \in [Workers -> RunType],
         doc \in [Jobs -> S], faulty \in BOOLEAN, run[w].job \in Jobs, Record(w, s)
  PROVE  /\ run' \in [Workers -> RunType]
         /\ run'[w].step \in {"return", "catch"}
         /\ run'[w].job = run[w].job /\ run'[w].saw = run[w].saw
         /\ run'[w].sent = run[w].sent
         /\ \A v \in Workers \ {w} : run'[v] = run[v]
         /\ doc' \in [Jobs -> S] /\ faulty' \in BOOLEAN
         /\ \A j \in Jobs \ {run[w].job} : doc'[j] = doc[j]
         /\ run'[w].step = "return" => doc'[run[w].job] = s
         /\ run'[w].step = "catch" => doc' = doc
  <1>1. PICK t \in {"return", "catch"} : RunGoto(w, t)
    BY DEF Record
  <1>2. /\ run' \in [Workers -> RunType]
        /\ run'[w].step = t
        /\ run'[w].job = run[w].job /\ run'[w].saw = run[w].saw
        /\ run'[w].sent = run[w].sent
        /\ \A v \in Workers \ {w} : run'[v] = run[v]
    BY <1>1, RunGotoTyped DEF RunStep
  <1>3. \/ doc' = [doc EXCEPT ![run[w].job] = s] /\ RunGoto(w, "return") /\ faulty' = faulty
        \/ doc' = doc /\ RunGoto(w, "catch") /\ faulty' = TRUE
    BY DEF Record
  <1>4. \/ /\ doc' = [doc EXCEPT ![run[w].job] = s] /\ faulty' = faulty
           /\ run'[w].step = "return"
        \/ doc' = doc /\ faulty' = TRUE /\ run'[w].step = "catch"
    BY <1>3, RunGotoTyped DEF RunStep
  <1> QED
    BY <1>2, <1>4

\* A run in its middle keeps its job, and writes the document of that job only.
LEMMA HandleEffect ==
  ASSUME TypeInv, NEW w \in Workers, Handle(w)
  PROVE  /\ Busy(w) /\ run[w].job \in Jobs /\ queue[run[w].job] = "active"
         /\ run' \in [Workers -> RunType]
         /\ run'[w].step # "idle" /\ run'[w].job = run[w].job
         /\ \A v \in Workers \ {w} : run'[v] = run[v]
         /\ UNCHANGED <<now, appt, connected, linked, queue, made, stalls, sched, can,
                        crashes, known, doubt, wasDead>>
         /\ \A j \in Jobs \ {run[w].job} : /\ doc'[j] = doc[j]
                                           /\ delivered'[j] = delivered[j]
         /\ doc'[run[w].job] # "absent"
         /\ StoreType' /\ HistoryType'
  <1>1. /\ StoreType /\ HistoryType /\ run \in [Workers -> RunType]
        /\ Worked /\ Ahead /\ InHand
    BY Typed DEF TypeInv
  <1>2. Busy(w)
    BY DEF Handle, Busy, ReadAppointment, Close, Send, MarkSent, Catch
  <1>3. run[w].job \in Jobs /\ queue[run[w].job] = "active"
    BY <1>1, <1>2 DEF Worked
  <1>4. doc[run[w].job] # "absent"
    BY <1>1, <1>3 DEF InHand
  <1>5. run[w] \in RunType
    BY <1>1
  <1>6. CASE ReadAppointment(w)
    <2>1. \/ RunGoto(w, "catch")
          \/ run' = [run EXCEPT ![w].step = AfterRead(appt), ![w].saw = appt]
      BY <1>6 DEF ReadAppointment
    <2>2. AfterRead(appt) \in RunStep \ {"idle"}
      BY DEF AfterRead, RunStep
    <2>3. appt \in {"live", "dead", "gone"}
      BY <1>1 DEF StoreType
    <2>4. /\ run' \in [Workers -> RunType]
          /\ run'[w].step # "idle" /\ run'[w].job = run[w].job
          /\ \A v \in Workers \ {w} : run'[v] = run[v]
      <3>1. CASE RunGoto(w, "catch")
        BY <1>1, <3>1, RunGotoTyped DEF RunStep
      <3>2. CASE run' = [run EXCEPT ![w].step = AfterRead(appt), ![w].saw = appt]
        BY <1>1, <2>2, <2>3, <3>2 DEF RunType
      <3> QED
        BY <2>1, <3>1, <3>2
    <2> QED
      BY <1>1, <1>2, <1>3, <1>4, <1>6, <2>4 DEF ReadAppointment, StoreType, HistoryType
  <1>7. CASE Close(w) \/ MarkSent(w)
    <2> DEFINE S == {"absent", "pending", "sent", "failed", "cancelled"}
    <2>1. PICK s \in {"failed", "cancelled", "sent"} : Record(w, s)
      BY <1>7 DEF Close, MarkSent
    <2>2. doc \in [Jobs -> S] /\ faulty \in BOOLEAN
      BY <1>1 DEF StoreType, HistoryType
    <2> HIDE DEF S
    <2>3. /\ run' \in [Workers -> RunType]
          /\ run'[w].step # "idle" /\ run'[w].job = run[w].job
          /\ \A v \in Workers \ {w} : run'[v] = run[v]
          /\ doc' \in [Jobs -> S] /\ faulty' \in BOOLEAN
          /\ \A j \in Jobs \ {run[w].job} : doc'[j] = doc[j]
          /\ doc'[run[w].job] # "absent"
      <3>1. s \in S
        BY DEF S
      <3>2. /\ run' \in [Workers -> RunType]
            /\ run'[w].step \in {"return", "catch"}
            /\ run'[w].job = run[w].job
            /\ \A v \in Workers \ {w} : run'[v] = run[v]
            /\ doc' \in [Jobs -> S] /\ faulty' \in BOOLEAN
            /\ \A j \in Jobs \ {run[w].job} : doc'[j] = doc[j]
            /\ run'[w].step = "return" => doc'[run[w].job] = s
            /\ run'[w].step = "catch" => doc' = doc
        BY <1>1, <1>3, <2>1, <2>2, <3>1, RecordTyped
      <3> QED
        BY <1>4, <3>2
    <2> QED
      BY <1>1, <1>2, <1>3, <1>7, <2>3 DEF Close, MarkSent, StoreType, HistoryType, S
  <1>8. CASE Send(w)
    <2>1. \/ /\ \E t \in {"mark", "catch"} : RunGoto(w, t)
             /\ delivered' = delivered /\ late' = late
          \/ /\ \E t \in {"mark", "catch"} :
                  run' = [run EXCEPT ![w].step = t, ![w].sent = TRUE]
             /\ delivered' = [delivered EXCEPT ![run[w].job] = @ + 1]
             /\ late' \in {late, late + 1}
      BY <1>8 DEF Send
    <2>2. skipped' \subseteq skipped \cup {run[w].job}
      BY <1>8 DEF Send
    <2>3. /\ run' \in [Workers -> RunType]
          /\ run'[w].step # "idle" /\ run'[w].job = run[w].job
          /\ \A v \in Workers \ {w} : run'[v] = run[v]
      <3>1. CASE \E t \in {"mark", "catch"} : RunGoto(w, t)
        BY <1>1, <3>1, RunGotoTyped DEF RunStep
      <3>2. ASSUME NEW t \in {"mark", "catch"},
                   run' = [run EXCEPT ![w].step = t, ![w].sent = TRUE]
            PROVE  /\ run' \in [Workers -> RunType]
                   /\ run'[w].step # "idle" /\ run'[w].job = run[w].job
                   /\ \A v \in Workers \ {w} : run'[v] = run[v]
        <4>1. t \in RunStep /\ t # "idle"
          BY DEF RunStep
        <4>2. run[w] \in RunType
          BY <1>1
        <4> DEFINE next == [run[w] EXCEPT !.step = t, !.sent = TRUE]
        <4>3. next \in RunType /\ next.step = t /\ next.job = run[w].job
          BY <4>1, <4>2 DEF RunType
        <4>4. run' = [run EXCEPT ![w] = next]
          BY <3>2
        <4> QED
          BY <1>1, <4>1, <4>3, <4>4
      <3> QED
        BY <2>1, <3>1, <3>2
    <2>4. UNCHANGED <<now, appt, connected, doc, linked, queue, made, stalls, sched, can,
                      crashes, known, doubt, wasDead, faulty>>
      BY <1>8 DEF Send
    <2>5. StoreType' /\ HistoryType'
      BY <1>1, <1>3, <2>1, <2>2, <2>4 DEF StoreType, HistoryType
    <2>6. \A j \in Jobs \ {run[w].job} : delivered'[j] = delivered[j]
      BY <1>1, <2>1 DEF HistoryType
    <2> QED
      BY <1>2, <1>3, <1>4, <2>3, <2>4, <2>5, <2>6
  <1>9. CASE Catch(w)
    <2>1. RunGoto(w, "throw")
      BY <1>9 DEF Catch
    <2>2. /\ run' \in [Workers -> RunType]
          /\ run'[w].step = "throw" /\ run'[w].job = run[w].job
          /\ \A v \in Workers \ {w} : run'[v] = run[v]
      BY <1>1, <2>1, RunGotoTyped DEF RunStep
    <2>3. doc' = doc \/ doc' = [doc EXCEPT ![run[w].job] = "failed"]
      BY <1>9 DEF Catch
    <2>4. UNCHANGED <<now, appt, connected, linked, queue, made, stalls, sched, can,
                      crashes, known, delivered, doubt, late, skipped, wasDead>>
          /\ faulty' \in BOOLEAN
      BY <1>1, <1>9 DEF Catch, HistoryType
    <2> QED
      BY <1>1, <1>2, <1>3, <1>4, <2>2, <2>3, <2>4 DEF StoreType, HistoryType
  <1> QED
    BY <1>6, <1>7, <1>8, <1>9 DEF Handle

LEMMA TypeHandle ==
  ASSUME TypeInv, NEW w \in Workers, Handle(w)
  PROVE  TypeInv'
  <1>1. /\ StoreType /\ HistoryType /\ run \in [Workers -> RunType]
        /\ sched \in SchedType /\ can \in [Cancellers -> CanType]
        /\ Worked /\ Ahead /\ InHand
    BY Typed DEF TypeInv
  <1>2. /\ Busy(w) /\ run[w].job \in Jobs /\ queue[run[w].job] = "active"
        /\ run' \in [Workers -> RunType]
        /\ run'[w].step # "idle" /\ run'[w].job = run[w].job
        /\ \A v \in Workers \ {w} : run'[v] = run[v]
        /\ UNCHANGED <<queue, made, sched, can, known>>
        /\ \A j \in Jobs \ {run[w].job} : doc'[j] = doc[j]
        /\ doc'[run[w].job] # "absent"
        /\ StoreType' /\ HistoryType'
    BY HandleEffect
  <1>3. TypeOK'
    BY <1>1, <1>2 DEF TypeOK, StoreType, HistoryType, SchedType, CanType, CanStep,
       RunType, RunStep
  <1>4. Worked'
    BY <1>1, <1>2 DEF Worked, Busy
  <1>5. Ahead'
    BY <1>1, <1>2 DEF Ahead
  <1>6. known \in [Cancellers -> SUBSET Jobs]
    BY <1>1 DEF HistoryType
  <1>7. InHand'
    BY <1>1, <1>2, <1>6 DEF InHand
  <1> QED
    BY <1>3, <1>4, <1>5, <1>7 DEF TypeInv

LEMMA TypeTake ==
  ASSUME TypeInv, NEW w \in Workers, Take(w)
  PROVE  TypeInv'
  <1>1. /\ StoreType /\ HistoryType /\ run \in [Workers -> RunType]
        /\ sched \in SchedType /\ can \in [Cancellers -> CanType]
        /\ Worked /\ Ahead /\ InHand
    BY Typed DEF TypeInv
  <1>2. PICK j \in Jobs :
          /\ queue[j] \in {"retry", "delayed"}
          /\ queue' = [queue EXCEPT ![j] = "active"]
          /\ run' = [run EXCEPT ![w].step = "read", ![w].job = j]
    BY DEF Take
  <1>3. UNCHANGED <<now, appt, connected, doc, linked, made, stalls, sched, can,
                    crashes, history, faulty>>
    BY DEF Take
  <1>4. /\ run' \in [Workers -> RunType]
        /\ run'[w].step = "read" /\ run'[w].job = j
        /\ \A v \in Workers \ {w} : run'[v] = run[v]
    BY <1>1, <1>2 DEF RunType, RunStep
  <1>5. StoreType' /\ HistoryType'
    BY <1>1, <1>2, <1>3 DEF StoreType, HistoryType
  <1>6. TypeOK'
    BY <1>1, <1>3, <1>4, <1>5 DEF TypeOK, StoreType, HistoryType, SchedType, CanType,
       CanStep, RunType, RunStep
  <1>7. queue'[j] = "active" /\ \A i \in Jobs \ {j} : queue'[i] = queue[i]
    BY <1>1, <1>2 DEF StoreType
  <1>8. Worked'
    BY <1>1, <1>2, <1>3, <1>4, <1>7 DEF Worked, Busy
  <1>9. Ahead'
    BY <1>1, <1>2, <1>3, <1>7 DEF Ahead
  <1>10. InHand'
    BY <1>1, <1>2, <1>3, <1>7 DEF InHand
  <1> QED
    BY <1>6, <1>8, <1>9, <1>10 DEF TypeInv

LEMMA TypeEnd ==
  ASSUME TypeInv, NEW w \in Workers, Return(w) \/ Throw(w)
  PROVE  TypeInv'
  <1>1. /\ StoreType /\ HistoryType /\ run \in [Workers -> RunType]
        /\ sched \in SchedType /\ can \in [Cancellers -> CanType]
        /\ Worked /\ Ahead /\ InHand
    BY Typed DEF TypeInv
  <1> DEFINE j == run[w].job
  <1>2. Busy(w) /\ j \in Jobs /\ queue[j] = "active"
    BY <1>1 DEF Busy, Return, Throw, Worked
  <1>3. run' = [run EXCEPT ![w] = Idle]
    BY DEF Return, Throw
  <1>4. /\ run' \in [Workers -> RunType] /\ run'[w] = Idle
        /\ \A v \in Workers \ {w} : run'[v] = run[v]
    BY <1>1, <1>3 DEF RunType, RunStep, Idle
  <1>5. UNCHANGED <<now, appt, connected, doc, linked, stalls, sched, can,
                    crashes, known, delivered, late, skipped, wasDead, faulty>>
    BY DEF Return, Throw
  <1>6. made[j] \in 0..MaxAttempts /\ made[j] < MaxAttempts
    BY <1>1, <1>2 DEF StoreType, Worked
  <1>7. /\ \A i \in Jobs \ {j} : queue'[i] = queue[i] /\ made'[i] = made[i]
        /\ made'[j] \in 0..MaxAttempts
        /\ queue'[j] \in {"completed", "failed", "retry"}
        /\ queue'[j] = "retry" => made'[j] < MaxAttempts
        /\ queue' \in [Jobs -> {"none", "delayed", "active", "retry", "completed",
                                "failed", "removed"}]
        /\ made' \in [Jobs -> 0..MaxAttempts]
    <2>1. CASE Return(w)
      BY <1>1, <1>2, <1>6, <2>1 DEF StoreType, Return
    <2>2. CASE Throw(w)
      <3>1. made' = [made EXCEPT ![j] = @ + 1]
        BY <2>2 DEF Throw, Count
      <3>2. queue' = [queue EXCEPT ![j] =
                        IF made'[j] < MaxAttempts THEN "retry" ELSE "failed"]
        BY <2>2 DEF Throw
      <3>3. made[j] + 1 \in 0..MaxAttempts
        BY <1>6
      <3> QED
        BY <1>1, <1>2, <3>1, <3>2, <3>3 DEF StoreType
    <2> QED
      BY <2>1, <2>2
  <1>8. doubt' \in [Jobs -> Nat]
    BY <1>1, <1>2 DEF Return, Throw, Doubted, HistoryType
  <1>9. StoreType' /\ HistoryType'
    BY <1>1, <1>5, <1>7, <1>8 DEF StoreType, HistoryType
  <1>10. TypeOK'
    BY <1>1, <1>4, <1>5, <1>9 DEF TypeOK, StoreType, HistoryType, SchedType, CanType,
       CanStep, RunType, RunStep
  <1>11. Worked'
    <2>1. \A v \in Workers : Busy(v)' => v # w /\ Busy(v)
      BY <1>4 DEF Busy, Idle
    <2>2. \A v \in Workers : Busy(v)' => run'[v].job \in Jobs /\ queue'[run'[v].job] = "active"
      BY <1>1, <1>2, <1>4, <1>7, <2>1 DEF Worked
    <2>3. \A i \in Jobs :
            queue'[i] \in {"none", "delayed", "retry", "active"} => made'[i] < MaxAttempts
      BY <1>1, <1>7 DEF Worked
    <2>4. \A u, v \in Workers :
            Busy(u)' /\ Busy(v)' /\ u # v => run'[u].job # run'[v].job
      BY <1>1, <1>4, <2>1 DEF Worked
    <2> QED
      BY <2>2, <2>3, <2>4 DEF Worked
  <1>12. Ahead'
    BY <1>1, <1>2, <1>5, <1>7 DEF Ahead
  <1>13. InHand'
    BY <1>1, <1>2, <1>5, <1>7 DEF InHand
  <1> QED
    BY <1>10, <1>11, <1>12, <1>13 DEF TypeInv

LEMMA TypeCrash ==
  ASSUME TypeInv, Crash
  PROVE  TypeInv'
  <1>1. /\ StoreType /\ HistoryType /\ run \in [Workers -> RunType]
        /\ sched \in SchedType /\ can \in [Cancellers -> CanType]
        /\ Worked /\ Ahead /\ InHand
    BY Typed DEF TypeInv
  <1> DEFINE busy == {w \in Workers : run[w].step # "idle"}
             hit  == {run[w].job : w \in busy}
             sent == {run[w].job : w \in {v \in busy : run[v].sent}}
  <1>2. /\ queue' = [j \in Jobs |->
                      IF j \notin hit THEN queue[j]
                      ELSE IF stalls[j] < MaxStalls THEN "retry" ELSE "failed"]
        /\ stalls' = [j \in Jobs |->
                       IF j \in hit /\ stalls[j] < MaxStalls
                       THEN stalls[j] + 1 ELSE stalls[j]]
        /\ doubt' = [j \in Jobs |-> IF j \in sent THEN doubt[j] + 1 ELSE doubt[j]]
    BY DEF Crash
  <1>3. /\ crashes < MaxCrashes /\ crashes' = crashes + 1 /\ faulty' = TRUE
        /\ run' = [w \in Workers |-> Idle]
        /\ UNCHANGED <<now, appt, connected, doc, linked, made, known, delivered,
                       late, skipped, wasDead>>
        /\ sched' = IF sched.step = "done" THEN sched
                    ELSE [sched EXCEPT !.step = "aborted"]
        /\ can' = [c \in Cancellers |->
                     IF can[c].step \in {"idle", "ok", "failed"} THEN can[c]
                     ELSE [can[c] EXCEPT !.step = "failed"]]
    BY DEF Crash
  <1>4. \A j \in hit : j \in Jobs /\ queue[j] = "active" /\ made[j] < MaxAttempts
    BY <1>1 DEF Worked, Busy
  <1>5. /\ \A j \in Jobs : \/ queue'[j] = queue[j]
                           \/ queue[j] = "active" /\ queue'[j] \in {"retry", "failed"}
                              /\ made[j] < MaxAttempts
        /\ queue' \in [Jobs -> {"none", "delayed", "active", "retry", "completed",
                                "failed", "removed"}]
    <2> HIDE DEF hit, sent
    <2> QED
      BY <1>1, <1>2, <1>4 DEF StoreType
  <1>6. stalls' \in [Jobs -> 0..MaxStalls]
    <2> HIDE DEF hit, sent
    <2> QED
      BY <1>1, <1>2 DEF StoreType
  <1>7. doubt' \in [Jobs -> Nat]
    <2> HIDE DEF hit, sent
    <2> QED
      BY <1>1, <1>2 DEF HistoryType
  <1>8. run' \in [Workers -> RunType] /\ \A w \in Workers : run'[w].step = "idle"
    BY <1>3 DEF RunType, RunStep, Idle
  <1>9. sched' \in SchedType /\ sched'.step \in {"done", "aborted"}
    BY <1>1, <1>3 DEF SchedType
  <1>10. /\ can' \in [Cancellers -> CanType]
         /\ \A c \in Cancellers :
              \/ can'[c] = can[c] /\ can[c].step \in {"idle", "ok", "failed"}
              \/ can'[c].step = "failed" /\ can'[c].todo = can[c].todo
    BY <1>1, <1>3 DEF CanType, CanStep
  <1>11. crashes' \in 0..MaxCrashes
    BY <1>1, <1>3 DEF StoreType
  <1>12. StoreType' /\ HistoryType'
    BY <1>1, <1>3, <1>5, <1>6, <1>7, <1>11 DEF StoreType, HistoryType
  <1>13. TypeOK'
    BY <1>8, <1>9, <1>10, <1>12 DEF TypeOK, StoreType, HistoryType, SchedType, CanType,
       CanStep, RunType, RunStep
  <1>14. Worked'
    BY <1>1, <1>3, <1>5, <1>8 DEF Worked, Busy
  <1>15. Ahead'
    BY <1>9 DEF Ahead
  <1>16. InHand'
    <2>1. known \in [Cancellers -> SUBSET Jobs]
      BY <1>1 DEF HistoryType
    <2> QED
      BY <1>1, <1>3, <1>5, <1>10, <2>1 DEF InHand
  <1> QED
    BY <1>13, <1>14, <1>15, <1>16 DEF TypeInv

LEMMA TypeRest ==
  ASSUME TypeInv,
         MarkNoShow \/ Revive \/ ConnectionUpdate \/ Tick \/ UNCHANGED vars
  PROVE  TypeInv'
  <1>1. TypeOK /\ Worked /\ Ahead /\ InHand
    BY DEF TypeInv
  <1>2. UNCHANGED <<doc, queue, made, sched, can, run, known>>
    BY DEF MarkNoShow, Revive, ConnectionUpdate, Tick
  <1>3. TypeOK'
    <2>1. /\ StoreType /\ HistoryType
          /\ sched \in SchedType /\ run \in [Workers -> RunType]
          /\ can \in [Cancellers -> CanType]
      BY <1>1, Typed
    <2>2. StoreType' /\ HistoryType'
      <3>1. CASE MarkNoShow \/ Revive
        <4>1. late' \in Nat /\ appt' \in {"live", "dead"}
          BY <2>1, <3>1 DEF HistoryType, MarkNoShow, Revive
        <4>3. wasDead' = TRUE \/ wasDead' = wasDead
          BY <3>1, Zenon DEF MarkNoShow, Revive
        <4>2. UNCHANGED <<now, connected, store, crashes, known, delivered, doubt,
                          skipped, faulty>>
          BY <3>1 DEF MarkNoShow, Revive
        <4> QED
          BY <2>1, <4>1, <4>2, <4>3 DEF StoreType, HistoryType
      <3>2. CASE ConnectionUpdate
        BY <2>1, <3>2 DEF StoreType, HistoryType, ConnectionUpdate
      <3>3. CASE Tick
        BY <2>1, <3>3 DEF StoreType, HistoryType, Tick
      <3>4. CASE UNCHANGED vars
        BY <2>1, <3>4 DEF StoreType, HistoryType
      <3> QED
        BY <3>1, <3>2, <3>3, <3>4
    <2> QED
      BY <1>2, <2>1, <2>2 DEF TypeOK, StoreType, HistoryType, SchedType, CanType,
         CanStep, RunType, RunStep
  <1>4. Worked' /\ Ahead' /\ InHand'
    BY <1>1, <1>2 DEF Worked, Busy, Ahead, InHand
  <1> QED
    BY <1>3, <1>4 DEF TypeInv

LEMMA TypeNext == TypeInv /\ [Next]_vars => TypeInv'
  <1> SUFFICES ASSUME TypeInv, [Next]_vars PROVE TypeInv'
    OBVIOUS
  <1> QED
    BY TypeSchedule, TypeCancel, TypeHandle, TypeTake, TypeEnd, TypeCrash, TypeRest
       DEF Next, Work, Handle

LEMMA TypeInvariant == Spec => []TypeInv
  BY TypeInit, TypeNext, PTL DEF Spec

\* Every value stays in its type: in particular Bull never counts more than
\* MaxAttempts failures or MaxStalls stalls of one reminder, because a job that
\* is active is worked on by one worker only.
THEOREM TypeCorrect == Spec => []TypeOK
  BY TypeInvariant, PTL DEF TypeInv

(***************************************************************************)
(* What a run in its middle does to its own document and to the client.    *)
(***************************************************************************)

\* Worker w hands the message to the provider.
Delivers(w) ==
  /\ run[w].step = "send" /\ run'[w].step \in {"mark", "catch"} /\ run'[w].sent = TRUE
  /\ delivered'[run[w].job] = delivered[run[w].job] + 1
  /\ late' = IF appt = "live" THEN late ELSE late + 1
  /\ UNCHANGED <<doc, skipped>>

DeliversNot(w) ==
  /\ delivered' = delivered /\ late' = late /\ skipped \subseteq skipped'
  /\ run'[w].sent = run[w].sent
  /\ run'[w].step = "send" => run[w].step = "read" /\ appt = "live"
  /\ run'[w].step = "mark" => run[w].step = "send" /\ run[w].job \in skipped'

Records(w) ==
  /\ doc'[run[w].job] \in {doc[run[w].job], "sent", "failed", "cancelled"}
  /\ doc'[run[w].job] = "sent" => doc[run[w].job] = "sent" \/ run[w].step = "mark"
  /\ doc'[run[w].job] = "cancelled" =>
       \/ doc[run[w].job] = "cancelled"
       \/ run[w].step = "close" /\ run[w].saw # "gone"
  /\ run'[w].step = "return" => doc'[run[w].job] \in {"sent", "failed", "cancelled"}
  /\ run'[w].step = "throw" => doc'[run[w].job] = "failed" \/ faulty' = TRUE
  /\ run'[w].step = "close" => run'[w].saw # "live"
  /\ run'[w].saw \in {run[w].saw, appt}
  /\ faulty = TRUE => faulty' = TRUE

LEMMA HandleDetail ==
  ASSUME TypeInv, NEW w \in Workers, Handle(w)
  PROVE  (Delivers(w) \/ DeliversNot(w)) /\ Records(w)
  <1>1. /\ StoreType /\ HistoryType /\ run \in [Workers -> RunType]
        /\ run[w].job \in Jobs /\ run[w] \in RunType
    BY Typed, HandleEffect DEF TypeInv
  <1> DEFINE j == run[w].job
  <1>2. CASE ReadAppointment(w)
    <2>1. UNCHANGED <<delivered, late, skipped, doc, faulty>> /\ run[w].step = "read"
      BY <1>2 DEF ReadAppointment
    <2>2. CASE RunGoto(w, "catch")
      <3>1. run'[w].step = "catch" /\ run'[w].saw = run[w].saw
            /\ run'[w].sent = run[w].sent
        BY <1>1, <2>2, RunGotoTyped DEF RunStep
      <3> QED
        BY <2>1, <3>1 DEF DeliversNot, Records
    <2>3. CASE run' = [run EXCEPT ![w].step = AfterRead(appt), ![w].saw = appt]
      <3>1. run'[w].step = AfterRead(appt) /\ run'[w].saw = appt
            /\ run'[w].sent = run[w].sent
        BY <1>1, <2>3 DEF RunType
      <3> QED
        BY <2>1, <3>1 DEF DeliversNot, Records, AfterRead
    <2> QED
      BY <1>2, <2>2, <2>3 DEF ReadAppointment
  <1>3. CASE Close(w) \/ MarkSent(w)
    <2> DEFINE S == {"absent", "pending", "sent", "failed", "cancelled"}
    <2>1. PICK s \in {"failed", "cancelled", "sent"} :
            /\ Record(w, s)
            /\ s = "sent" => run[w].step = "mark"
            /\ s = "cancelled" => run[w].step = "close" /\ run[w].saw # "gone"
      BY <1>3 DEF Close, MarkSent
    <2>2. doc \in [Jobs -> S] /\ faulty \in BOOLEAN /\ s \in S
      BY <1>1 DEF StoreType, HistoryType
    <2>3. UNCHANGED <<delivered, late, skipped>>
      BY <1>3 DEF Close, MarkSent
    <2> HIDE DEF S
    <2>4. /\ run'[w].step \in {"return", "catch"}
          /\ run'[w].saw = run[w].saw /\ run'[w].sent = run[w].sent
          /\ run'[w].step = "return" => doc'[j] = s
          /\ run'[w].step = "catch" => doc' = doc
      BY <1>1, <2>1, <2>2, RecordTyped
    <2>5. faulty = TRUE => faulty' = TRUE
      BY <2>1 DEF Record
    <2> QED
      BY <2>1, <2>3, <2>4, <2>5 DEF DeliversNot, Records
  <1>4. CASE Send(w)
    <2>1. UNCHANGED <<doc, faulty>> /\ run[w].step = "send"
      BY <1>4 DEF Send
    <2>2. CASE /\ \/ RunGoto(w, "mark") /\ skipped' = skipped \cup {j}
                  \/ RunGoto(w, "catch") /\ skipped' = skipped
               /\ UNCHANGED <<delivered, late>>
      <3>1. /\ run'[w].saw = run[w].saw /\ run'[w].sent = run[w].sent
            /\ \/ run'[w].step = "mark" /\ skipped' = skipped \cup {j}
               \/ run'[w].step = "catch" /\ skipped' = skipped
        BY <1>1, <2>2, RunGotoTyped DEF RunStep
      <3> QED
        BY <2>1, <2>2, <3>1 DEF DeliversNot, Records
    <2>3. CASE /\ \E t \in {"mark", "catch"} :
                    run' = [run EXCEPT ![w].step = t, ![w].sent = TRUE]
               /\ delivered' = [delivered EXCEPT ![j] = @ + 1]
               /\ late' = IF appt = "live" THEN late ELSE late + 1
               /\ skipped' = skipped
      <3>1. PICK t \in {"mark", "catch"} :
              run' = [run EXCEPT ![w].step = t, ![w].sent = TRUE]
        BY <2>3
      <3>2. run'[w].step = t /\ run'[w].sent = TRUE /\ run'[w].saw = run[w].saw
        BY <1>1, <3>1 DEF RunType
      <3>3. delivered'[j] = delivered[j] + 1
        BY <1>1, <2>3 DEF HistoryType
      <3> QED
        BY <2>1, <2>3, <3>2, <3>3 DEF Delivers, Records
    <2> QED
      BY <1>4, <2>2, <2>3 DEF Send
  <1>5. CASE Catch(w)
    <2>1. run'[w].step = "throw" /\ run'[w].saw = run[w].saw
          /\ run'[w].sent = run[w].sent
      BY <1>1, <1>5, RunGotoTyped DEF Catch, RunStep
    <2>2. UNCHANGED <<delivered, late, skipped>>
      BY <1>5 DEF Catch
    <2>3. \/ doc'[j] = "failed" /\ faulty' = faulty
          \/ doc' = doc /\ faulty' = TRUE
      BY <1>1, <1>5 DEF Catch, StoreType
    <2> QED
      BY <2>1, <2>2, <2>3 DEF DeliversNot, Records
  <1> QED
    BY <1>2, <1>3, <1>4, <1>5 DEF Handle

(***************************************************************************)
(* CancelLeavesNonePending.                                                *)
(***************************************************************************)

\* What is pending among the reminders a canceller knows is in its hands.
Held ==
  \A c \in Cancellers :
    /\ can[c].step \in {"unqueue", "save"} =>
         \A j \in known[c] : doc[j] = "pending" => j \in can[c].todo
    /\ can[c].step \in {"delete", "ok"} => \A j \in known[c] : doc[j] # "pending"

\* Only scheduleReminders makes a reminder pending, and only one that is new.
LEMMA PendingIsNew ==
  ASSUME TypeInv, [Next]_vars, NEW j \in Jobs, doc'[j] = "pending"
  PROVE  /\ doc[j] \in {"pending", "absent"}
         /\ doc[j] = "absent" => SchedCreate /\ sched.job = j /\ sched'.step = "add"
                                 /\ sched'.job = j
  <1>1. doc \in [Jobs -> {"absent", "pending", "sent", "failed", "cancelled"}]
    BY DEF TypeInv, TypeOK
  <1>2. ASSUME Schedule \/ SchedFail
        PROVE  \/ doc'[j] = doc[j]
               \/ /\ SchedCreate /\ sched.job = j
                  /\ sched' = [step |-> "add", job |-> j] /\ doc[j] = "absent"
    <2>1. CASE SchedCreate
      <3>1. j >= j
        BY DEF Jobs
      <3>2. sched.step = "create" /\ sched.job = j => doc[j] = "absent"
        BY <3>1 DEF TypeInv, Ahead
      <3>3. \/ doc' = doc
            \/ /\ doc' = [doc EXCEPT ![sched.job] = "pending"]
               /\ sched' = [step |-> "add", job |-> sched.job]
        BY <2>1 DEF SchedCreate, SchedGoto
      <3>4. sched.step = "create"
        BY <2>1 DEF SchedCreate
      <3> QED
        BY <1>1, <2>1, <3>2, <3>3, <3>4
    <2>2. CASE SchedAdd \/ SchedLink \/ SchedFail
      BY <2>2 DEF SchedAdd, SchedLink, SchedFail
    <2> QED
      BY <1>2, <2>1, <2>2 DEF Schedule
  <1>3. ASSUME NEW c \in Cancellers, CancelBegin(c) \/ Cancel(c) \/ CancelFail(c)
        PROVE  doc'[j] = doc[j]
    BY <1>3, CancelEffect
  <1>4. ASSUME NEW w \in Workers, Handle(w)
        PROVE  doc'[j] = doc[j]
    BY <1>4, HandleEffect, HandleDetail DEF Records
  <1>5. ASSUME NEW w \in Workers, Take(w) \/ Return(w) \/ Throw(w)
        PROVE  doc'[j] = doc[j]
    BY <1>5 DEF Take, Return, Throw
  <1>6. CASE Crash \/ MarkNoShow \/ Revive \/ ConnectionUpdate \/ Tick \/ UNCHANGED vars
    BY <1>6 DEF Crash, MarkNoShow, Revive, ConnectionUpdate, Tick
  <1> QED
    BY <1>1, <1>2, <1>3, <1>4, <1>5, <1>6 DEF Next, Work, Handle

LEMMA HeldCancel ==
  ASSUME TypeInv, Held, NEW c \in Cancellers,
         CancelBegin(c) \/ Cancel(c) \/ CancelFail(c)
  PROVE  Held'
  <1>1. /\ can \in [Cancellers -> CanType] /\ StoreType /\ HistoryType
        /\ \A b \in Cancellers \ {c} : can'[b] = can[b] /\ known'[b] = known[b]
        /\ \A b \in Cancellers : known[b] \subseteq Jobs
        /\ \A j \in Jobs : doc'[j] = "pending" => doc[j] = "pending"
    BY Typed, CancelTyped, CancelEffect DEF TypeInv, HistoryType
  <1>2. \A b \in Cancellers \ {c} :
          /\ can'[b].step \in {"unqueue", "save"} =>
               \A j \in known'[b] : doc'[j] = "pending" => j \in can'[b].todo
          /\ can'[b].step \in {"delete", "ok"} =>
               \A j \in known'[b] : doc'[j] # "pending"
    BY <1>1 DEF Held
  <1>3. /\ can'[c].step \in {"unqueue", "save"} =>
             \A j \in known'[c] : doc'[j] = "pending" => j \in can'[c].todo
        /\ can'[c].step \in {"delete", "ok"} => \A j \in known'[c] : doc'[j] # "pending"
    <2>1. CASE CancelBegin(c) \/ CancelFail(c)
      <3>1. PICK s \in {"find", "failed"} : CanGoto(c, s)
        BY <2>1 DEF CancelBegin, CancelFail
      <3>2. can'[c].step = s
        BY <1>1, <3>1, CanGotoTyped DEF CanStep
      <3> QED
        BY <3>2
    <2>2. CASE CancelFind(c)
      <3> DEFINE found == {j \in Jobs : doc[j] = "pending"}
                 s == CanNext(can[c].kind, found)
      <3>1. s = "unqueue" \/ found = {}
        BY CanNextIn
      <3>2. can' = [can EXCEPT ![c].todo = found, ![c].ids = found \cap linked,
                               ![c].step = s]
        BY <2>2 DEF CancelFind
      <3>3. doc' = doc /\ can[c].step = "find"
            /\ known' = [known EXCEPT ![c] = {j \in Jobs : doc[j] # "absent"}]
        BY <2>2 DEF CancelFind
      <3>4. known'[c] \subseteq Jobs
        BY <1>1, <3>3 DEF HistoryType
      <3>5. \A j \in Jobs : doc[j] = "pending" => j \in found
        OBVIOUS
      <3> HIDE DEF found, s
      <3>6. can'[c].todo = found /\ can'[c].step = s
        BY <1>1, <3>2 DEF CanType
      <3> QED
        BY <3>1, <3>3, <3>4, <3>5, <3>6
    <2>3. CASE CancelUnqueue(c)
      <3>1. can'[c].step = "save" /\ can'[c].todo = can[c].todo
            /\ can[c].step = "unqueue" /\ doc' = doc /\ known' = known
        BY <1>1, <2>3, CanGotoTyped DEF CancelUnqueue, CanStep
      <3> QED
        BY <3>1 DEF Held
    <2>4. CASE CancelSaveJob(c)
      <3> DEFINE first == First(can[c].todo)
                 rest == can[c].todo \ {first}
                 s == CanNext(can[c].kind, rest)
      <3>1. s = "unqueue" \/ rest = {}
        BY CanNextIn
      <3>2. s \in CanStep \ {"save"}
        BY CanNextIn
      <3>3. can' = [can EXCEPT ![c].todo = rest, ![c].step = s]
            /\ doc' = [doc EXCEPT ![first] = "cancelled"] /\ known' = known
            /\ can[c].step = "save"
        BY <2>4 DEF CancelSaveJob
      <3>4. \A j \in can[c].todo : j = first \/ j \in rest
        OBVIOUS
      <3> HIDE DEF first, rest, s
      <3>5. can'[c].todo = rest /\ can'[c].step = s
        BY <1>1, <3>3 DEF CanType
      <3>6. \A j \in Jobs : doc'[j] = "pending" => doc[j] = "pending" /\ j # first
        BY <1>1, <3>3 DEF StoreType
      <3>7. \A j \in known[c] : doc'[j] = "pending" => j \in rest
        BY <1>1, <3>3, <3>4, <3>6 DEF Held
      <3> QED
        BY <3>1, <3>3, <3>5, <3>7
    <2>5. CASE CancelDelete(c)
      <3>1. can'[c].step = "ok" /\ can[c].step = "delete" /\ doc' = doc /\ known' = known
        BY <1>1, <2>5, CanGotoTyped DEF CancelDelete, CanStep
      <3> QED
        BY <3>1 DEF Held
    <2> QED
      BY <2>1, <2>2, <2>3, <2>4, <2>5 DEF Cancel
  <1> QED
    BY <1>2, <1>3 DEF Held

LEMMA HeldNext == TypeInv /\ Held /\ [Next]_vars => Held'
  <1> SUFFICES ASSUME TypeInv, Held, [Next]_vars PROVE Held'
    OBVIOUS
  <1>1. \A c \in Cancellers : known[c] \subseteq Jobs /\ \A j \in known[c] : doc[j] # "absent"
    BY DEF TypeInv, TypeOK, InHand
  <1>2. \A c \in Cancellers : \A j \in known[c] : doc'[j] = "pending" => doc[j] = "pending"
    BY <1>1, PendingIsNew
  <1>3. CASE \E c \in Cancellers : CancelBegin(c) \/ Cancel(c) \/ CancelFail(c)
    BY <1>3, HeldCancel
  <1>4. CASE Crash
    <2>1. can \in [Cancellers -> CanType]
      BY Typed DEF TypeInv
    <2>2. known' = known /\ \A c \in Cancellers : can'[c].step = "failed" \/ can'[c] = can[c]
      BY <1>4, <2>1 DEF Crash, CanType
    <2> QED
      BY <1>2, <2>2 DEF Held
  <1>5. CASE \/ Schedule \/ SchedFail \/ \E w \in Workers : Work(w)
             \/ MarkNoShow \/ Revive \/ ConnectionUpdate \/ Tick \/ UNCHANGED vars
    <2>1. ASSUME NEW w \in Workers, Work(w) PROVE can' = can /\ known' = known
      <3>1. CASE Take(w) \/ Return(w) \/ Throw(w)
        BY <3>1 DEF Take, Return, Throw
      <3>2. CASE Handle(w)
        BY <3>2, HandleEffect
      <3> QED
        BY <2>1, <3>1, <3>2 DEF Work, Handle
    <2>2. can' = can /\ known' = known
      BY <1>5, <2>1 DEF Schedule, SchedCreate, SchedAdd, SchedLink, SchedFail,
         MarkNoShow, Revive, ConnectionUpdate, Tick
    <2> QED
      BY <1>2, <2>2 DEF Held
  <1> QED
    BY <1>3, <1>4, <1>5 DEF Next

\* A cancel or remove that succeeded left none of the reminders it knew of
\* pending: nothing makes a document pending again that exists.
THEOREM CancelLeavesNonePendingHolds == Spec => []CancelLeavesNonePending
  <1>1. Init => Held
    BY DEF Init, Held
  <1>2. Held => CancelLeavesNonePending
    BY DEF Held, CancelLeavesNonePending
  <1> QED
    BY <1>1, <1>2, TypeInvariant, HeldNext, PTL DEF Spec

(***************************************************************************)
(* What the messages, the documents and the queue say of each other.       *)
(***************************************************************************)

Others ==
  \/ Schedule \/ SchedFail
  \/ \E c \in Cancellers : CancelBegin(c) \/ Cancel(c) \/ CancelFail(c)
  \/ MarkNoShow \/ Revive \/ ConnectionUpdate \/ Tick \/ UNCHANGED vars

LEMMA OthersEffect ==
  ASSUME TypeInv, Others
  PROVE  /\ UNCHANGED <<run, made, stalls, delivered, doubt, skipped>>
         /\ \A j \in Jobs :
              /\ doc'[j] = "sent" => doc[j] = "sent"
              /\ \/ queue'[j] = queue[j]
                 \/ queue[j] = "none" /\ queue'[j] = "delayed"
                 \/ queue[j] \in {"delayed", "retry", "failed"} /\ queue'[j] = "removed"
  <1>1. StoreType
    BY Typed DEF TypeInv
  <1>2. CASE Schedule \/ SchedFail
    <2>1. sched.step \in {"add", "create"} /\ sched.job \in Jobs => queue[sched.job] = "none"
      BY DEF TypeInv, Ahead, Jobs
    <2>2. sched.step = "add" => sched.job \in Jobs
      BY DEF TypeInv, Ahead
    <2>3. /\ UNCHANGED <<run, made, stalls, delivered, doubt, skipped>>
          /\ doc' = doc \/ doc' = [doc EXCEPT ![sched.job] = "pending"]
          /\ \/ queue' = queue
             \/ sched.step = "add" /\ queue' = [queue EXCEPT ![sched.job] = "delayed"]
      BY <1>2 DEF Schedule, SchedCreate, SchedAdd, SchedLink, SchedFail
    <2> QED
      BY <1>1, <2>1, <2>2, <2>3 DEF StoreType
  <1>3. ASSUME NEW c \in Cancellers, CancelBegin(c) \/ Cancel(c) \/ CancelFail(c)
        PROVE  /\ UNCHANGED <<run, made, stalls, delivered, doubt, skipped>>
               /\ \A j \in Jobs :
                    /\ doc'[j] = "sent" => doc[j] = "sent"
                    /\ \/ queue'[j] = queue[j]
                       \/ /\ queue[j] \in {"delayed", "retry", "failed"}
                          /\ queue'[j] = "removed"
    BY <1>3, CancelEffect, CancelTyped
  <1>4. CASE MarkNoShow \/ Revive \/ ConnectionUpdate \/ Tick \/ UNCHANGED vars
    BY <1>4 DEF MarkNoShow, Revive, ConnectionUpdate, Tick
  <1> QED
    BY <1>2, <1>3, <1>4 DEF Others

\* What a run has done and what is known of it.
Marked ==
  /\ \A w \in Workers :
       /\ run[w].sent = TRUE => run[w].step \in {"mark", "return", "catch", "throw"}
       /\ run[w].sent = TRUE => delivered[run[w].job] > 0
       /\ run[w].step = "mark" => run[w].sent = TRUE \/ run[w].job \in skipped
       /\ run[w].step = "return" => doc[run[w].job] # "pending"
  /\ RecordsAreTrue

LEMMA WorkerJob ==
  ASSUME TypeInv, NEW w \in Workers, Busy(w)
  PROVE  /\ run[w].job \in Jobs /\ queue[run[w].job] = "active"
         /\ doc[run[w].job] # "absent" /\ made[run[w].job] < MaxAttempts
         /\ \A v \in Workers \ {w} : Busy(v) => run[v].job # run[w].job
  BY DEF TypeInv, Worked, InHand

LEMMA MarkedHandle ==
  ASSUME TypeInv, Marked, NEW w \in Workers, Handle(w)
  PROVE  Marked'
  <1> DEFINE j == run[w].job
  <1>1. /\ Busy(w) /\ j \in Jobs /\ queue[j] = "active"
        /\ run'[w].step # "idle" /\ run'[w].job = j
        /\ \A v \in Workers \ {w} : run'[v] = run[v]
        /\ queue' = queue
        /\ \A i \in Jobs \ {j} : doc'[i] = doc[i] /\ delivered'[i] = delivered[i]
    BY HandleEffect
  <1>2. \A v \in Workers \ {w} : Busy(v) => run[v].job \in Jobs /\ run[v].job # j
    BY <1>1, WorkerJob
  <1>3. delivered[j] \in Nat /\ \A i \in Jobs : delivered[i] \in Nat
    BY <1>1, Typed DEF TypeInv, HistoryType
  <1>4. (Delivers(w) \/ DeliversNot(w)) /\ Records(w)
    BY HandleDetail
  <1>5. /\ delivered'[j] >= delivered[j] /\ skipped \subseteq skipped'
        /\ delivered'[j] \in Nat
    BY <1>3, <1>4 DEF Delivers, DeliversNot
  <1>6. ASSUME NEW v \in Workers \ {w}
        PROVE  /\ run'[v].sent = TRUE => run'[v].step \in {"mark", "return", "catch", "throw"}
               /\ run'[v].sent = TRUE => delivered'[run'[v].job] > 0
               /\ run'[v].step = "mark" => run'[v].sent = TRUE \/ run'[v].job \in skipped'
               /\ run'[v].step = "return" => doc'[run'[v].job] # "pending"
    BY <1>1, <1>2, <1>5, <1>6 DEF Marked, Busy
  <1>7. /\ run'[w].sent = TRUE => run'[w].step \in {"mark", "return", "catch", "throw"}
        /\ run'[w].sent = TRUE => delivered'[run'[w].job] > 0
        /\ run'[w].step = "mark" => run'[w].sent = TRUE \/ run'[w].job \in skipped'
        /\ run'[w].step = "return" => doc'[run'[w].job] # "pending"
    <2>1. CASE Delivers(w)
      BY <1>1, <1>3, <1>4, <2>1 DEF Delivers
    <2>2. CASE DeliversNot(w)
      <3>1. run'[w].sent = TRUE =>
              run'[w].step \in {"mark", "return", "catch", "throw"}
        <4>1. run'[w].sent = TRUE => run[w].step \in {"mark", "catch"}
          BY <2>2 DEF DeliversNot, Marked, Handle, ReadAppointment, Close, Send, MarkSent, Catch
        <4>2. MarkSent(w) => run'[w].step \in {"return", "catch"}
          BY RunGotoTyped, Typed DEF MarkSent, Record, TypeInv, RunStep
        <4>3. Catch(w) => run'[w].step = "throw"
          BY RunGotoTyped, Typed DEF Catch, TypeInv, RunStep
        <4> QED
          BY <4>1, <4>2, <4>3 DEF Handle, ReadAppointment, Close, Send
      <3> QED
        BY <1>1, <1>4, <2>2, <3>1 DEF DeliversNot, Records, Marked
    <2> QED
      BY <1>4, <2>1, <2>2
  <1>8. RecordsAreTrue'
    <2>1. doc'[j] = "sent" => delivered'[j] > 0 \/ j \in skipped'
      <3>1. CASE doc[j] = "sent"
        BY <1>1, <1>3, <1>5, <3>1 DEF Marked, RecordsAreTrue
      <3>2. CASE run[w].step = "mark"
        BY <1>1, <1>3, <1>5, <3>2 DEF Marked
      <3> QED
        BY <1>4, <3>1, <3>2 DEF Records
    <2>2. \A i \in Jobs \ {j} : doc'[i] = "sent" => delivered'[i] > 0 \/ i \in skipped'
      BY <1>1, <1>5 DEF Marked, RecordsAreTrue
    <2>3. \A i \in Jobs : queue'[i] = "completed" => doc'[i] # "pending"
      BY <1>1 DEF Marked, RecordsAreTrue
    <2> QED
      BY <2>1, <2>2, <2>3 DEF RecordsAreTrue
  <1> QED
    BY <1>6, <1>7, <1>8 DEF Marked

LEMMA MarkedNext == TypeInv /\ Marked /\ [Next]_vars => Marked'
  <1> SUFFICES ASSUME TypeInv, Marked, [Next]_vars PROVE Marked'
    OBVIOUS
  <1>1. \A j \in Jobs : doc'[j] = "pending" => doc[j] \in {"pending", "absent"}
    BY PendingIsNew
  <1>2. \A j \in Jobs : queue[j] # "none" => doc[j] # "absent"
    BY DEF TypeInv, InHand
  <1>3. \A w \in Workers : Busy(w) => run[w].job \in Jobs /\ doc[run[w].job] # "absent"
    BY WorkerJob
  <1>4. /\ run \in [Workers -> RunType] /\ StoreType /\ HistoryType
    BY Typed DEF TypeInv
  <1>5. CASE Others
    BY <1>1, <1>2, <1>3, <1>5, OthersEffect DEF Marked, RecordsAreTrue, Busy
  <1>6. ASSUME NEW w \in Workers, Take(w) PROVE Marked'
    <2>1. PICK j \in Jobs :
            /\ queue' = [queue EXCEPT ![j] = "active"]
            /\ run' = [run EXCEPT ![w].step = "read", ![w].job = j]
            /\ run[w].step = "idle"
      BY <1>6 DEF Take
    <2>2. UNCHANGED <<doc, delivered, skipped>>
      BY <1>6 DEF Take
    <2>3. /\ run'[w].step = "read" /\ run'[w].sent = run[w].sent
          /\ \A v \in Workers \ {w} : run'[v] = run[v]
      BY <1>4, <2>1 DEF RunType
    <2>4. \A i \in Jobs : queue'[i] = "completed" => queue[i] = "completed"
      BY <1>4, <2>1 DEF StoreType
    <2>5. run'[w].sent # TRUE
      BY <2>1, <2>3 DEF Marked
    <2> QED
      BY <2>2, <2>3, <2>4, <2>5 DEF Marked, RecordsAreTrue
  <1>7. ASSUME NEW w \in Workers, Return(w) \/ Throw(w) PROVE Marked'
    <2>1. UNCHANGED <<doc, delivered, skipped>> /\ run' = [run EXCEPT ![w] = Idle]
      BY <1>7 DEF Return, Throw
    <2>2. run'[w] = Idle /\ \A v \in Workers \ {w} : run'[v] = run[v]
      BY <1>4, <2>1
    <2>3. run[w].job \in Jobs
      BY <1>3, <1>7 DEF Return, Throw, Busy
    <2>4. \A i \in Jobs : queue'[i] = "completed" =>
            \/ queue[i] = "completed"
            \/ i = run[w].job /\ run[w].step = "return"
      <3>1. CASE Return(w)
        BY <1>4, <3>1 DEF Return, StoreType
      <3>2. CASE Throw(w)
        BY <1>4, <3>2 DEF Throw, StoreType
      <3> QED
        BY <1>7, <3>1, <3>2
    <2> QED
      BY <2>1, <2>2, <2>3, <2>4 DEF Marked, RecordsAreTrue, Idle
  <1>8. CASE Crash
    <2>1. UNCHANGED <<doc, delivered, skipped>> /\ run' = [w \in Workers |-> Idle]
      BY <1>8 DEF Crash
    <2>2. \A i \in Jobs : queue'[i] = "completed" => queue[i] = "completed"
      BY <1>8 DEF Crash
    <2> QED
      BY <2>1, <2>2 DEF Marked, RecordsAreTrue, Idle
  <1> QED
    BY <1>5, <1>6, <1>7, <1>8, MarkedHandle DEF Next, Others, Work, Handle

LEMMA MarkedInvariant == Spec => []Marked
  <1>1. Init => Marked
    BY DEF Init, Marked, RecordsAreTrue, Idle
  <1> QED
    BY <1>1, TypeInvariant, MarkedNext, PTL DEF Spec

\* A completed queue entry left its mark on the document, and what is recorded
\* as sent was delivered or had nobody to be delivered to.
THEOREM RecordsAreTrueHolds == Spec => []RecordsAreTrue
  BY MarkedInvariant, PTL DEF Marked

(***************************************************************************)
(* How often a reminder goes out.                                          *)
(***************************************************************************)

\* A run that delivered reminder j has not ended yet.
Out(j) == \E w \in Workers : run[w].sent = TRUE /\ run[w].job = j

\* The reminder may still run.
Waiting(j) == queue[j] \in {"none", "delayed", "retry", "active"}

Counted ==
  \A j \in Jobs :
    /\ delivered[j] <= 1 + doubt[j]
    /\ delivered[j] > doubt[j] => queue[j] = "completed" \/ Out(j)
    /\ delivered[j] <= MaxAttempts + MaxStalls
    /\ Waiting(j) => delivered[j] <= made[j] + stalls[j] + 1
    /\ Waiting(j) /\ ~Out(j) => delivered[j] <= made[j] + stalls[j]

LEMMA OneOut ==
  ASSUME TypeInv, Marked, NEW w \in Workers, Busy(w)
  PROVE  Out(run[w].job) <=> run[w].sent = TRUE
  BY WorkerJob DEF Out, Marked, Busy

LEMMA CountTypes ==
  ASSUME TypeInv, NEW j \in Jobs
  PROVE  /\ delivered[j] \in Nat /\ doubt[j] \in Nat
         /\ made[j] \in 0..MaxAttempts /\ stalls[j] \in 0..MaxStalls
  BY DEF TypeInv, TypeOK

LEMMA CountedHandle ==
  ASSUME TypeInv, Marked, Counted, NEW w \in Workers, Handle(w)
  PROVE  Counted'
  <1>0. PICK j \in Jobs : j = run[w].job
    BY HandleEffect
  <1>1. /\ Busy(w) /\ queue[j] = "active"
        /\ run'[w].job = j
        /\ \A v \in Workers \ {w} : run'[v] = run[v]
        /\ UNCHANGED <<queue, made, stalls, doubt>>
        /\ \A i \in Jobs \ {j} : delivered'[i] = delivered[i]
    BY <1>0, HandleEffect
  <1>2. \A i \in Jobs \ {j} : Out(i)' <=> Out(i)
    BY <1>0, <1>1 DEF Out
  <1>3. \A i \in Jobs : Waiting(i)' <=> Waiting(i)
    BY <1>1 DEF Waiting
  <1>4. ASSUME NEW i \in Jobs \ {j}
        PROVE  /\ delivered'[i] <= 1 + doubt'[i]
               /\ delivered'[i] > doubt'[i] => queue'[i] = "completed" \/ Out(i)'
               /\ delivered'[i] <= MaxAttempts + MaxStalls
               /\ Waiting(i)' => delivered'[i] <= made'[i] + stalls'[i] + 1
               /\ Waiting(i)' /\ ~Out(i)' => delivered'[i] <= made'[i] + stalls'[i]
    BY <1>1, <1>2, <1>3 DEF Counted
  <1>5. /\ delivered'[j] <= 1 + doubt'[j]
        /\ delivered'[j] > doubt'[j] => queue'[j] = "completed" \/ Out(j)'
        /\ delivered'[j] <= MaxAttempts + MaxStalls
        /\ Waiting(j)' => delivered'[j] <= made'[j] + stalls'[j] + 1
        /\ Waiting(j)' /\ ~Out(j)' => delivered'[j] <= made'[j] + stalls'[j]
    <2>1. CASE Delivers(w)
      <3>1. ~Out(j) /\ made[j] < MaxAttempts
        BY <1>0, <1>1, <2>1, OneOut, WorkerJob DEF Marked, Delivers
      <3>2. delivered'[j] = delivered[j] + 1 /\ Out(j)'
        BY <1>0, <1>1, <2>1 DEF Delivers, Out
      <3>3. delivered[j] <= doubt[j] /\ delivered[j] <= made[j] + stalls[j]
        BY <1>1, <3>1, CountTypes DEF Counted, Waiting
      <3> QED
        BY <1>1, <3>1, <3>2, <3>3, CountTypes
    <2>2. CASE DeliversNot(w)
      <3>1. delivered' = delivered /\ run'[w].sent = run[w].sent
        BY <2>2 DEF DeliversNot
      <3>2. Out(j)' <=> Out(j)
        BY <1>0, <1>1, <3>1 DEF Out
      <3> QED
        BY <1>1, <1>3, <3>1, <3>2 DEF Counted
    <2> QED
      BY <2>1, <2>2, HandleDetail
  <1> QED
    BY <1>4, <1>5 DEF Counted

LEMMA CountedEnd ==
  ASSUME TypeInv, Marked, Counted, NEW w \in Workers, Return(w) \/ Throw(w)
  PROVE  Counted'
  <1>0. PICK j \in Jobs : j = run[w].job /\ Busy(w)
    BY WorkerJob DEF Return, Throw, Busy
  <1>1. Busy(w) /\ queue[j] = "active"
    BY <1>0, WorkerJob
  <1>2. /\ run \in [Workers -> RunType] /\ StoreType /\ HistoryType
    BY Typed DEF TypeInv
  <1>3. run' = [run EXCEPT ![w] = Idle] /\ UNCHANGED <<delivered, stalls>>
    BY DEF Return, Throw
  <1>4. run'[w].sent # TRUE /\ \A v \in Workers \ {w} : run'[v] = run[v]
    BY <1>2, <1>3 DEF Idle
  <1>5. \A i \in Jobs \ {j} : Out(i)' <=> Out(i)
    BY <1>0, <1>4 DEF Out
  <1>6. Out(j) <=> run[w].sent = TRUE
    BY <1>0, OneOut
  <1>7. \A v \in Workers \ {w} : run[v].sent = TRUE => run[v].job # j
    BY <1>0, WorkerJob DEF Marked, Busy
  <1>8. ~Out(j)'
    BY <1>4, <1>7 DEF Out
  <1>9. CASE Return(w)
    <2>1. queue' = [queue EXCEPT ![j] = "completed"] /\ UNCHANGED <<made, doubt>>
      BY <1>0, <1>9 DEF Return
    <2>2. queue'[j] = "completed" /\ \A i \in Jobs \ {j} : queue'[i] = queue[i]
      BY <1>1, <1>2, <2>1 DEF StoreType
    <2> QED
      BY <1>3, <1>5, <2>1, <2>2 DEF Counted, Waiting
  <1>10. CASE Throw(w)
    <2>1. /\ \A i \in Jobs \ {j} : queue'[i] = queue[i] /\ made'[i] = made[i]
                                   /\ doubt'[i] = doubt[i]
          /\ made'[j] = made[j] + 1
          /\ doubt'[j] = IF run[w].sent = TRUE THEN doubt[j] + 1 ELSE doubt[j]
      <3>1. made' = [made EXCEPT ![j] = @ + 1]
        BY <1>0, <1>10 DEF Throw, Count
      <3>2. \E q \in {"retry", "failed"} : queue' = [queue EXCEPT ![j] = q]
        BY <1>0, <1>10 DEF Throw
      <3>3. run[w].sent \in BOOLEAN
        BY <1>2 DEF RunType
      <3>4. doubt' = IF run[w].sent THEN [doubt EXCEPT ![j] = @ + 1] ELSE doubt
        BY <1>0, <1>10 DEF Throw, Doubted
      <3> QED
        BY <1>1, <1>2, <3>1, <3>2, <3>3, <3>4 DEF StoreType, HistoryType
    <2>2. ASSUME NEW i \in Jobs \ {j}
          PROVE  /\ delivered'[i] <= 1 + doubt'[i]
                 /\ delivered'[i] > doubt'[i] => queue'[i] = "completed" \/ Out(i)'
                 /\ delivered'[i] <= MaxAttempts + MaxStalls
                 /\ Waiting(i)' => delivered'[i] <= made'[i] + stalls'[i] + 1
                 /\ Waiting(i)' /\ ~Out(i)' => delivered'[i] <= made'[i] + stalls'[i]
      BY <1>3, <1>5, <2>1 DEF Counted, Waiting
    <2>3. /\ delivered[j] <= 1 + doubt[j] /\ delivered[j] <= MaxAttempts + MaxStalls
          /\ delivered[j] <= made[j] + stalls[j] + 1
          /\ run[w].sent # TRUE => delivered[j] <= doubt[j]
      <3>1. Waiting(j) /\ queue[j] # "completed" /\ j \in Jobs
        BY <1>0, <1>1 DEF Waiting
      <3>2. /\ delivered[j] <= 1 + doubt[j]
            /\ delivered[j] > doubt[j] => queue[j] = "completed" \/ Out(j)
            /\ delivered[j] <= MaxAttempts + MaxStalls
            /\ delivered[j] <= made[j] + stalls[j] + 1
        BY <3>1 DEF Counted
      <3>3. delivered[j] \in Nat /\ doubt[j] \in Nat
        BY <3>1, CountTypes
      <3>4. run[w].sent # TRUE => ~(delivered[j] > doubt[j])
        BY <1>6, <3>1, <3>2, Zenon
      <3>5. ~(delivered[j] > doubt[j]) => delivered[j] <= doubt[j]
        BY <3>3
      <3> QED
        BY <3>2, <3>4, <3>5
    <2>4. /\ delivered'[j] <= doubt'[j]
          /\ delivered'[j] <= MaxAttempts + MaxStalls
          /\ delivered'[j] <= made'[j] + stalls'[j]
      <3>1. /\ delivered[j] \in Nat /\ doubt[j] \in Nat
            /\ made[j] \in Nat /\ stalls[j] \in Nat
        BY <1>0, CountTypes
      <3>2. delivered'[j] = delivered[j] /\ stalls'[j] = stalls[j]
        BY <1>3
      <3>3. delivered[j] <= doubt'[j]
        <4>1. CASE run[w].sent = TRUE
          BY <2>1, <2>3, <3>1, <4>1
        <4>2. CASE run[w].sent # TRUE
          BY <2>1, <2>3, <3>1, <4>2
        <4> QED
          BY <4>1, <4>2
      <3> QED
        BY <2>1, <2>3, <3>1, <3>2, <3>3
    <2>5. /\ delivered'[j] \in Nat /\ doubt'[j] \in Nat /\ made'[j] \in Nat
          /\ stalls'[j] \in Nat
      <3> QED
        BY <1>0, <1>3, <2>1, CountTypes
    <2> QED
      BY <2>2, <2>4, <2>5 DEF Counted
  <1> QED
    BY <1>9, <1>10

LEMMA CountedCrash ==
  ASSUME TypeInv, Marked, Counted, Crash
  PROVE  Counted'
  <1> DEFINE busy == {w \in Workers : run[w].step # "idle"}
             hit  == {run[w].job : w \in busy}
             sent == {run[w].job : w \in {v \in busy : run[v].sent}}
  <1>1. /\ queue' = [j \in Jobs |->
                      IF j \notin hit THEN queue[j]
                      ELSE IF stalls[j] < MaxStalls THEN "retry" ELSE "failed"]
        /\ stalls' = [j \in Jobs |->
                       IF j \in hit /\ stalls[j] < MaxStalls
                       THEN stalls[j] + 1 ELSE stalls[j]]
        /\ doubt' = [j \in Jobs |-> IF j \in sent THEN doubt[j] + 1 ELSE doubt[j]]
        /\ run' = [w \in Workers |-> Idle] /\ UNCHANGED <<delivered, made>>
    BY DEF Crash
  <1>2. \A j \in Jobs : ~Out(j)'
    BY <1>1 DEF Out, Idle
  <1>3. \A w \in Workers : run[w].sent \in BOOLEAN
    BY DEF TypeInv, TypeOK
  <1>4. \A j \in Jobs : Out(j) => j \in sent
    BY DEF Out, Marked
  <1>5. \A j \in Jobs : j \in sent => j \in hit
    OBVIOUS
  <1>6. \A j \in hit : queue[j] = "active"
    BY WorkerJob DEF Busy
  <1> HIDE DEF busy, hit, sent
  <1>7. SUFFICES ASSUME NEW j \in Jobs
        PROVE  /\ delivered[j] <= doubt'[j]
                    \/ (queue'[j] = "completed" /\ delivered[j] <= 1 + doubt'[j])
               /\ delivered[j] <= MaxAttempts + MaxStalls
               /\ Waiting(j)' => delivered[j] <= made[j] + stalls'[j]
    <2>1. \A j \in Jobs : /\ delivered[j] \in Nat /\ doubt'[j] \in Nat
                          /\ made[j] \in Nat /\ stalls'[j] \in Nat
      BY <1>1, CountTypes
    <2> QED
      BY <1>1, <1>2, <1>7, <2>1 DEF Counted
  <1>8. CASE j \notin hit
    <2>1. queue'[j] = queue[j] /\ stalls'[j] = stalls[j] /\ doubt'[j] = doubt[j]
      BY <1>1, <1>5, <1>8
    <2>2. ~Out(j)
      BY <1>4, <1>5, <1>8
    <2> QED
      BY <2>1, <2>2, CountTypes DEF Counted, Waiting
  <1>9. CASE j \in hit
    <2>1. /\ queue'[j] = IF stalls[j] < MaxStalls THEN "retry" ELSE "failed"
          /\ stalls'[j] = IF stalls[j] < MaxStalls THEN stalls[j] + 1 ELSE stalls[j]
          /\ doubt'[j] = IF j \in sent THEN doubt[j] + 1 ELSE doubt[j]
      BY <1>1, <1>9
    <2>2. /\ delivered[j] <= 1 + doubt[j] /\ delivered[j] <= MaxAttempts + MaxStalls
          /\ delivered[j] <= made[j] + stalls[j] + 1
          /\ j \notin sent => delivered[j] <= doubt[j]
      BY <1>4, <1>6, <1>9, CountTypes DEF Counted, Waiting
    <2> QED
      BY <2>1, <2>2, CountTypes DEF Waiting
  <1> QED
    BY <1>8, <1>9

LEMMA CountedNext == TypeInv /\ Marked /\ Counted /\ [Next]_vars => Counted'
  <1> SUFFICES ASSUME TypeInv, Marked, Counted, [Next]_vars PROVE Counted'
    OBVIOUS
  <1>1. CASE Others
    <2>1. \A j \in Jobs : Out(j)' <=> Out(j)
      BY <1>1, OthersEffect DEF Out
    <2>2. \A j \in Jobs : /\ Waiting(j)' => Waiting(j)
                          /\ queue[j] = "completed" => queue'[j] = "completed"
      BY <1>1, OthersEffect DEF Waiting
    <2> QED
      BY <1>1, <2>1, <2>2, OthersEffect DEF Counted
  <1>2. ASSUME NEW w \in Workers, Take(w) PROVE Counted'
    <2>1. PICK j \in Jobs :
            /\ queue[j] \in {"retry", "delayed"}
            /\ queue' = [queue EXCEPT ![j] = "active"]
            /\ run' = [run EXCEPT ![w].step = "read", ![w].job = j]
            /\ run[w].step = "idle"
      BY <1>2 DEF Take
    <2>2. UNCHANGED <<delivered, doubt, made, stalls>>
      BY <1>2 DEF Take
    <2>3. run'[w].sent = run[w].sent /\ \A v \in Workers \ {w} : run'[v] = run[v]
      BY <2>1, Typed DEF RunType, TypeInv
    <2>4. run[w].sent # TRUE
      BY <2>1 DEF Marked
    <2>5. \A i \in Jobs : Out(i)' <=> Out(i)
      BY <2>3, <2>4 DEF Out
    <2>6. \A i \in Jobs : /\ Waiting(i)' => Waiting(i)
                          /\ queue[i] = "completed" => queue'[i] = "completed"
      BY <2>1, Typed DEF TypeInv, StoreType, Waiting
    <2> QED
      BY <2>2, <2>5, <2>6 DEF Counted
  <1> QED
    BY <1>1, <1>2, CountedHandle, CountedEnd, CountedCrash DEF Next, Others, Work, Handle

LEMMA CountedInvariant == Spec => []Counted
  <1>1. Init => Counted
    <2> SUFFICES ASSUME Init PROVE Counted
      OBVIOUS
    <2>1. MaxAttempts + MaxStalls \in Nat
      OBVIOUS
    <2> QED
      BY <2>1 DEF Init, Counted, Out, Waiting
  <1> QED
    BY <1>1, TypeInvariant, MarkedInvariant, CountedNext, PTL DEF Spec

\* A client gets a reminder again only after a run that had delivered it failed
\* or died.
THEOREM DuplicateOnlyAfterDoubtHolds == Spec => []DuplicateOnlyAfterDoubt
  <1>1. Counted => DuplicateOnlyAfterDoubt
    BY DEF Counted, DuplicateOnlyAfterDoubt
  <1> QED
    BY <1>1, CountedInvariant, PTL

\* A reminder goes out at most once per attempt and once per stall.
THEOREM DeliveriesBoundedHolds == Spec => []DeliveriesBounded
  <1>1. Counted => DeliveriesBounded
    BY DEF Counted, DeliveriesBounded
  <1> QED
    BY <1>1, CountedInvariant, PTL

(***************************************************************************)
(* LiveLosesNoReminder and LateDeliveriesBounded: what the status of the   *)
(* appointment says of its reminders.                                      *)
(***************************************************************************)

LEMMA ApptSteps ==
  ASSUME TypeInv, [Next]_vars
  PROVE  /\ wasDead = TRUE => wasDead' = TRUE
         /\ appt' = "dead" => appt = "dead" \/ wasDead' = TRUE
         /\ appt' = "live" => appt \in {"live", "dead"}
         /\ appt = "gone" => appt' = "gone"
  <1>1. appt \in {"live", "dead", "gone"} /\ wasDead \in BOOLEAN
    BY DEF TypeInv, TypeOK
  <1>2. CASE UNCHANGED <<appt, wasDead>>
    BY <1>1, <1>2
  <1>3. ASSUME NEW c \in Cancellers, CancelBegin(c)
        PROVE  \/ UNCHANGED <<appt, wasDead>>
               \/ appt # "gone" /\ appt' = "dead" /\ wasDead' = TRUE
    <2>1. CASE appt = "gone"
      BY <1>3, <2>1 DEF CancelBegin
    <2>2. CASE appt # "gone"
      <3>1. appt' \in {appt, "dead"} /\ wasDead' = (wasDead \/ appt' = "dead")
        BY <1>3, <2>2 DEF CancelBegin
      <3>2. CASE appt' = "dead"
        BY <2>2, <3>1, <3>2
      <3>3. CASE appt' # "dead"
        <4>1. wasDead' = wasDead
          BY <1>1, <3>1, <3>3, Zenon
        <4> QED
          BY <3>1, <3>3, <4>1
      <3> QED
        BY <3>2, <3>3
    <2> QED
      BY <2>1, <2>2
  <1>4. ASSUME NEW c \in Cancellers, Cancel(c) \/ CancelFail(c)
        PROVE  wasDead' = wasDead /\ appt' \in {appt, "gone"}
    BY <1>4 DEF Cancel, CancelFind, CancelUnqueue, CancelSaveJob, CancelDelete, CancelFail
  <1>5. ASSUME NEW w \in Workers, Handle(w) PROVE UNCHANGED <<appt, wasDead>>
    BY <1>5, HandleEffect
  <1>6. ASSUME NEW w \in Workers, Take(w) \/ Return(w) \/ Throw(w)
        PROVE  UNCHANGED <<appt, wasDead>>
    BY <1>6 DEF Take, Return, Throw
  <1>7. CASE \/ Schedule \/ SchedFail \/ Crash \/ ConnectionUpdate \/ Tick \/ UNCHANGED vars
    <2>1. UNCHANGED <<appt, wasDead>>
      BY <1>7 DEF Schedule, SchedCreate, SchedAdd, SchedLink, SchedFail, Crash,
         ConnectionUpdate, Tick
    <2> QED
      BY <1>2, <2>1
  <1>8. CASE MarkNoShow
    BY <1>8 DEF MarkNoShow
  <1>9. CASE Revive
    <2>1. appt = "dead" /\ appt' = "live" /\ wasDead' = wasDead
      BY <1>9 DEF Revive
    <2> QED
      BY <2>1
  <1>10. CASE \E c \in Cancellers : CancelBegin(c) \/ Cancel(c) \/ CancelFail(c)
    BY <1>1, <1>3, <1>4, <1>10
  <1>11. CASE \E w \in Workers : Work(w)
    BY <1>2, <1>5, <1>6, <1>11 DEF Work, Handle
  <1> QED
    BY <1>7, <1>8, <1>9, <1>10, <1>11 DEF Next

\* The appointment's reminders are called off only by those who may.
CalledOff ==
  /\ appt = "dead" => wasDead = TRUE
  /\ \A w \in Workers : /\ run[w].saw = "dead" => wasDead = TRUE
                        /\ run[w].step = "close" => run[w].saw # "live"
  /\ \A c \in Cancellers :
       /\ can[c].kind = "cancel" /\ can[c].step \in {"find", "unqueue", "save"} =>
            wasDead = TRUE
       /\ can[c].kind = "remove" /\ can[c].step = "ok" => appt = "gone"
  /\ \A j \in Jobs : appt = "live" /\ wasDead # TRUE /\ doc[j] = "cancelled" =>
       \E c \in Cancellers : /\ can[c].kind = "remove"
                             /\ can[c].step \notin {"idle", "find", "ok"}

\* How a canceller gets from step to step.
LEMMA CancelPath ==
  ASSUME TypeInv, NEW c \in Cancellers,
         CancelBegin(c) \/ Cancel(c) \/ CancelFail(c)
  PROVE  /\ can'[c].step \in {"find", "unqueue", "save"} =>
              \/ CancelBegin(c) /\ appt # "gone"
              \/ can[c].step \in {"find", "unqueue", "save"}
         /\ can'[c].kind = "remove" /\ can'[c].step = "ok" => appt' = "gone"
         /\ can[c].step \notin {"idle", "find"} => can'[c].step \notin {"idle", "find"}
         /\ can[c].step # "ok"
         /\ doc' # doc => can[c].step = "save" /\ can'[c].step \notin {"idle", "find"}
  <1>1. can \in [Cancellers -> CanType] /\ can[c].kind \in {"cancel", "remove"}
    BY Typed DEF TypeInv, CanType
  <1>2. CASE CancelBegin(c)
    <2>1. CASE appt = "gone"
      <3>1. can'[c].step = "failed" /\ can[c].step = "idle" /\ doc' = doc
        BY <1>1, <1>2, <2>1, CanGotoTyped DEF CancelBegin, CanStep
      <3> QED
        BY <3>1
    <2>2. CASE appt # "gone"
      <3>1. can'[c].step = "find" /\ can[c].step = "idle" /\ doc' = doc
        BY <1>1, <1>2, <2>2, CanGotoTyped DEF CancelBegin, CanStep
      <3> QED
        BY <1>2, <2>2, <3>1
    <2> QED
      BY <2>1, <2>2
  <1>3. ASSUME NEW S, CancelFind(c) \/ CancelSaveJob(c),
               can' = [can EXCEPT ![c].todo = S, ![c].step = CanNext(can[c].kind, S)]
        PROVE  /\ can'[c].step \in {"unqueue", "delete", "ok"}
               /\ can'[c].kind = can[c].kind
               /\ can'[c].step = "ok" => can[c].kind # "remove"
    <2> DEFINE s == CanNext(can[c].kind, S)
    <2>1. s \in {"unqueue", "delete", "ok"} /\ (s = "ok" => can[c].kind # "remove")
      BY DEF CanNext
    <2> HIDE DEF s
    <2>2. can'[c].step = s /\ can'[c].kind = can[c].kind
      BY <1>1, <1>3 DEF CanType, s
    <2> QED
      BY <2>1, <2>2
  <1>4. CASE CancelFind(c)
    <2> DEFINE found == {j \in Jobs : doc[j] = "pending"}
               s == CanNext(can[c].kind, found)
    <2>1. s \in {"unqueue", "delete", "ok"} /\ (s = "ok" => can[c].kind # "remove")
      BY DEF CanNext
    <2>2. can' = [can EXCEPT ![c].todo = found, ![c].ids = found \cap linked,
                             ![c].step = s]
          /\ doc' = doc /\ can[c].step = "find"
      BY <1>4 DEF CancelFind
    <2> HIDE DEF found, s
    <2>3. can'[c].step = s /\ can'[c].kind = can[c].kind
      BY <1>1, <2>2 DEF CanType
    <2> QED
      BY <2>1, <2>2, <2>3
  <1>5. CASE CancelUnqueue(c)
    <2>1. can'[c].step = "save" /\ can[c].step = "unqueue" /\ doc' = doc
      BY <1>1, <1>5, CanGotoTyped DEF CancelUnqueue, CanStep
    <2> QED
      BY <2>1
  <1>6. CASE CancelSaveJob(c)
    <2>1. /\ can'[c].step \in {"unqueue", "delete", "ok"}
          /\ can'[c].kind = can[c].kind
          /\ can'[c].step = "ok" => can[c].kind # "remove"
      BY <1>3, <1>6 DEF CancelSaveJob
    <2>2. can[c].step = "save"
      BY <1>6 DEF CancelSaveJob
    <2> QED
      BY <2>1, <2>2
  <1>7. CASE CancelDelete(c)
    <2>1. can'[c].step = "ok" /\ can[c].step = "delete" /\ appt' = "gone" /\ doc' = doc
      BY <1>1, <1>7, CanGotoTyped DEF CancelDelete, CanStep
    <2> QED
      BY <2>1
  <1>8. CASE CancelFail(c)
    <2>1. can'[c].step = "failed" /\ can[c].step \in {"find", "save", "delete"}
          /\ doc' = doc
      BY <1>1, <1>8, CanGotoTyped DEF CancelFail, CanStep
    <2> QED
      BY <2>1
  <1> QED
    BY <1>2, <1>4, <1>5, <1>6, <1>7, <1>8 DEF Cancel

LEMMA CalledOffCancel ==
  ASSUME TypeInv, CalledOff, NEW c \in Cancellers,
         CancelBegin(c) \/ Cancel(c) \/ CancelFail(c), [Next]_vars
  PROVE  CalledOff'
  <1>1. /\ wasDead = TRUE => wasDead' = TRUE
        /\ appt' = "dead" => appt = "dead" \/ wasDead' = TRUE
        /\ appt' = "live" => appt \in {"live", "dead"}
        /\ appt = "gone" => appt' = "gone"
    BY ApptSteps
  <1>2. /\ run' = run /\ can'[c].kind = can[c].kind
        /\ \A b \in Cancellers \ {c} : can'[b] = can[b]
        /\ \A j \in Jobs : doc'[j] = doc[j] \/ doc'[j] = "cancelled"
    BY CancelTyped, CancelEffect
  <1>3. can[c].kind \in {"cancel", "remove"}
    BY Typed DEF TypeInv, CanType
  <1>4. CancelBegin(c) /\ appt # "gone" /\ can[c].kind = "cancel" => wasDead' = TRUE
    <2> SUFFICES ASSUME CancelBegin(c), appt # "gone", can[c].kind = "cancel"
                 PROVE  wasDead' = TRUE
      OBVIOUS
    <2>1. wasDead \in BOOLEAN
      BY DEF TypeInv, TypeOK
    <2>2. /\ appt' \in IF wasDead THEN {"dead", appt} ELSE {"dead"}
          /\ wasDead' = (wasDead \/ appt' = "dead")
      BY DEF CancelBegin
    <2>3. CASE wasDead = TRUE
      BY <1>1, <2>3
    <2>4. CASE wasDead = FALSE
      BY <2>2, <2>4
    <2> QED
      BY <2>1, <2>3, <2>4
  <1>5. /\ can'[c].step \in {"find", "unqueue", "save"} =>
             \/ CancelBegin(c) /\ appt # "gone"
             \/ can[c].step \in {"find", "unqueue", "save"}
        /\ can'[c].kind = "remove" /\ can'[c].step = "ok" => appt' = "gone"
        /\ can[c].step \notin {"idle", "find"} => can'[c].step \notin {"idle", "find"}
        /\ can[c].step # "ok"
        /\ doc' # doc => can[c].step = "save" /\ can'[c].step \notin {"idle", "find"}
    BY CancelPath
  <1>6. \A b \in Cancellers :
          /\ can'[b].kind = "cancel" /\ can'[b].step \in {"find", "unqueue", "save"} =>
               wasDead' = TRUE
          /\ can'[b].kind = "remove" /\ can'[b].step = "ok" => appt' = "gone"
    BY <1>1, <1>2, <1>4, <1>5 DEF CalledOff
  <1>7. ASSUME NEW j \in Jobs, appt' = "live", wasDead' # TRUE, doc'[j] = "cancelled"
        PROVE  \E b \in Cancellers : /\ can'[b].kind = "remove"
                                     /\ can'[b].step \notin {"idle", "find", "ok"}
    <2>1. appt = "live" /\ wasDead # TRUE
      BY <1>1, <1>7 DEF CalledOff
    <2>2. CASE doc' = doc
      <3>1. PICK b \in Cancellers : /\ can[b].kind = "remove"
                                    /\ can[b].step \notin {"idle", "find", "ok"}
        BY <1>7, <2>1, <2>2 DEF CalledOff
      <3> QED
        BY <1>2, <1>5, <1>7, <3>1
    <2>3. CASE doc' # doc
      <3>1. can[c].kind = "remove"
        BY <1>3, <1>5, <2>1, <2>3 DEF CalledOff
      <3> QED
        BY <1>2, <1>5, <1>7, <2>3, <3>1
    <2> QED
      BY <2>2, <2>3
  <1> QED
    BY <1>1, <1>2, <1>6, <1>7 DEF CalledOff

LEMMA CalledOffNext == TypeInv /\ Marked /\ CalledOff /\ [Next]_vars => CalledOff'
  <1> SUFFICES ASSUME TypeInv, Marked, CalledOff, [Next]_vars PROVE CalledOff'
    OBVIOUS
  <1>1. /\ wasDead = TRUE => wasDead' = TRUE
        /\ appt' = "dead" => appt = "dead" \/ wasDead' = TRUE
        /\ appt' = "live" => appt \in {"live", "dead"}
        /\ appt = "gone" => appt' = "gone"
    BY ApptSteps
  <1>2. run \in [Workers -> RunType] /\ StoreType /\ can \in [Cancellers -> CanType]
    BY Typed DEF TypeInv
  <1>3. CASE \E c \in Cancellers : CancelBegin(c) \/ Cancel(c) \/ CancelFail(c)
    BY <1>3, CalledOffCancel
  <1>4. ASSUME NEW w \in Workers, Handle(w) PROVE CalledOff'
    <2>1. /\ UNCHANGED <<appt, can, wasDead>> /\ run[w].job \in Jobs
          /\ \A v \in Workers \ {w} : run'[v] = run[v]
          /\ \A j \in Jobs \ {run[w].job} : doc'[j] = doc[j]
      BY <1>4, HandleEffect
    <2>2. Records(w)
      BY <1>4, HandleDetail
    <2>3. \A j \in Jobs : doc'[j] = "cancelled" => doc[j] = "cancelled" \/ wasDead = TRUE
      <3>1. run[w].step = "close" /\ run[w].saw # "gone" => wasDead = TRUE
        <4>1. run[w].saw \in {"live", "dead", "gone"}
          BY <1>2 DEF RunType
        <4> QED
          BY <4>1 DEF CalledOff
      <3> QED
        BY <2>1, <2>2, <3>1 DEF Records
    <2>4. run'[w].saw = "dead" => wasDead' = TRUE
      BY <2>1, <2>2 DEF Records, CalledOff
    <2>5. run'[w].step = "close" => run'[w].saw # "live"
      BY <2>2 DEF Records
    <2> QED
      BY <2>1, <2>3, <2>4, <2>5 DEF CalledOff
  <1>5. ASSUME NEW w \in Workers, Take(w) \/ Return(w) \/ Throw(w) PROVE CalledOff'
    <2>1. /\ UNCHANGED <<appt, can, wasDead, doc>>
          /\ \/ \E j \in Jobs : run' = [run EXCEPT ![w].step = "read", ![w].job = j]
             \/ run' = [run EXCEPT ![w] = Idle]
      BY <1>5 DEF Take, Return, Throw
    <2>2. /\ run'[w].step # "close" /\ run'[w].saw \in {run[w].saw, "live"}
          /\ \A v \in Workers \ {w} : run'[v] = run[v]
      BY <1>2, <2>1 DEF Idle, RunType
    <2> QED
      BY <2>1, <2>2 DEF CalledOff
  <1>6. CASE Crash
    <2>1. UNCHANGED <<appt, wasDead, doc>> /\ run' = [w \in Workers |-> Idle]
      BY <1>6 DEF Crash
    <2>2. \A c \in Cancellers :
            \/ can'[c] = can[c] /\ can[c].step \in {"idle", "ok", "failed"}
            \/ /\ can'[c].step = "failed" /\ can'[c].kind = can[c].kind
               /\ can[c].step \notin {"idle", "ok", "failed"}
      BY <1>2, <1>6 DEF Crash, CanType
    <2>3. \A w \in Workers : run'[w].saw = "live" /\ run'[w].step = "idle"
      BY <2>1 DEF Idle
    <2>4. ASSUME NEW j \in Jobs, appt' = "live", wasDead' # TRUE, doc'[j] = "cancelled"
          PROVE  \E c \in Cancellers : /\ can'[c].kind = "remove"
                                       /\ can'[c].step \notin {"idle", "find", "ok"}
      <3>1. PICK c \in Cancellers : /\ can[c].kind = "remove"
                                    /\ can[c].step \notin {"idle", "find", "ok"}
        BY <2>1, <2>4 DEF CalledOff
      <3> QED
        BY <2>2, <3>1
    <2>5. \A c \in Cancellers :
            /\ can'[c].kind = "cancel" /\ can'[c].step \in {"find", "unqueue", "save"} =>
                 wasDead' = TRUE
            /\ can'[c].kind = "remove" /\ can'[c].step = "ok" => appt' = "gone"
      BY <2>1, <2>2 DEF CalledOff
    <2> QED
      BY <2>1, <2>3, <2>4, <2>5 DEF CalledOff
  <1>7. CASE \/ Schedule \/ SchedFail \/ MarkNoShow \/ Revive \/ ConnectionUpdate \/ Tick
             \/ UNCHANGED vars
    <2>1. /\ UNCHANGED <<run, can>>
          /\ doc' = doc \/ doc' = [doc EXCEPT ![sched.job] = "pending"]
      BY <1>7 DEF Schedule, SchedCreate, SchedAdd, SchedLink, SchedFail, MarkNoShow,
         Revive, ConnectionUpdate, Tick
    <2>2. \A j \in Jobs : doc'[j] = "cancelled" => doc[j] = "cancelled"
      BY <1>2, <2>1 DEF StoreType
    <2> QED
      BY <1>1, <2>1, <2>2 DEF CalledOff
  <1> QED
    BY <1>3, <1>4, <1>5, <1>6, <1>7 DEF Next, Work, Handle

\* An appointment that was live all the time has lost a reminder only to a
\* remove that is under way or that failed.
THEOREM LiveLosesNoReminderHolds == Spec => []LiveLosesNoReminder
  <1>1. Init => CalledOff
    BY DEF Init, CalledOff, Idle
  <1>2. CalledOff => LiveLosesNoReminder
    BY DEF CalledOff, LiveLosesNoReminder
  <1> QED
    BY <1>1, <1>2, TypeInvariant, MarkedInvariant, CalledOffNext, PTL DEF Spec

(***************************************************************************)
(* LateDeliveriesBounded: only runs that read the appointment when it was  *)
(* live may still deliver.                                                 *)
(***************************************************************************)

Sending == {w \in Workers : run[w].step = "send"}

Lagging ==
  IF appt = "live" THEN late = 0
  ELSE late + Cardinality(Sending) <= Cardinality(Workers)

LEMMA SendingFinite ==
  ASSUME IsFiniteSet(Workers), NEW S, S \subseteq Workers
  PROVE  /\ IsFiniteSet(S) /\ Cardinality(S) \in Nat /\ Cardinality(Workers) \in Nat
         /\ Cardinality(S) <= Cardinality(Workers)
  BY FS_Subset, FS_CardinalityType

\* Steps that add nobody to the senders and deliver nothing.
LEMMA LagKept ==
  ASSUME IsFiniteSet(Workers), TypeInv, Lagging, Sending' \subseteq Sending,
         late' = late, appt' = "live" => appt = "live"
  PROVE  Lagging'
  <1>1. Sending \subseteq Workers /\ late \in Nat
    BY DEF Sending, TypeInv, TypeOK
  <1>2. /\ Cardinality(Sending) \in Nat /\ Cardinality(Sending') \in Nat
        /\ Cardinality(Sending') <= Cardinality(Sending)
        /\ Cardinality(Sending) <= Cardinality(Workers)
        /\ Cardinality(Workers) \in Nat /\ IsFiniteSet(Sending)
    BY <1>1, FS_Subset, FS_CardinalityType
  <1>3. Cardinality(Sending)' = Cardinality(Sending') /\ Cardinality(Workers)' = Cardinality(Workers)
    OBVIOUS
  <1>4. CASE appt' = "live"
    BY <1>4 DEF Lagging
  <1>5. CASE appt' # "live" /\ appt = "live"
    <2>1. late' = 0
      BY <1>5 DEF Lagging
    <2> QED
      BY <1>2, <1>3, <1>5, <2>1 DEF Lagging
  <1>6. CASE appt' # "live" /\ appt # "live"
    BY <1>1, <1>2, <1>3, <1>6 DEF Lagging
  <1> QED
    BY <1>4, <1>5, <1>6

LEMMA LaggingNext ==
  ASSUME IsFiniteSet(Workers)
  PROVE  TypeInv /\ Marked /\ Lagging /\ [Next]_vars => Lagging'
  <1> SUFFICES ASSUME TypeInv, Marked, Lagging, [Next]_vars PROVE Lagging'
    OBVIOUS
  <1>1. /\ run \in [Workers -> RunType] /\ appt \in {"live", "dead", "gone"} /\ late \in Nat
    BY Typed DEF TypeInv, StoreType, HistoryType
  <1>2. ASSUME NEW w \in Workers, Handle(w) PROVE Lagging'
    <2>1. appt' = appt /\ \A v \in Workers \ {w} : run'[v] = run[v]
      BY <1>2, HandleEffect
    <2>2. CASE DeliversNot(w)
      <3>1. CASE appt = "live"
        BY <2>1, <2>2, <3>1 DEF DeliversNot, Lagging
      <3>2. CASE appt # "live"
        <4>1. Sending' \subseteq Sending /\ late' = late
          BY <2>1, <2>2, <3>2 DEF DeliversNot, Sending
        <4> QED
          BY <2>1, <4>1, LagKept
      <3> QED
        BY <3>1, <3>2
    <2>3. CASE Delivers(w)
      <3>1. CASE appt = "live"
        BY <2>1, <2>3, <3>1 DEF Delivers, Lagging
      <3>2. CASE appt # "live"
        <4>1. w \in Sending /\ Sending' = Sending \ {w} /\ late' = late + 1
          BY <2>1, <2>3, <3>2 DEF Delivers, Sending
        <4>2. Sending \subseteq Workers
          BY DEF Sending
        <4>3. IsFiniteSet(Sending) /\ Cardinality(Sending) \in Nat
              /\ Cardinality(Workers) \in Nat
          BY <4>2, SendingFinite
        <4>4. Cardinality(Sending') = Cardinality(Sending) - 1
          BY <4>1, <4>3, FS_RemoveElement
        <4>5. Cardinality(Sending)' = Cardinality(Sending')
          OBVIOUS
        <4>6. late + Cardinality(Sending) <= Cardinality(Workers)
          BY <3>2 DEF Lagging
        <4>7. late' + Cardinality(Sending)' <= Cardinality(Workers)
          BY <1>1, <4>1, <4>3, <4>4, <4>5, <4>6
        <4> QED
          BY <2>1, <3>2, <4>7 DEF Lagging
      <3> QED
        BY <3>1, <3>2
    <2> QED
      BY <1>2, <2>2, <2>3, HandleDetail
  <1>3. ASSUME NEW w \in Workers, Take(w) \/ Return(w) \/ Throw(w) PROVE Lagging'
    <2>1. /\ UNCHANGED <<appt, late>>
          /\ \/ \E j \in Jobs : run' = [run EXCEPT ![w].step = "read", ![w].job = j]
             \/ run' = [run EXCEPT ![w] = Idle]
      BY <1>3 DEF Take, Return, Throw
    <2>2. run'[w].step # "send" /\ \A v \in Workers \ {w} : run'[v] = run[v]
      BY <1>1, <2>1 DEF Idle, RunType
    <2>3. Sending' \subseteq Sending
      BY <2>2 DEF Sending
    <2> QED
      BY <2>1, <2>3, LagKept
  <1>4. CASE Crash
    <2>1. UNCHANGED <<appt, late>> /\ run' = [w \in Workers |-> Idle]
      BY <1>4 DEF Crash
    <2>2. Sending' \subseteq Sending
      BY <2>1 DEF Sending, Idle
    <2> QED
      BY <2>1, <2>2, LagKept
  <1>5. CASE Revive
    BY <1>5 DEF Revive, Lagging
  <1>6. CASE \/ Schedule \/ SchedFail \/ MarkNoShow \/ ConnectionUpdate \/ Tick
             \/ UNCHANGED vars
    <2>1. UNCHANGED <<run, late>> /\ (appt' = appt \/ appt' = "dead")
      BY <1>6 DEF Schedule, SchedCreate, SchedAdd, SchedLink, SchedFail, MarkNoShow,
         ConnectionUpdate, Tick
    <2>2. Sending' \subseteq Sending
      BY <2>1 DEF Sending
    <2> QED
      BY <2>1, <2>2, LagKept
  <1>7. ASSUME NEW c \in Cancellers, CancelBegin(c) \/ Cancel(c) \/ CancelFail(c)
        PROVE  Lagging'
    <2>1. UNCHANGED <<run, late>>
      BY <1>7, CancelTyped
    <2>2. appt' \in {appt, "dead", "gone"}
      <3>1. CASE CancelBegin(c)
        BY <3>1 DEF CancelBegin
      <3>2. CASE Cancel(c) \/ CancelFail(c)
        BY <3>2 DEF Cancel, CancelFind, CancelUnqueue, CancelSaveJob, CancelDelete,
           CancelFail
      <3> QED
        BY <1>7, <3>1, <3>2
    <2>3. Sending' \subseteq Sending
      BY <2>1 DEF Sending
    <2> QED
      BY <2>1, <2>2, <2>3, LagKept
  <1> QED
    BY <1>2, <1>3, <1>4, <1>5, <1>6, <1>7 DEF Next, Work, Handle

\* Once the appointment is no longer live, at most one message per worker still
\* goes out.
THEOREM LateDeliveriesBoundedHolds ==
  ASSUME IsFiniteSet(Workers)
  PROVE  Spec => []LateDeliveriesBounded
  <1>1. Init => Lagging
    BY DEF Init, Lagging
  <1>2. TypeInv /\ Lagging => LateDeliveriesBounded
    <2> SUFFICES ASSUME TypeInv, Lagging PROVE LateDeliveriesBounded
      OBVIOUS
    <2>1. late \in Nat /\ Sending \subseteq Workers
      BY DEF TypeInv, TypeOK, Sending
    <2>2. Cardinality(Sending) \in Nat /\ Cardinality(Workers) \in Nat
      BY <2>1, SendingFinite
    <2> QED
      BY <2>1, <2>2 DEF Lagging, LateDeliveriesBounded
  <1> QED
    BY <1>1, <1>2, TypeInvariant, MarkedInvariant, LaggingNext, PTL DEF Spec

(***************************************************************************)
(* PendingIsOnItsWay.                                                      *)
(***************************************************************************)

\* Reminder j is in the queue, or somebody has it in hand.
OnItsWay(j) ==
  \/ queue[j] \in {"delayed", "active", "retry"}
  \/ sched = [step |-> "add", job |-> j]
  \/ \E c \in Cancellers : can[c].step \in {"unqueue", "save"} /\ j \in can[c].todo

NoneStranded ==
  faulty # TRUE =>
    /\ \A j \in Jobs : doc[j] = "pending" => OnItsWay(j)
    /\ \A w \in Workers : run[w].step = "throw" => doc[run[w].job] # "pending"

LEMMA StrandedCancel ==
  ASSUME TypeInv, NoneStranded, NEW c \in Cancellers, [Next]_vars,
         CancelBegin(c) \/ Cancel(c) \/ CancelFail(c)
  PROVE  NoneStranded'
  <1>1. /\ can \in [Cancellers -> CanType] /\ StoreType
        /\ \A b \in Cancellers \ {c} : can'[b] = can[b]
        /\ UNCHANGED <<sched, run>>
    BY Typed, CancelTyped DEF TypeInv
  <1>2. SUFFICES ASSUME faulty' # TRUE
                 PROVE  /\ \A j \in Jobs : doc'[j] = "pending" => OnItsWay(j)'
                        /\ \A w \in Workers : run'[w].step = "throw" =>
                             doc'[run'[w].job] # "pending"
    BY DEF NoneStranded
  <1>3. faulty # TRUE /\ ~CancelFail(c)
    BY <1>2 DEF CancelBegin, Cancel, CancelFind, CancelUnqueue, CancelSaveJob,
       CancelDelete, CancelFail
  <1>4. \A j \in Jobs : doc'[j] = "pending" => doc[j] = "pending" /\ OnItsWay(j)
    BY <1>3, CancelEffect DEF NoneStranded
  <1>5. \A w \in Workers : run'[w].step = "throw" => doc'[run'[w].job] # "pending"
    <2>1. \A w \in Workers : run[w].step = "throw" => run[w].job \in Jobs
      BY WorkerJob DEF Busy
    <2> QED
      BY <1>1, <1>3, <1>4, <2>1 DEF NoneStranded
  <1>6. ASSUME NEW j \in Jobs, doc'[j] = "pending",
               NEW b \in Cancellers, can[b].step \in {"unqueue", "save"}, j \in can[b].todo
        PROVE  can'[b].step \in {"unqueue", "save"} /\ j \in can'[b].todo
    <2>1. CASE b # c
      BY <1>1, <1>6, <2>1
    <2>2. CASE b = c
      <3>1. CASE CancelUnqueue(c)
        BY <1>1, <1>6, <2>2, <3>1, CanGotoTyped DEF CancelUnqueue, CanStep
      <3>2. CASE CancelSaveJob(c)
        <4> DEFINE first == First(can[c].todo)
                   rest == can[c].todo \ {first}
                   s == CanNext(can[c].kind, rest)
        <4>1. s = "unqueue" \/ rest = {}
          BY CanNextIn
        <4>2. can' = [can EXCEPT ![c].todo = rest, ![c].step = s]
              /\ doc' = [doc EXCEPT ![first] = "cancelled"]
          BY <3>2 DEF CancelSaveJob
        <4>3. j # first => j \in rest
          BY <1>6, <2>2
        <4> HIDE DEF first, rest, s
        <4>4. can'[c].todo = rest /\ can'[c].step = s
          BY <1>1, <4>2 DEF CanType
        <4>5. j # first
          BY <1>1, <1>6, <4>2 DEF StoreType
        <4> QED
          BY <2>2, <4>1, <4>3, <4>4, <4>5
      <3>3. CASE CancelBegin(c) \/ CancelFind(c) \/ CancelDelete(c)
        BY <1>6, <2>2, <3>3 DEF CancelBegin, CancelFind, CancelDelete
      <3> QED
        BY <1>3, <3>1, <3>2, <3>3 DEF Cancel
    <2> QED
      BY <2>1, <2>2
  <1>7. ASSUME NEW j \in Jobs, doc'[j] = "pending", queue'[j] # queue[j]
        PROVE  can'[c].step = "save" /\ j \in can'[c].todo
    <2>1. CASE CancelUnqueue(c)
      <3>1. can'[c].step = "save" /\ can'[c].todo = can[c].todo
        BY <1>1, <2>1, CanGotoTyped DEF CancelUnqueue, CanStep
      <3>2. First(can[c].todo) \in can[c].todo
        BY <2>1, FirstIn DEF CancelUnqueue, TypeInv, InHand
      <3>3. queue' = queue \/ queue' = [queue EXCEPT ![First(can[c].todo)] = "removed"]
        BY <2>1 DEF CancelUnqueue
      <3>4. j = First(can[c].todo)
        BY <1>1, <1>7, <3>3 DEF StoreType
      <3> QED
        BY <3>1, <3>2, <3>4
    <2>2. CASE CancelBegin(c) \/ CancelFind(c) \/ CancelDelete(c) \/ CancelSaveJob(c)
      BY <1>7, <2>2 DEF CancelBegin, CancelFind, CancelDelete, CancelSaveJob
    <2> QED
      BY <1>3, <2>1, <2>2 DEF Cancel
  <1> QED
    BY <1>1, <1>4, <1>5, <1>6, <1>7 DEF OnItsWay

LEMMA StrandedNext == TypeInv /\ Marked /\ NoneStranded /\ [Next]_vars => NoneStranded'
  <1> SUFFICES ASSUME TypeInv, Marked, NoneStranded, [Next]_vars PROVE NoneStranded'
    OBVIOUS
  <1>1. run \in [Workers -> RunType] /\ StoreType
    BY Typed DEF TypeInv
  <1>2. \A w \in Workers : Busy(w) => run[w].job \in Jobs /\ queue[run[w].job] = "active"
    BY WorkerJob
  <1>3. CASE \E c \in Cancellers : CancelBegin(c) \/ Cancel(c) \/ CancelFail(c)
    BY <1>3, StrandedCancel
  <1>4. ASSUME NEW w \in Workers, Handle(w) PROVE NoneStranded'
    <2>1. /\ UNCHANGED <<queue, sched, can>> /\ run'[w].job = run[w].job
          /\ run[w].job \in Jobs
          /\ \A v \in Workers \ {w} : run'[v] = run[v] /\ (Busy(v) => run[v].job # run[w].job)
          /\ \A j \in Jobs \ {run[w].job} : doc'[j] = doc[j]
      BY <1>4, HandleEffect, WorkerJob
    <2>2. Records(w)
      BY <1>4, HandleDetail
    <2>3. \A j \in Jobs : OnItsWay(j)' <=> OnItsWay(j)
      BY <2>1 DEF OnItsWay
    <2>4. \A j \in Jobs : doc'[j] = "pending" => doc[j] = "pending"
      BY <2>1, <2>2 DEF Records
    <2>5. faulty' # TRUE => faulty # TRUE
      BY <2>2 DEF Records
    <2>6. run'[w].step = "throw" /\ faulty' # TRUE => doc'[run'[w].job] # "pending"
      BY <2>1, <2>2 DEF Records
    <2>7. \A v \in Workers \ {w} : run'[v].step = "throw" /\ faulty' # TRUE =>
            doc'[run'[v].job] # "pending"
      BY <1>2, <2>1, <2>5 DEF NoneStranded, Busy
    <2> QED
      BY <2>3, <2>4, <2>5, <2>6, <2>7 DEF NoneStranded
  <1>5. ASSUME NEW w \in Workers, Take(w) PROVE NoneStranded'
    <2>1. PICK j \in Jobs :
            /\ queue[j] \in {"retry", "delayed"}
            /\ queue' = [queue EXCEPT ![j] = "active"]
            /\ run' = [run EXCEPT ![w].step = "read", ![w].job = j]
      BY <1>5 DEF Take
    <2>2. UNCHANGED <<doc, sched, can, faulty>>
      BY <1>5 DEF Take
    <2>3. run'[w].step = "read" /\ \A v \in Workers \ {w} : run'[v] = run[v]
      BY <1>1, <2>1 DEF RunType
    <2>4. \A i \in Jobs : queue[i] \in {"delayed", "active", "retry"} =>
                            queue'[i] \in {"delayed", "active", "retry"}
      BY <1>1, <2>1 DEF StoreType
    <2>5. \A i \in Jobs : OnItsWay(i) => OnItsWay(i)'
      BY <2>2, <2>4 DEF OnItsWay
    <2> QED
      BY <2>2, <2>3, <2>5 DEF NoneStranded
  <1>6. ASSUME NEW w \in Workers, Return(w) \/ Throw(w) PROVE NoneStranded'
    <2>1. /\ UNCHANGED <<doc, sched, can, faulty>> /\ run' = [run EXCEPT ![w] = Idle]
          /\ \E q \in {"completed", "retry", "failed"} :
               queue' = [queue EXCEPT ![run[w].job] = q]
      BY <1>6 DEF Return, Throw
    <2>2. run'[w].step = "idle" /\ \A v \in Workers \ {w} : run'[v] = run[v]
      BY <1>1, <2>1 DEF Idle
    <2>3. faulty # TRUE => doc[run[w].job] # "pending"
      BY <1>6 DEF Return, Throw, NoneStranded, Marked
    <2>4. \A i \in Jobs : i # run[w].job => queue'[i] = queue[i]
      BY <1>1, <2>1 DEF StoreType
    <2>5. \A i \in Jobs : i # run[w].job => (OnItsWay(i) => OnItsWay(i)')
      BY <2>1, <2>4 DEF OnItsWay
    <2> QED
      BY <2>1, <2>2, <2>3, <2>5 DEF NoneStranded
  <1>7. CASE Schedule \/ SchedFail
    <2>1. UNCHANGED <<run, can>>
      BY <1>7 DEF Schedule, SchedCreate, SchedAdd, SchedLink, SchedFail
    <2>2. \A w \in Workers : Busy(w) => doc[run[w].job] # "absent"
      BY WorkerJob
    <2>3. \A w \in Workers : run'[w].step = "throw" /\ faulty' # TRUE =>
            doc'[run'[w].job] # "pending"
      BY <1>2, <1>7, <2>1, <2>2, PendingIsNew DEF NoneStranded, Busy, Schedule, SchedCreate,
         SchedAdd, SchedLink, SchedFail
    <2>4. ASSUME faulty' # TRUE, NEW j \in Jobs, doc'[j] = "pending"
          PROVE  OnItsWay(j)'
      <3>1. faulty # TRUE /\ ~SchedFail
        BY <1>7, <2>4 DEF Schedule, SchedCreate, SchedAdd, SchedLink, SchedFail
      <3>2. CASE doc[j] = "absent"
        <4>1. sched' = [step |-> "add", job |-> j]
          BY <2>4, <3>2, PendingIsNew DEF SchedCreate, SchedGoto
        <4> QED
          BY <4>1 DEF OnItsWay
      <3>3. CASE doc[j] = "pending"
        <4>1. OnItsWay(j)
          BY <3>1, <3>3 DEF NoneStranded
        <4>2. CASE SchedCreate \/ SchedLink
          <5>1. queue' = queue /\ sched.step # "add"
            BY <4>2 DEF SchedCreate, SchedLink
          <5> QED
            BY <2>1, <4>1, <5>1 DEF OnItsWay
        <4>3. CASE SchedAdd
          <5>1. queue' = [queue EXCEPT ![sched.job] = "delayed"]
            BY <4>3 DEF SchedAdd
          <5>2. \/ queue'[j] = queue[j] /\ sched # [step |-> "add", job |-> j]
                \/ queue'[j] = "delayed"
            BY <1>1, <5>1 DEF StoreType
          <5> QED
            BY <2>1, <4>1, <5>2 DEF OnItsWay
        <4> QED
          BY <1>7, <3>1, <4>2, <4>3 DEF Schedule
      <3> QED
        BY <2>4, <3>2, <3>3, PendingIsNew
    <2> QED
      BY <2>3, <2>4 DEF NoneStranded
  <1>8. CASE Crash
    BY <1>8 DEF Crash, NoneStranded
  <1>9. CASE MarkNoShow \/ Revive \/ ConnectionUpdate \/ Tick \/ UNCHANGED vars
    <2>1. UNCHANGED <<doc, queue, sched, can, run, faulty>>
      BY <1>9 DEF MarkNoShow, Revive, ConnectionUpdate, Tick
    <2> QED
      BY <2>1 DEF NoneStranded, OnItsWay
  <1> QED
    BY <1>3, <1>4, <1>5, <1>6, <1>7, <1>8, <1>9 DEF Next, Work, Handle

\* While nothing has failed, a reminder that says pending will still be seen to.
THEOREM PendingIsOnItsWayHolds == Spec => []PendingIsOnItsWay
  <1>1. Init => NoneStranded
    BY DEF Init, NoneStranded, Idle
  <1>2. NoneStranded => PendingIsOnItsWay
    BY DEF NoneStranded, PendingIsOnItsWay, OnItsWay
  <1> QED
    BY <1>1, <1>2, TypeInvariant, MarkedInvariant, StrandedNext, PTL DEF Spec

----------------------------------------------------------------------------
(* The queue runs down.                                                    *)

LEMMA LeftTypes ==
  ASSUME TypeInv, NEW j \in Jobs
  PROVE  /\ made[j] \in 0..MaxAttempts /\ stalls[j] \in 0..MaxStalls
         /\ MaxAttempts \in Nat /\ MaxStalls \in Nat
         /\ Rank["none"] = 4 /\ Rank["delayed"] = 3 /\ Rank["retry"] = 3
         /\ Rank["active"] = 2 /\ Rank["failed"] = 1
         /\ Rank["completed"] = 0 /\ Rank["removed"] = 0
  <1>1. StoreType
    BY Typed DEF TypeInv
  <1> QED
    BY <1>1 DEF StoreType, Rank

\* What one step does to an entry that it changes.
RunsOn(j) ==
  \/ /\ UNCHANGED <<made, stalls>>
     /\ \/ queue[j] = "none" /\ queue'[j] = "delayed"
        \/ queue[j] \in {"delayed", "retry", "failed"} /\ queue'[j] = "removed"
        \/ queue[j] \in {"delayed", "retry"} /\ queue'[j] = "active"
        \/ queue[j] = "active" /\ queue'[j] \in {"completed", "failed"}
  \/ /\ queue[j] = "active" /\ queue'[j] \in {"retry", "failed"}
     /\ \/ made'[j] = made[j] + 1 /\ stalls'[j] = stalls[j]
        \/ made'[j] = made[j] /\ stalls'[j] = stalls[j] + 1
        \/ made'[j] = made[j] /\ stalls'[j] = stalls[j] /\ queue'[j] = "failed"

LEMMA RunningOnIsDown ==
  ASSUME TypeInv, NEW j \in Jobs, RunsOn(j)
  PROVE  Left(j)' < Left(j)
  <1>1. /\ made[j] \in 0..MaxAttempts /\ stalls[j] \in 0..MaxStalls
        /\ MaxAttempts \in Nat /\ MaxStalls \in Nat
    BY LeftTypes
  <1> DEFINE spare == (MaxAttempts - made[j]) + (MaxStalls - stalls[j])
             spareNext == (MaxAttempts - made'[j]) + (MaxStalls - stalls'[j])
  <1>2. \/ spareNext = spare /\ Rank[queue'[j]] < Rank[queue[j]]
        \/ spareNext = spare - 1 /\ Rank[queue'[j]] <= Rank[queue[j]] + 1
    BY <1>1, LeftTypes DEF RunsOn
  <1>3. Rank[queue[j]] \in Int /\ Rank[queue'[j]] \in Int /\ spare \in Int
    BY <1>1, LeftTypes DEF RunsOn
  <1>4. Left(j) = 2 * spare + Rank[queue[j]] /\ Left(j)' = 2 * spareNext + Rank[queue'[j]]
    BY DEF Left
  <1> QED
    <2> HIDE DEF spare, spareNext
    <2> QED
      BY <1>2, <1>3, <1>4

LEMMA RunsOnWork ==
  ASSUME TypeInv, NEW w \in Workers, Work(w),
         NEW j \in Jobs, queue'[j] # queue[j]
  PROVE  RunsOn(j)
  <1>1. StoreType /\ Worked
    BY Typed DEF TypeInv
  <1>2. CASE Take(w)
    BY <1>1, <1>2 DEF Take, StoreType, RunsOn
  <1>3. CASE Handle(w)
    BY <1>3, HandleEffect
  <1>4. CASE Return(w) \/ Throw(w)
    <2>1. run[w].job \in Jobs /\ queue[run[w].job] = "active"
      BY <1>1, <1>4 DEF Busy, Return, Throw, Worked
    <2>2. CASE Return(w)
      BY <1>1, <2>1, <2>2 DEF Return, StoreType, RunsOn
    <2>3. CASE Throw(w)
      <3>1. /\ made' = [made EXCEPT ![run[w].job] = @ + 1] /\ stalls' = stalls
            /\ queue' = [queue EXCEPT ![run[w].job] =
                            IF made'[run[w].job] < MaxAttempts THEN "retry" ELSE "failed"]
        BY <2>3 DEF Throw, Count
      <3> QED
        BY <1>1, <2>1, <3>1 DEF StoreType, RunsOn
    <2> QED
      BY <1>4, <2>2, <2>3
  <1> QED
    BY <1>2, <1>3, <1>4 DEF Work, Handle

LEMMA RunsOnCrash ==
  ASSUME TypeInv, Crash, NEW j \in Jobs, queue'[j] # queue[j]
  PROVE  RunsOn(j)
  <1> DEFINE busy == {w \in Workers : run[w].step # "idle"}
             hit  == {run[w].job : w \in busy}
  <1>1. /\ made' = made
        /\ queue' = [i \in Jobs |->
                      IF i \notin hit THEN queue[i]
                      ELSE IF stalls[i] < MaxStalls THEN "retry" ELSE "failed"]
        /\ stalls' = [i \in Jobs |->
                       IF i \in hit /\ stalls[i] < MaxStalls
                       THEN stalls[i] + 1 ELSE stalls[i]]
    BY DEF Crash
  <1>2. \A i \in hit : queue[i] = "active"
    BY DEF TypeInv, Worked, Busy
  <1> HIDE DEF hit
  <1>3. j \in hit /\ queue[j] = "active"
    BY <1>1, <1>2
  <1>4. CASE stalls[j] < MaxStalls
    <2>1. queue'[j] = "retry" /\ stalls'[j] = stalls[j] + 1
      BY <1>1, <1>3, <1>4
    <2> QED
      BY <1>1, <1>3, <2>1 DEF RunsOn
  <1>5. CASE ~(stalls[j] < MaxStalls)
    <2>1. queue'[j] = "failed" /\ stalls'[j] = stalls[j]
      BY <1>1, <1>3, <1>5
    <2> QED
      BY <1>1, <1>3, <2>1 DEF RunsOn
  <1> QED
    BY <1>4, <1>5

\* Attempts and stalls are all that keeps an entry in the queue: no worker,
\* cancel, failing call or crash moves it back without using one up.
THEOREM QueueRunsDownHolds == Spec => QueueRunsDown
  <1>1. TypeInv /\ [Next]_vars
          => [\A j \in Jobs : queue'[j] # queue[j] => Left(j)' < Left(j)]_vars
    <2> SUFFICES ASSUME TypeInv, [Next]_vars, NEW j \in Jobs, queue'[j] # queue[j]
                 PROVE  Left(j)' < Left(j)
      OBVIOUS
    <2>1. CASE Others
      BY <2>1, OthersEffect, RunningOnIsDown DEF RunsOn
    <2>2. ASSUME NEW w \in Workers, Work(w) PROVE Left(j)' < Left(j)
      BY <2>2, RunsOnWork, RunningOnIsDown
    <2>3. CASE Crash
      BY <2>3, RunsOnCrash, RunningOnIsDown
    <2> QED
      BY <2>1, <2>2, <2>3 DEF Next, Others
  <1> QED
    BY <1>1, TypeInvariant, PTL DEF Spec, QueueRunsDown
============================================================================
