--------------------------- MODULE BookingProofs ---------------------------
(* Proofs about Booking and BookVersions for every set of requests, catalogue *)
(* and clock.                                                                *)
EXTENDS BookVersions, FiniteSetTheorems, TLAPS

(***************************************************************************)
(* Type correctness.  TypeOK alone is not inductive: the steps that use    *)
(* the wanted slot or the in-memory copy need to know that it is there.    *)
(***************************************************************************)

\* What each step finds in the handler's local variables.
HandlerShape ==
  \A r \in Requests :
    /\ pc[r] \in {"find", "write", "commit", "remind"} => want[r] # NoDoc
    /\ pc[r] = "audit" /\ op[r] \in {"create", "public"} => want[r] # NoDoc
    /\ pc[r] = "remind" => op[r] \in {"create", "public"}
    /\ pc[r] = "commit" => op[r] = "reschedule"
    /\ pc[r] \in {"save", "clear", "delete"} => op[r] \in {"cancel", "remove"}
    /\ pc[r] \in {"check", "save"} => loc[r] # NoDoc

TypeInv == TypeOK /\ HandlerShape

\* MkSlot yields a slot that is not the "no such document" value.
LEMMA MkSlotType ==
  ASSUME NEW p \in Professionals, NEW s \in Services, NEW t \in Times
  PROVE  MkSlot(p, s, t) \in Slot /\ MkSlot(p, s, t) # NoDoc
  BY CatalogueAssumption, NoDocAssumption DEF MkSlot, Slot

\* Turning a slot into an appointment.
LEMMA AppointmentType ==
  ASSUME NEW w \in Slot, NEW st \in Status
  PROVE  Appointment(w, st) \in Doc /\ Appointment(w, st) # NoDoc
  BY NoDocAssumption DEF Appointment, Slot, Doc

\* Changing the status of a document keeps its other fields.
LEMMA SetStatusType ==
  ASSUME NEW a \in Requests, NEW st \in Status, TypeOK, Exists(a)
  PROVE  /\ SetStatus(a, st) \in [Requests -> Doc \cup {NoDoc}]
         /\ SetStatus(a, st)[a] # NoDoc
         /\ \A b \in Requests : b # a => SetStatus(a, st)[b] = appts[b]
         /\ SetStatus(a, st)[a] =
              [prof |-> appts[a].prof, serv |-> appts[a].serv,
               startAt |-> appts[a].startAt, endAt |-> appts[a].endAt,
               status |-> st]
  <1>1. appts[a] \in Doc
    BY DEF TypeOK, Exists
  <1>2. [appts[a] EXCEPT !.status = st] \in Doc
    BY <1>1 DEF Doc
  <1>3. [appts[a] EXCEPT !.status = st] # NoDoc
    BY <1>2, NoDocAssumption
  <1>4. SetStatus(a, st) = [appts EXCEPT ![a] = [appts[a] EXCEPT !.status = st]]
    BY DEF SetStatus
  <1>5. [appts[a] EXCEPT !.status = st] =
          [prof |-> appts[a].prof, serv |-> appts[a].serv,
           startAt |-> appts[a].startAt, endAt |-> appts[a].endAt,
           status |-> st]
    BY <1>1 DEF Doc
  <1> QED
    BY <1>2, <1>3, <1>4, <1>5 DEF TypeOK

\* What follows a write that took effect: the handler goes on, or is done.
LEMMA LandedType ==
  ASSUME TypeOK, NEW r \in Requests, NEW step \in PC,
         Landed(r, step) \/ ReplyLost(r)
  PROVE  /\ \E next \in {step, "done"} : pc' = [pc EXCEPT ![r] = next]
         /\ pc' \in [Requests -> PC]
         /\ resp' \in [Requests -> Answers]
         /\ sessions' \subseteq sessions
         /\ doubt' \subseteq Requests
         /\ unlogged' \subseteq Requests
         /\ faults' \in 0..MaxFaults
  <1> USE DEF TypeOK, PC, Answers, Goto, Reply, Finish, mishaps
  <1>1. CASE ReplyLost(r)
    BY <1>1, CatalogueAssumption DEF ReplyLost, Fault
  <1>2. CASE Goto(r, step) /\ UNCHANGED <<resp, sessions, mishaps>>
    BY <1>2
  <1> QED
    BY <1>1, <1>2 DEF Landed

LEMMA TypeInit == Init => TypeInv
  BY CatalogueAssumption
     DEF Init, TypeInv, TypeOK, HandlerShape, PC, Answers, AllOps

LEMMA TypeNext == TypeInv /\ [Next]_vars => TypeInv'
  <1> SUFFICES ASSUME TypeInv, [Next]_vars PROVE TypeInv'
    OBVIOUS
  <1> USE DEF TypeInv, TypeOK, HandlerShape, mongo, history, mishaps
  <1>1. ASSUME NEW r \in Requests, CreateValidate(r) PROVE TypeInv'
    <2>1. PICK o \in Ops \cap {"create", "public"}, p \in Professionals,
               s \in Services, t \in Times : CreateValidate(r)!2!(o, p, s, t)
      BY <1>1 DEF CreateValidate
    <2>2. o \in AllOps
      BY OpsAssumption
    <2>3. MkSlot(p, s, t) \in Slot /\ MkSlot(p, s, t) # NoDoc
      BY MkSlotType
    <2>4. /\ op' = [op EXCEPT ![r] = o]
          /\ UNCHANGED <<now, appts, jobsFor, audited, target, loc, mongo, history,
                         mishaps>>
      BY <1>1, <2>1 DEF CreateValidate
    <2>5. \/ Reply(r, "bad") /\ UNCHANGED <<want, sessions>>
          \/ Reply(r, "conflict") /\ UNCHANGED <<want, sessions>>
          \/ /\ want' = [want EXCEPT ![r] = MkSlot(p, s, t)]
             /\ Goto(r, "find")
             /\ sessions' = sessions \cup {r}
             /\ UNCHANGED resp
      BY <2>1
    <2>6. CASE want' = [want EXCEPT ![r] = MkSlot(p, s, t)] /\ Goto(r, "find")
               /\ sessions' = sessions \cup {r} /\ UNCHANGED resp
      BY <2>2, <2>3, <2>4, <2>6 DEF Goto, PC
    <2>7. CASE UNCHANGED <<want, sessions>> /\ Reply(r, "bad")
      BY <2>2, <2>4, <2>7 DEF Reply, Goto, PC, Answers
    <2>8. CASE UNCHANGED <<want, sessions>> /\ Reply(r, "conflict")
      BY <2>2, <2>4, <2>8 DEF Reply, Goto, PC, Answers
    <2> QED
      BY <2>5, <2>6, <2>7, <2>8
  <1>2. ASSUME NEW r \in Requests, TxnFind(r) PROVE TypeInv'
    BY <1>2 DEF TxnFind, SnapshotTime, Finish, Reply, Goto, PC, Answers
  <1>3. ASSUME NEW r \in Requests, TxnInsert(r) PROVE TypeInv'
    <2>1. want[r] \in Slot
      BY <1>3 DEF TxnInsert
    <2>2. Appointment(want[r], "PENDING") \in Doc
      BY <2>1, AppointmentType DEF Status
    <2> QED
      <3>1. AfterWrite(op[r]) \in {"remind", "audit"}
        BY DEF AfterWrite
      <3>2. AfterWrite(op[r]) \in PC /\ Landed(r, AfterWrite(op[r]))
        BY <1>3, <3>1 DEF TxnInsert, PC
      <3> HIDE DEF TypeInv, TypeOK, HandlerShape
      <3>3. TypeOK /\ HandlerShape
        BY DEF TypeInv
      <3>4. /\ \E next \in {AfterWrite(op[r]), "done"} :
                 pc' = [pc EXCEPT ![r] = next]
            /\ pc' \in [Requests -> PC]
            /\ resp' \in [Requests -> Answers]
            /\ sessions' \subseteq sessions
            /\ doubt' \subseteq Requests
            /\ unlogged' \subseteq Requests
            /\ faults' \in 0..MaxFaults
        BY <3>2, <3>3, LandedType
      <3>5. TypeOK'
        BY <1>3, <2>2, <3>3, <3>4 DEF TxnInsert, Wrote, TypeOK
      <3>6. HandlerShape'
        BY <1>3, <3>1, <3>3, <3>4 DEF TxnInsert, HandlerShape, TypeOK
      <3> QED
        BY <3>5, <3>6 DEF TypeInv
  <1>4. ASSUME NEW r \in Requests, Fail(r) PROVE TypeInv'
    BY <1>4 DEF Fail, Finish, Reply, Goto, PC, Answers
  <1>5. ASSUME NEW r \in Requests, ScheduleReminders(r) PROVE TypeInv'
    <2>1. want[r].startAt \in Nat
      BY <1>5 DEF ScheduleReminders, Slot
    <2>2. jobsFor' \in [Requests -> SUBSET Nat]
      BY <1>5, <2>1 DEF ScheduleReminders
    <2>3. UNCHANGED <<now, appts, audited, op, target, loc, want, mongo, history,
                     mishaps>>
      BY <1>5 DEF ScheduleReminders
    <2>4. /\ pc[r] = "remind" /\ want[r] # NoDoc
          /\ op[r] \in {"create", "public"}
      BY <1>5 DEF ScheduleReminders
    <2>5. CASE Goto(r, AfterRemind(op[r])) /\ UNCHANGED <<resp, sessions>>
      BY <2>2, <2>3, <2>4, <2>5 DEF Goto, AfterRemind, PC
    <2>6. CASE Finish(r, "error")
      BY <2>2, <2>3, <2>6 DEF Finish, Reply, Goto, PC, Answers
    <2> QED
      BY <1>5, <2>5, <2>6 DEF ScheduleReminders
  <1>6. ASSUME NEW r \in Requests, ReadTarget(r) PROVE TypeInv'
    <2>1. PICK o \in Ops \cap {"reschedule", "cancel", "remove"}, a \in KnownIds :
            ReadTarget(r)!2!(o, a)
      BY <1>6 DEF ReadTarget
    <2>2. o \in AllOps /\ a \in Requests
      BY OpsAssumption DEF KnownIds
    <2>3. /\ op' = [op EXCEPT ![r] = o]
          /\ target' = [target EXCEPT ![r] = a]
          /\ loc' = [loc EXCEPT ![r] = appts[a]]
          /\ UNCHANGED <<now, appts, jobsFor, audited, sessions, want, mongo,
                         history, mishaps>>
      BY <1>6, <2>1 DEF ReadTarget
    <2>4. CASE ~Exists(a)
      BY <2>1, <2>2, <2>3, <2>4 DEF Reply, Goto, PC, Answers
    <2>5. CASE Exists(a)
      BY <2>1, <2>2, <2>3, <2>5 DEF Exists, Goto, PC
    <2> QED
      BY <2>4, <2>5
  <1>7. ASSUME NEW r \in Requests, RescheduleCheck(r) PROVE TypeInv'
    <2>1. loc[r].prof \in Professionals /\ loc[r].serv \in Services
      BY <1>7 DEF RescheduleCheck, Doc
    <2>2. \A t \in Times : /\ MkSlot(loc[r].prof, loc[r].serv, t) \in Slot
                           /\ MkSlot(loc[r].prof, loc[r].serv, t) # NoDoc
      BY <2>1, MkSlotType
    <2>3. PICK t \in Times :
            \/ Reply(r, "bad") /\ UNCHANGED <<want, sessions>>
            \/ /\ want' = [want EXCEPT ![r] = MkSlot(loc[r].prof, loc[r].serv, t)]
               /\ Goto(r, "find")
               /\ sessions' = sessions \cup {r}
               /\ UNCHANGED resp
      BY <1>7 DEF RescheduleCheck
    <2>4. CASE Reply(r, "bad") /\ UNCHANGED <<want, sessions>>
      BY <1>7, <2>4 DEF RescheduleCheck, Reply, Goto, PC, Answers
    <2>5. CASE /\ want' = [want EXCEPT ![r] = MkSlot(loc[r].prof, loc[r].serv, t)]
               /\ Goto(r, "find") /\ sessions' = sessions \cup {r}
               /\ UNCHANGED resp
      <3>1. /\ want' \in [Requests -> Slot \cup {NoDoc}] /\ want'[r] # NoDoc
            /\ \A q \in Requests \ {r} : want'[q] = want[q]
        BY <2>2, <2>5
      <3>2. UNCHANGED <<now, appts, jobsFor, audited, op, target, loc, mongo,
                       history, mishaps>>
        BY <1>7 DEF RescheduleCheck
      <3> QED
        BY <2>5, <3>1, <3>2 DEF Goto, PC
    <2> QED
      BY <2>3, <2>4, <2>5
  <1>8. ASSUME NEW r \in Requests, TxnMove(r) PROVE TypeInv'
    <2>1. want[r] \in Slot
      BY <1>8 DEF TxnMove
    <2>2. Appointment(want[r], "RESCHEDULED") \in Doc
      BY <2>1, AppointmentType DEF Status
    <2>3. op[r] = "reschedule" /\ AfterWrite(op[r]) = "audit"
      BY <1>8 DEF TxnMove, AfterWrite
    <2>4. /\ TypeOK /\ HandlerShape /\ target[r] \in Requests
          /\ UNCHANGED <<now, jobsFor, audited, op, target, loc, want, snap>>
      BY <1>8 DEF TxnMove
    <2>5. /\ appts' \in [Requests -> Doc \cup {NoDoc}]
          /\ commits' \in Nat /\ stamp' \in [Requests -> Nat]
          /\ wrote' \subseteq Requests /\ solid' \subseteq Requests
          /\ slotAt' \in [Requests -> Nat] /\ slotSnap' \in [Requests -> Nat]
      <3>1. CASE UNCHANGED <<appts, commits, stamp, history>>
        BY <2>4, <3>1 DEF TypeOK
      <3>2. CASE /\ appts' = [appts EXCEPT ![target[r]] =
                                Appointment(want[r], "RESCHEDULED")]
                 /\ Wrote(r, target[r])
                 /\ slotAt' = [slotAt EXCEPT ![target[r]] = commits + 1]
                 /\ slotSnap' = [slotSnap EXCEPT ![target[r]] = snap[r]]
                 /\ solid' = solid \ {target[r]}
        BY <2>2, <2>4, <3>2 DEF Wrote, TypeOK
      <3> QED BY <1>8, <3>1, <3>2 DEF TxnMove
    <2>6. \/ ReplyLost(r)
          \/ /\ Goto(r, "audit") /\ sessions' = sessions \ {r}
             /\ UNCHANGED <<resp, mishaps>>
      BY <1>8, <2>3 DEF TxnMove
    <2> HIDE DEF TypeInv, TypeOK, HandlerShape
    <2>7. /\ \E step \in {"audit", "done"} : pc' = [pc EXCEPT ![r] = step]
          /\ pc' \in [Requests -> PC]
          /\ resp' \in [Requests -> Answers]
          /\ sessions' \subseteq sessions
          /\ doubt' \subseteq Requests
          /\ unlogged' \subseteq Requests
          /\ faults' \in 0..MaxFaults
      <3>1. CASE ReplyLost(r)
        BY <2>4, <3>1, LandedType DEF PC
      <3>2. CASE /\ Goto(r, "audit") /\ sessions' = sessions \ {r}
                 /\ UNCHANGED <<resp, mishaps>>
        BY <2>4, <3>2 DEF Goto, PC, TypeOK
      <3> QED BY <2>6, <3>1, <3>2
    <2>8. TypeOK'
      BY <2>4, <2>5, <2>7 DEF TypeOK
    <2>9. HandlerShape'
      <3>1. /\ pc'[r] \in {"audit", "done"}
            /\ \A x \in Requests \ {r} : pc'[x] = pc[x]
        BY <2>4, <2>7 DEF TypeOK
      <3>2. pc \in [Requests -> PC]
        BY <2>4 DEF TypeOK
      <3> QED BY <2>3, <2>4, <3>1, <3>2 DEF HandlerShape
    <2> QED BY <2>8, <2>9 DEF TypeInv
  <1>9. ASSUME NEW r \in Requests, TxnRetry(r) PROVE TypeInv'
    BY <1>9 DEF TxnRetry, Goto, PC
  <1>10. ASSUME NEW r \in Requests, CancelCheck(r) PROVE TypeInv'
    BY <1>10 DEF CancelCheck, Reply, Goto, PC, Answers
  <1>11. ASSUME NEW r \in Requests, CancelSave(r) PROVE TypeInv'
    <2>1. "CANCELLED" \in Status
      BY DEF Status
    <2>2. CASE /\ UNCHANGED <<appts, sessions, commits, stamp, history, mishaps>>
               /\ Reply(r, "error") \/ (Goto(r, "clear") /\ UNCHANGED resp)
      <3>1. CASE Reply(r, "error")
        BY <1>11, <2>2, <3>1 DEF CancelSave, Reply, Goto, PC, Answers
      <3>2. CASE Goto(r, "clear") /\ UNCHANGED resp
        BY <1>11, <2>2, <3>2 DEF CancelSave, Goto, PC
      <3> QED
        BY <2>2, <3>1, <3>2
    <2>3. CASE /\ Exists(target[r]) /\ appts' = SetStatus(target[r], "CANCELLED")
               /\ Wrote(r, target[r]) /\ solid' = solid \ {target[r]}
               /\ Landed(r, "clear") /\ UNCHANGED <<slotAt, slotSnap>>
      <3> HIDE DEF TypeInv, TypeOK, HandlerShape
      <3>1. TypeOK /\ HandlerShape /\ target[r] \in Requests /\ "clear" \in PC
        BY DEF TypeInv, TypeOK, PC
      <3>2. appts' \in [Requests -> Doc \cup {NoDoc}]
        BY <2>1, <2>3, <3>1, SetStatusType
      <3>3. /\ \E next \in {"clear", "done"} : pc' = [pc EXCEPT ![r] = next]
            /\ pc' \in [Requests -> PC]
            /\ resp' \in [Requests -> Answers]
            /\ sessions' \subseteq sessions
            /\ doubt' \subseteq Requests
            /\ unlogged' \subseteq Requests
            /\ faults' \in 0..MaxFaults
        BY <2>3, <3>1, LandedType
      <3>4. TypeOK'
        BY <1>11, <2>3, <3>1, <3>2, <3>3 DEF CancelSave, Wrote, TypeOK
      <3>5. HandlerShape'
        BY <1>11, <3>1, <3>3 DEF CancelSave, HandlerShape, TypeOK
      <3> QED
        BY <3>4, <3>5 DEF TypeInv
    <2>4. \/ /\ Reply(r, "error")
             /\ UNCHANGED <<appts, sessions, commits, stamp, history, mishaps>>
          \/ /\ Goto(r, "clear")
             /\ UNCHANGED <<appts, sessions, resp, commits, stamp, history, mishaps>>
          \/ /\ Exists(target[r]) /\ appts' = SetStatus(target[r], "CANCELLED")
             /\ Wrote(r, target[r]) /\ solid' = solid \ {target[r]}
             /\ Landed(r, "clear") /\ UNCHANGED <<slotAt, slotSnap>>
      BY <1>11 DEF CancelSave
    <2> HIDE DEF TypeInv, TypeOK, HandlerShape
    <2> QED
      BY <2>2, <2>3, <2>4
  <1>12. ASSUME NEW r \in Requests, ClearReminders(r) PROVE TypeInv'
    <2>1. jobsFor' \in [Requests -> SUBSET Nat]
      <3>1. PICK left \in SUBSET jobsFor[target[r]] :
              jobsFor' = [jobsFor EXCEPT ![target[r]] = left]
        BY <1>12 DEF ClearReminders
      <3>2. left \in SUBSET Nat
        OBVIOUS
      <3> QED
        BY <3>1, <3>2
    <2>2. UNCHANGED <<now, appts, audited, op, target, loc, want, mongo,
                      history, mishaps>>
      BY <1>12 DEF ClearReminders
    <2>3. \/ Goto(r, AfterClear(op[r])) /\ UNCHANGED <<resp, sessions>>
          \/ Finish(r, "error")
      BY <1>12 DEF ClearReminders
    <2>4. CASE Goto(r, AfterClear(op[r])) /\ UNCHANGED <<resp, sessions>>
      <3>1. AfterClear(op[r]) \in {"delete", "audit"}
        BY DEF AfterClear
      <3>2. PICK next \in {"delete", "audit"} : pc' = [pc EXCEPT ![r] = next]
        BY <2>4, <3>1 DEF Goto
      <3>3. TypeOK'
        BY <2>1, <2>2, <2>4, <3>2 DEF PC
      <3>4. pc[r] = "clear"
        BY <1>12 DEF ClearReminders
      <3>5. HandlerShape'
        BY <2>2, <3>2, <3>4
      <3> QED
        BY <3>3, <3>5
    <2>5. CASE Finish(r, "error")
      <3>1. TypeOK'
        BY <2>1, <2>2, <2>5 DEF Finish, Reply, Goto, PC, Answers
      <3>2. HandlerShape'
        BY <2>2, <2>5 DEF Finish, Reply, Goto
      <3> QED
        BY <3>1, <3>2
    <2> QED
      BY <2>3, <2>4, <2>5
  <1>13. ASSUME NEW r \in Requests, Delete(r) PROVE TypeInv'
    <2>1. CASE ~Exists(target[r])
      BY <1>13, <2>1 DEF Delete, Goto, PC
    <2>2. CASE Exists(target[r])
      <3> HIDE DEF TypeInv, TypeOK, HandlerShape
      <3>1. TypeOK /\ HandlerShape /\ "audit" \in PC
        BY DEF TypeInv, PC
      <3>2. Landed(r, "audit")
        BY <1>13, <2>2 DEF Delete
      <3>3. /\ \E next \in {"audit", "done"} : pc' = [pc EXCEPT ![r] = next]
            /\ pc' \in [Requests -> PC]
            /\ resp' \in [Requests -> Answers]
            /\ sessions' \subseteq sessions
            /\ doubt' \subseteq Requests
            /\ unlogged' \subseteq Requests
            /\ faults' \in 0..MaxFaults
        BY <3>1, <3>2, LandedType
      <3>4. TypeOK'
        BY <1>13, <2>2, <3>1, <3>3 DEF Delete, Wrote, TypeOK
      <3>5. HandlerShape'
        BY <1>13, <3>1, <3>3 DEF Delete, HandlerShape, TypeOK
      <3> QED
        BY <3>4, <3>5 DEF TypeInv
    <2> QED
      BY <2>1, <2>2
  <1>14. ASSUME NEW r \in Requests, UpdateInPlace(r) PROVE TypeInv'
    <2>1. PICK o \in Ops \cap {"confirm", "noShow", "notes"}, a \in KnownIds :
            UpdateInPlace(r)!2!(o, a)
      BY <1>14 DEF UpdateInPlace
    <2>2. a \in Requests /\ o \in AllOps
      BY OpsAssumption DEF KnownIds
    <2>3. CASE Exists(a)
      <3>1. NewStatus(o, appts[a].status) \in Status
        BY <2>2, <2>3 DEF NewStatus, Status, Exists, Doc
      <3>2. SetStatus(a, NewStatus(o, appts[a].status))
              \in [Requests -> Doc \cup {NoDoc}]
        BY <2>2, <2>3, <3>1, SetStatusType
      <3> DEFINE step == IF o = "notes" THEN "answer" ELSE "audit"
      <3>3. Landed(r, step) /\ step \in PC /\ step \in {"answer", "audit"}
        BY <2>1, <2>3 DEF PC
      <3> HIDE DEF TypeInv, TypeOK, HandlerShape, step
      <3>4. TypeOK /\ HandlerShape
        BY DEF TypeInv
      <3>5. /\ \E next \in {step, "done"} : pc' = [pc EXCEPT ![r] = next]
            /\ pc' \in [Requests -> PC]
            /\ resp' \in [Requests -> Answers]
            /\ sessions' \subseteq sessions
            /\ doubt' \subseteq Requests
            /\ unlogged' \subseteq Requests
            /\ faults' \in 0..MaxFaults
        BY <3>3, <3>4, LandedType
      <3>6. TypeOK'
        BY <1>14, <2>1, <2>2, <2>3, <3>2, <3>4, <3>5
           DEF UpdateInPlace, Wrote, TypeOK
      <3>7. HandlerShape'
        BY <1>14, <2>1, <2>2, <3>3, <3>4, <3>5
           DEF UpdateInPlace, HandlerShape, TypeOK
      <3> QED
        BY <3>6, <3>7 DEF TypeInv
    <2>4. CASE ~Exists(a)
      BY <1>14, <2>1, <2>2, <2>4
         DEF UpdateInPlace, Reply, Goto, PC, Answers
    <2> QED
      BY <2>3, <2>4
  <1>15. ASSUME NEW r \in Requests, Audit(r) PROVE TypeInv'
    BY <1>15, CatalogueAssumption DEF Audit, Fault, AfterAudit, Goto, PC
  <1>16. ASSUME NEW r \in Requests, Answer(r) PROVE TypeInv'
    BY <1>16 DEF Answer, Finish, Reply, Goto, PC, Answers
  <1>17. CASE Crash
    BY <1>17 DEF Crash, PC, Answers
  <1>18. CASE Tick
    BY <1>18, CatalogueAssumption DEF Tick
  <1>19. CASE UNCHANGED vars
    BY <1>19 DEF vars
  <1>20. ASSUME NEW r \in Requests, TxnWrite(r) PROVE TypeInv'
    BY <1>20 DEF TxnWrite, Goto, PC
  <1>21. ASSUME NEW r \in Requests, TxnTransient(r) PROVE TypeInv'
    BY <1>21, CatalogueAssumption DEF TxnTransient, Fault, Goto, PC
  <1> QED
    BY <1>1, <1>2, <1>3, <1>4, <1>5, <1>6, <1>7, <1>8, <1>9, <1>10, <1>11,
       <1>12, <1>13, <1>14, <1>15, <1>16, <1>17, <1>18, <1>19, <1>20, <1>21
       DEF Next, Arrive, Step

\* Every variable keeps its type, for every catalogue and set of requests.
THEOREM TypeCorrect == Spec => []TypeOK
  <1>1. Spec => []TypeInv
    BY TypeInit, TypeNext, PTL DEF Spec
  <1> QED
    BY <1>1, PTL DEF TypeInv

----------------------------------------------------------------------------
(***************************************************************************)
(* Double booking.  The overlap check of a transaction speaks of the       *)
(* moment of its snapshot.  What carries it to the moment of the write is  *)
(* WriterChecked: between the two, the solid appointments committed by the *)
(* time of the snapshot can only leave the set, never move.                *)
(***************************************************************************)

OptimesBounded ==
  \A r \in Requests :
    snap[r] <= commits /\ slotAt[r] <= commits /\ slotSnap[r] <= commits

SolidBlocks ==
  \A a \in solid : Exists(a) /\ appts[a].status \in Blocking

\* Between its overlap check and its commit a transaction is at one of these.
InTxn == {"write", "commit"}

WriterChecked ==
  \A r \in Requests : pc[r] \in InTxn =>
    \A a \in solid \ Own(r) :
      slotAt[a] <= snap[r] => ~Overlap(appts[a], want[r])

OverlapInv ==
  /\ TypeInv
  /\ OptimesBounded
  /\ SolidBlocks
  /\ WriterChecked
  /\ SlotDoubledOnlyUnseen

SameSlot(x, y) ==
  x.prof = y.prof /\ x.startAt = y.startAt /\ x.endAt = y.endAt

\* What every step other than the three of the transactions does: slots stay,
\* solid appointments can only be lost, and no handler enters its write.
Harmless ==
  /\ commits' \in Nat /\ commits <= commits'
  /\ snap' = snap /\ slotAt' = slotAt /\ slotSnap' = slotSnap
  /\ solid' \subseteq solid
  /\ \A a \in Requests :
       Exists(a)' => Exists(a) /\ SameSlot(appts[a], appts'[a])
  /\ \A a \in solid' : Exists(a)' /\ appts'[a].status \in Blocking
  /\ \A r \in Requests : pc'[r] \in InTxn =>
       /\ pc[r] \in InTxn
       /\ op'[r] = op[r] /\ target'[r] = target[r] /\ want'[r] = want[r]

LEMMA HarmlessKeeps ==
  ASSUME OverlapInv, TypeInv', Harmless
  PROVE  OverlapInv'
  <1> USE DEF OverlapInv, Harmless
  <1>1. OptimesBounded'
    BY DEF OptimesBounded, TypeInv, TypeOK
  <1>2. SolidBlocks'
    BY DEF SolidBlocks
  <1>3. WriterChecked'
    <2> SUFFICES ASSUME NEW r \in Requests, pc'[r] \in InTxn,
                        NEW a \in solid' \ Own(r)', slotAt'[a] <= snap'[r]
                 PROVE  ~Overlap(appts'[a], want'[r])
      BY DEF WriterChecked
    <2>1. a \in solid \ Own(r)
      BY DEF Own
    <2>2. ~Overlap(appts[a], want[r])
      BY <2>1 DEF WriterChecked
    <2>3. a \in Requests
      BY <2>1 DEF TypeInv, TypeOK
    <2> QED
      BY <2>2, <2>3 DEF Overlap, SameSlot
  <1>4. SlotDoubledOnlyUnseen'
    <2> SUFFICES ASSUME NEW a \in solid', NEW b \in Requests, a # b,
                        Exists(b)', Overlap(appts'[a], appts'[b])
                 PROVE  slotSnap'[b] < slotAt'[a]
      BY DEF SlotDoubledOnlyUnseen
    <2>1. a \in solid /\ a \in Requests
      BY DEF TypeInv, TypeOK
    <2>2. Overlap(appts[a], appts[b]) /\ Exists(b)
      BY <2>1 DEF Overlap, SameSlot
    <2> QED
      BY <2>1, <2>2 DEF SlotDoubledOnlyUnseen
  <1> QED
    BY <1>1, <1>2, <1>3, <1>4

\* The two writing steps of the transactions put document d into the slot
\* that request r checked.
LEMMA SlotTaken ==
  ASSUME OverlapInv, TypeInv',
         NEW r \in Requests, NEW d \in Requests, NEW st \in Status,
         pc[r] \in InTxn, pc'[r] \notin InTxn, want[r] \in Slot,
         Own(r) \subseteq {d},
         appts' = [appts EXCEPT ![d] = Appointment(want[r], st)],
         commits' = commits + 1,
         snap' = snap, op' = op, target' = target, want' = want,
         \A q \in Requests : q # r => pc'[q] = pc[q],
         slotAt' = [slotAt EXCEPT ![d] = commits + 1],
         slotSnap' = [slotSnap EXCEPT ![d] = snap[r]],
         \/ solid' = solid \ {d}
         \/ solid' = solid \cup {d} /\ st \in Blocking /\ Own(r) = {}
  PROVE  OverlapInv'
  <1> USE DEF OverlapInv
  <1> DEFINE new == Appointment(want[r], st)
  <1>1. /\ appts'[d] = new
        /\ \A a \in Requests \ {d} : appts'[a] = appts[a]
        /\ slotAt'[d] = commits + 1 /\ slotSnap'[d] = snap[r]
        /\ \A a \in Requests \ {d} : slotAt'[a] = slotAt[a]
                                     /\ slotSnap'[a] = slotSnap[a]
    BY DEF TypeInv, TypeOK
  <1>2. commits \in Nat /\ \A a \in Requests :
          /\ snap[a] \in Nat /\ slotAt[a] \in Nat /\ slotSnap[a] \in Nat
          /\ snap[a] <= commits /\ slotAt[a] <= commits
          /\ slotSnap[a] <= commits
    BY DEF TypeInv, TypeOK, OptimesBounded
  <1>3. solid \subseteq Requests /\ solid' \subseteq Requests
    BY DEF TypeInv, TypeOK
  <1>4. new # NoDoc /\ new.status = st
    BY AppointmentType DEF Appointment
  <1>5. \A x : /\ Overlap(x, new) <=> Overlap(x, want[r])
    BY DEF Overlap, Appointment
  <1>6. OptimesBounded'
    BY <1>1, <1>2 DEF OptimesBounded
  <1>7. SolidBlocks'
    BY <1>1, <1>3, <1>4 DEF SolidBlocks, Exists
  <1>8. WriterChecked'
    <2> SUFFICES ASSUME NEW q \in Requests, pc'[q] \in InTxn,
                        NEW a \in solid' \ Own(q)', slotAt'[a] <= snap'[q]
                 PROVE  ~Overlap(appts'[a], want'[q])
      BY DEF WriterChecked
    <2>1. q # r /\ pc[q] \in InTxn /\ Own(q)' = Own(q)
      BY DEF Own
    <2>2. a # d
      BY <1>1, <1>2
    <2>3. a \in solid \ Own(q) /\ slotAt[a] <= snap[q]
      BY <1>1, <1>3, <2>1, <2>2
    <2>4. ~Overlap(appts[a], want[q])
      BY <2>1, <2>3 DEF WriterChecked
    <2> QED
      BY <1>1, <1>3, <2>2, <2>3, <2>4
  <1>9. SlotDoubledOnlyUnseen'
    <2> SUFFICES ASSUME NEW a \in solid', NEW b \in Requests, a # b,
                        Exists(b)', Overlap(appts'[a], appts'[b])
                 PROVE  slotSnap'[b] < slotAt'[a]
      BY DEF SlotDoubledOnlyUnseen
    <2>1. CASE a = d
      BY <1>1, <1>2, <2>1
    <2>2. CASE a # d /\ b = d
      <3>1. a \in solid \ Own(r)
        BY <2>2
      <3>2. Overlap(appts[a], want[r])
        BY <1>1, <1>3, <1>5, <2>2
      <3>3. ~(slotAt[a] <= snap[r])
        BY <3>1, <3>2 DEF WriterChecked
      <3> QED
        BY <1>1, <1>2, <1>3, <2>2, <3>1, <3>3
    <2>3. CASE a # d /\ b # d
      <3>1. a \in solid /\ Exists(b) /\ Overlap(appts[a], appts[b])
        BY <1>1, <1>3, <2>3 DEF Exists
      <3> QED
        BY <1>1, <1>3, <2>3, <3>1 DEF SlotDoubledOnlyUnseen
    <2> QED
      BY <2>1, <2>2, <2>3
  <1> QED
    BY <1>6, <1>7, <1>8, <1>9

LEMMA OverlapInit == Init => OverlapInv
  <1> SUFFICES ASSUME Init PROVE OverlapInv
    OBVIOUS
  <1>1. TypeInv
    BY TypeInit
  <1>2. OptimesBounded /\ SolidBlocks /\ SlotDoubledOnlyUnseen
    BY DEF Init, OptimesBounded, SolidBlocks, SlotDoubledOnlyUnseen
  <1>3. WriterChecked
    BY DEF Init, WriterChecked, InTxn
  <1> QED
    BY <1>1, <1>2, <1>3 DEF OverlapInv

\* In the next state of a step that sets the status of a, a is still there, in
\* the same slot, and nothing else changed.
LEMMA SetStatusStep ==
  ASSUME NEW a \in Requests, NEW st \in Status, TypeOK, Exists(a),
         appts' = SetStatus(a, st)
  PROVE  /\ Exists(a)' /\ SameSlot(appts[a], appts'[a])
         /\ appts'[a].status = st
         /\ \A b \in Requests \ {a} : appts'[b] = appts[b]
  <1>1. /\ appts'[a] # NoDoc
        /\ \A b \in Requests : b # a => appts'[b] = appts[b]
        /\ appts'[a] = [prof |-> appts[a].prof, serv |-> appts[a].serv,
                        startAt |-> appts[a].startAt, endAt |-> appts[a].endAt,
                        status |-> st]
    BY SetStatusType
  <1>2. SameSlot(appts[a], appts'[a]) /\ appts'[a].status = st
    BY <1>1 DEF SameSlot
  <1> QED
    BY <1>1, <1>2 DEF Exists

LEMMA OverlapNext == OverlapInv /\ [Next]_vars => OverlapInv'
  <1> SUFFICES ASSUME OverlapInv, [Next]_vars PROVE OverlapInv'
    OBVIOUS
  <1> USE DEF mongo, history, mishaps, InTxn
  <1>1. TypeInv /\ TypeInv'
    BY TypeNext DEF OverlapInv
  <1>2. /\ solid \subseteq Requests /\ commits \in Nat
        /\ \A a \in solid : Exists(a) /\ appts[a].status \in Blocking
        /\ \A r \in Requests : target[r] \in Requests
        /\ appts \in [Requests -> Doc \cup {NoDoc}]
        /\ pc \in [Requests -> PC]
    BY DEF OverlapInv, TypeInv, TypeOK, SolidBlocks
  <1> DEFINE Untouched ==
        /\ UNCHANGED <<appts, commits, snap, slotAt, slotSnap, solid>>
        /\ \A q \in Requests : pc'[q] \in InTxn =>
             /\ pc[q] \in InTxn /\ op'[q] = op[q]
             /\ target'[q] = target[q] /\ want'[q] = want[q]
  <1>3. Untouched => OverlapInv'
    <2> HAVE Untouched
    <2>1. Harmless
      BY <1>2 DEF Harmless, SameSlot, Exists
    <2> QED
      BY <1>1, <2>1, HarmlessKeeps
  <1>4. ASSUME NEW r \in Requests, CreateValidate(r) PROVE OverlapInv'
    <2>1. Untouched
      BY <1>1, <1>4 DEF CreateValidate, Reply, Goto, TypeInv, TypeOK
    <2> QED
      BY <1>3, <2>1
  <1>5. ASSUME NEW r \in Requests, TxnFind(r) PROVE OverlapInv'
    <2>1. /\ \A q \in Requests \ {r} : snap'[q] = snap[q] /\ pc'[q] = pc[q]
          /\ snap'[r] = commits
          /\ UNCHANGED <<appts, commits, slotAt, slotSnap, solid, op, target,
                         want>>
          /\ pc'[r] \in InTxn => Conflicting(r) = {}
      BY <1>1, <1>5
         DEF TxnFind, SnapshotTime, Finish, Reply, Goto, TypeInv, TypeOK
    <2>2. OptimesBounded'
      BY <1>2, <2>1 DEF OverlapInv, OptimesBounded
    <2>3. SolidBlocks' /\ SlotDoubledOnlyUnseen'
      BY <2>1 DEF OverlapInv, SolidBlocks, SlotDoubledOnlyUnseen, Exists
    <2>4. WriterChecked'
      <3> SUFFICES ASSUME NEW q \in Requests, pc'[q] \in InTxn,
                          NEW a \in solid \ Own(q), slotAt[a] <= snap'[q]
                   PROVE  ~Overlap(appts[a], want[q])
        BY <2>1 DEF WriterChecked, Own
      <3>1. CASE q = r
        BY <1>2, <2>1, <3>1 DEF Conflicting
      <3>2. CASE q # r
        BY <2>1, <3>2 DEF OverlapInv, WriterChecked
      <3> QED
        BY <3>1, <3>2
    <2> QED
      BY <1>1, <2>2, <2>3, <2>4 DEF OverlapInv
  <1>6. ASSUME NEW r \in Requests, TxnInsert(r) PROVE OverlapInv'
    <2>1. want[r] \in Slot /\ Own(r) = {}
      BY <1>1, <1>6 DEF TxnInsert, TypeInv, TypeOK, HandlerShape, Own
    <2>2. pc'[r] \notin InTxn /\ \A q \in Requests : q # r => pc'[q] = pc[q]
      <3>1. AfterWrite(op[r]) \in PC \ InTxn /\ Landed(r, AfterWrite(op[r]))
        BY <1>6 DEF TxnInsert, AfterWrite, PC
      <3> QED
        BY <1>1, <1>2, <3>1, LandedType DEF TypeInv
    <2>3. "PENDING" \in Status /\ "PENDING" \in Blocking
      BY DEF Status, Blocking
    <2> QED
      BY <1>1, <1>6, <2>1, <2>2, <2>3, SlotTaken DEF TxnInsert, Wrote
  <1>7. ASSUME NEW r \in Requests, Fail(r) PROVE OverlapInv'
    <2>1. Untouched
      BY <1>1, <1>7 DEF Fail, Finish, Reply, Goto, TypeInv, TypeOK
    <2> QED
      BY <1>3, <2>1
  <1>8. ASSUME NEW r \in Requests, ScheduleReminders(r) PROVE OverlapInv'
    <2>1. Untouched
      BY <1>1, <1>8
         DEF ScheduleReminders, AfterRemind, Finish, Reply, Goto, TypeInv, TypeOK
    <2> QED
      BY <1>3, <2>1
  <1>9. ASSUME NEW r \in Requests, ReadTarget(r) PROVE OverlapInv'
    <2>1. Untouched
      BY <1>1, <1>9 DEF ReadTarget, Reply, Goto, TypeInv, TypeOK
    <2> QED
      BY <1>3, <2>1
  <1>10. ASSUME NEW r \in Requests, RescheduleCheck(r) PROVE OverlapInv'
    <2>1. Untouched
      BY <1>1, <1>10 DEF RescheduleCheck, Reply, Goto, TypeInv, TypeOK
    <2> QED
      BY <1>3, <2>1
  <1>11. ASSUME NEW r \in Requests, TxnMove(r) PROVE OverlapInv'
    <2>1. want[r] \in Slot /\ Own(r) = {target[r]} /\ target[r] \in Requests
      BY <1>1, <1>11 DEF TxnMove, TypeInv, TypeOK, HandlerShape, Own
    <2>2. pc'[r] \notin InTxn /\ \A q \in Requests : q # r => pc'[q] = pc[q]
      <3>1. AfterWrite(op[r]) \in PC \ InTxn
        BY DEF AfterWrite, PC
      <3>2. Goto(r, AfterWrite(op[r])) \/ ReplyLost(r)
        BY <1>11 DEF TxnMove
      <3> QED
        BY <1>1, <1>2, <3>1, <3>2 DEF Goto, ReplyLost, Finish, Reply
    <2>3. CASE Exists(target[r])
      <3>1. "RESCHEDULED" \in Status
        BY DEF Status
      <3> QED
        BY <1>1, <1>11, <2>1, <2>2, <2>3, <3>1, SlotTaken DEF TxnMove, Wrote
    <2>4. CASE ~Exists(target[r])
      <3>1. Untouched
        BY <1>11, <2>2, <2>4 DEF TxnMove
      <3> QED
        BY <1>3, <3>1
    <2> QED
      BY <2>3, <2>4
  <1>12. ASSUME NEW r \in Requests, TxnRetry(r) PROVE OverlapInv'
    <2>1. Untouched
      BY <1>1, <1>12 DEF TxnRetry, Goto, TypeInv, TypeOK
    <2> QED
      BY <1>3, <2>1
  <1>13. ASSUME NEW r \in Requests, CancelCheck(r) PROVE OverlapInv'
    <2>1. Untouched
      BY <1>1, <1>13 DEF CancelCheck, Reply, Goto, TypeInv, TypeOK
    <2> QED
      BY <1>3, <2>1
  <1>14. ASSUME NEW r \in Requests, CancelSave(r) PROVE OverlapInv'
    <2>1. \A q \in Requests : pc'[q] \in InTxn => pc[q] \in InTxn
      <3>1. Reply(r, "error") \/ Goto(r, "clear") \/ Landed(r, "clear")
        BY <1>14 DEF CancelSave
      <3> QED
        BY <1>2, <3>1 DEF Landed, ReplyLost, Finish, Reply, Goto
    <2>2. CASE UNCHANGED <<appts, commits, stamp, history>>
      BY <1>3, <1>14, <2>1, <2>2 DEF CancelSave
    <2>3. CASE /\ Exists(target[r]) /\ appts' = SetStatus(target[r], "CANCELLED")
               /\ Wrote(r, target[r]) /\ solid' = solid \ {target[r]}
               /\ UNCHANGED <<slotAt, slotSnap>>
      <3>1. "CANCELLED" \in Status
        BY DEF Status
      <3>2. PICK d \in Requests : d = target[r]
        BY <1>2
      <3>3. Exists(d) /\ appts' = SetStatus(d, "CANCELLED")
        BY <2>3, <3>2
      <3>4. /\ Exists(d)' /\ SameSlot(appts[d], appts'[d])
            /\ \A b \in Requests \ {d} : appts'[b] = appts[b]
        BY <1>1, <3>1, <3>3, SetStatusStep DEF TypeInv
      <3>5. \A a \in solid' : Exists(a)' /\ appts'[a].status \in Blocking
        BY <1>2, <2>3, <3>2, <3>4 DEF Exists
      <3>6. UNCHANGED <<op, target, want, snap>>
        BY <1>14 DEF CancelSave
      <3>7. Harmless
        BY <1>2, <2>1, <2>3, <3>2, <3>3, <3>4, <3>5, <3>6
           DEF Harmless, SameSlot, Wrote, Exists
      <3> QED
        BY <1>1, <3>7, HarmlessKeeps
    <2> QED
      BY <1>14, <2>2, <2>3 DEF CancelSave
  <1>15. ASSUME NEW r \in Requests, ClearReminders(r) PROVE OverlapInv'
    <2>1. Untouched
      BY <1>1, <1>15
         DEF ClearReminders, AfterClear, Finish, Reply, Goto, TypeInv, TypeOK
    <2> QED
      BY <1>3, <2>1
  <1>16. ASSUME NEW r \in Requests, Delete(r) PROVE OverlapInv'
    <2>1. \A q \in Requests : pc'[q] \in InTxn => pc[q] \in InTxn
      <3>1. Goto(r, "audit") \/ Landed(r, "audit")
        BY <1>16 DEF Delete
      <3> QED
        BY <1>2, <3>1 DEF Landed, ReplyLost, Finish, Reply, Goto
    <2>2. Harmless
      BY <1>1, <1>2, <1>16, <2>1 DEF Delete, Harmless, SameSlot, Wrote, Exists
    <2> QED
      BY <1>1, <2>2, HarmlessKeeps
  <1>17. ASSUME NEW r \in Requests, UpdateInPlace(r) PROVE OverlapInv'
    <2>1. PICK o \in Ops \cap {"confirm", "noShow", "notes"}, a \in KnownIds :
            UpdateInPlace(r)!2!(o, a)
      BY <1>17 DEF UpdateInPlace
    <2>2. a \in Requests
      BY DEF KnownIds
    <2>3. /\ \A q \in Requests : pc'[q] \in InTxn =>
               /\ pc[q] \in InTxn /\ op'[q] = op[q]
               /\ target'[q] = target[q] /\ want'[q] = want[q]
          /\ UNCHANGED <<snap, slotAt, slotSnap>>
      <3>1. \/ Landed(r, IF o = "notes" THEN "answer" ELSE "audit")
            \/ Reply(r, "notFound")
        BY <2>1
      <3>2. \A q \in Requests : pc'[q] \in InTxn => q # r /\ pc[q] \in InTxn
        BY <1>2, <3>1 DEF Landed, ReplyLost, Finish, Reply, Goto
      <3> QED
        BY <1>1, <1>17, <2>1, <3>2 DEF UpdateInPlace, TypeInv, TypeOK
    <2>4. CASE Exists(a)
      <3> DEFINE new == NewStatus(o, appts[a].status)
      <3>1. appts[a] \in Doc
        BY <1>2, <2>2, <2>4 DEF Exists
      <3>2. new \in Status /\ (o # "noShow" /\ appts[a].status \in Blocking
                                 => new \in Blocking)
        BY <3>1 DEF NewStatus, Status, Blocking, Doc
      <3>3. /\ appts' = SetStatus(a, new) /\ commits' = commits + 1
            /\ solid' = IF o = "noShow" THEN solid \ {a} ELSE solid
        BY <2>1, <2>4 DEF Wrote
      <3> HIDE DEF new
      <3>4. /\ Exists(a)' /\ SameSlot(appts[a], appts'[a])
            /\ appts'[a].status = new
            /\ \A b \in Requests \ {a} : appts'[b] = appts[b]
        BY <1>1, <2>2, <2>4, <3>2, <3>3, SetStatusStep DEF TypeInv
      <3>5. \A b \in solid' : Exists(b)' /\ appts'[b].status \in Blocking
        BY <1>2, <3>2, <3>3, <3>4 DEF Exists
      <3>6. Harmless
        BY <1>2, <2>3, <2>4, <3>3, <3>4, <3>5 DEF Harmless, SameSlot, Exists
      <3> QED
        BY <1>1, <3>6, HarmlessKeeps
    <2>5. CASE ~Exists(a)
      BY <1>3, <2>1, <2>3, <2>5
    <2> QED
      BY <2>4, <2>5
  <1>18. ASSUME NEW r \in Requests, Audit(r) PROVE OverlapInv'
    <2>1. Untouched
      BY <1>1, <1>18 DEF Audit, AfterAudit, Goto, TypeInv, TypeOK
    <2> QED
      BY <1>3, <2>1
  <1>19. ASSUME NEW r \in Requests, Answer(r) PROVE OverlapInv'
    <2>1. Untouched
      BY <1>1, <1>19 DEF Answer, Finish, Reply, Goto, TypeInv, TypeOK
    <2> QED
      BY <1>3, <2>1
  <1>20. CASE Crash
    <2>1. Untouched
      BY <1>20 DEF Crash
    <2> QED
      BY <1>3, <2>1
  <1>21. CASE Tick
    BY <1>3, <1>21 DEF Tick
  <1>22. CASE UNCHANGED vars
    BY <1>3, <1>22 DEF vars
  <1>23. ASSUME NEW r \in Requests, TxnWrite(r) \/ TxnTransient(r)
         PROVE  OverlapInv'
    <2>1. Untouched
      BY <1>1, <1>23 DEF TxnWrite, TxnTransient, Goto, TypeInv, TypeOK
    <2> QED
      BY <1>3, <2>1
  <1> QED
    BY <1>4, <1>5, <1>6, <1>7, <1>8, <1>9, <1>10, <1>11, <1>12, <1>13, <1>14,
       <1>15, <1>16, <1>17, <1>18, <1>19, <1>20, <1>21, <1>22, <1>23
       DEF Next, Arrive, Step

\* A solid appointment is doubled only by a request whose overlap check did
\* not see it, whatever the requests, the catalogue and the interleaving.
THEOREM NoUnseenDoubling == Spec => []SlotDoubledOnlyUnseen
  <1>1. Spec => []OverlapInv
    BY OverlapInit, OverlapNext, PTL DEF Spec
  <1> QED
    BY <1>1, PTL DEF OverlapInv

----------------------------------------------------------------------------
(***************************************************************************)
(* What the handlers answer, audit and hold on to.                         *)
(***************************************************************************)

Handler(r) == Arrive(r) \/ Step(r) \/ TxnTransient(r) \/ Fail(r)

----------------------------------------------------------------------------
(* What a step of request r leaves alone.                                    *)

LEMMA OthersStay ==
  ASSUME TypeInv, NEW r \in Requests, Handler(r), NEW x \in Requests, x # r
  PROVE  /\ pc'[x] = pc[x] /\ op'[x] = op[x] /\ target'[x] = target[x]
         /\ loc'[x] = loc[x] /\ resp'[x] = resp[x]
         /\ x \in wrote' <=> x \in wrote
         /\ x \in audited' <=> x \in audited
         /\ x \in sessions' <=> x \in sessions
         /\ x \in doubt' <=> x \in doubt
         /\ x \in unlogged' <=> x \in unlogged
<1> USE DEF TypeInv, TypeOK, Goto, Reply, Finish, Landed, ReplyLost,
           Wrote, mongo, history, mishaps
<1>1. CASE CreateValidate(r)
  BY <1>1 DEF CreateValidate
<1>2. CASE ReadTarget(r)
  BY <1>2 DEF ReadTarget
<1>3. CASE UpdateInPlace(r)
  BY <1>3 DEF UpdateInPlace
<1>4. CASE TxnFind(r)
  BY <1>4 DEF TxnFind
<1>5. CASE TxnInsert(r)
  BY <1>5 DEF TxnInsert
<1>6. CASE TxnMove(r)
  BY <1>6 DEF TxnMove
<1>7. CASE TxnRetry(r) \/ TxnWrite(r) \/ TxnTransient(r)
  BY <1>7 DEF TxnRetry, TxnWrite, TxnTransient, Fault
<1>8. CASE ScheduleReminders(r)
  BY <1>8 DEF ScheduleReminders
<1>9. CASE RescheduleCheck(r)
  BY <1>9 DEF RescheduleCheck
<1>10. CASE CancelCheck(r)
  BY <1>10 DEF CancelCheck
<1>11. CASE CancelSave(r)
  BY <1>11 DEF CancelSave
<1>12. CASE ClearReminders(r)
  BY <1>12 DEF ClearReminders
<1>13. CASE Delete(r)
  BY <1>13 DEF Delete
<1>14. CASE Audit(r)
  BY <1>14 DEF Audit
<1>15. CASE Answer(r)
  BY <1>15 DEF Answer
<1>16. CASE Fail(r)
  BY <1>16 DEF Fail
<1> QED
  BY <1>1, <1>2, <1>3, <1>4, <1>5, <1>6, <1>7, <1>8, <1>9, <1>10, <1>11, <1>12,
     <1>13, <1>14, <1>15, <1>16 DEF Handler, Arrive, Step

\* An appointment that was never booked.
Unborn(a) == ~Exists(a) /\ slotAt[a] = 0

\* A request that has not inserted yet has no appointment of its name.
Unbooked ==
  \A r \in Requests :
    \/ pc[r] = "idle"
    \/ pc[r] \in {"find", "write", "commit"} /\ op[r] \in {"create", "public"}
    => Unborn(r)

LEMMA StatusKeepsDocuments ==
  ASSUME TypeOK, NEW b \in Requests, NEW st \in Status, Exists(b),
         appts' = SetStatus(b, st)
  PROVE  \A x \in Requests : Exists(x)' <=> Exists(x)
<1>1. /\ SetStatus(b, st)[b] # NoDoc
      /\ \A x \in Requests : x # b => SetStatus(b, st)[x] = appts[x]
  BY SetStatusType
<1>2. appts'[b] # NoDoc /\ \A x \in Requests : x # b => appts'[x] = appts[x]
  BY <1>1
<1> QED BY <1>2 DEF Exists

\* Documents are born by their own request, and never again.
LEMMA DocumentsStay ==
  ASSUME TypeInv, Unbooked, NEW r \in Requests, Handler(r), NEW a \in Requests
  PROVE  /\ slotAt[a] # 0 => slotAt'[a] # 0
         /\ slotAt[a] # 0 /\ ~Exists(a) => ~Exists(a)'
         /\ Exists(a) /\ slotAt'[a] # slotAt[a] =>
              TxnMove(r) /\ a = target[r] /\ slotSnap'[a] = snap[r]
         /\ Unborn(a) /\ ~(a = r /\ TxnInsert(r)) => Unborn(a)'
<1> USE DEF TypeInv, TypeOK, Unborn, Exists, Wrote, mongo, history, mishaps
<1>1. CASE CreateValidate(r)
  BY <1>1 DEF CreateValidate
<1>2. CASE ReadTarget(r)
  BY <1>2 DEF ReadTarget
<1>3. CASE UpdateInPlace(r)
  <2>1. UNCHANGED <<slotAt, slotSnap>>
    BY <1>3 DEF UpdateInPlace
  <2>2. CASE UNCHANGED appts
    BY <2>1, <2>2
  <2>3. ASSUME NEW o \in {"confirm", "noShow", "notes"}, NEW b \in Requests,
               appts[b] # NoDoc,
               appts' = SetStatus(b, NewStatus(o, appts[b].status))
        PROVE  \A x \in Requests : appts'[x] = NoDoc <=> appts[x] = NoDoc
    <3>1. NewStatus(o, appts[b].status) \in Status
      BY <2>3 DEF NewStatus, Status, Doc
    <3> QED BY <2>3, <3>1, StatusKeepsDocuments
  <2> QED BY <1>3, <2>1, <2>2, <2>3 DEF UpdateInPlace, KnownIds
<1>4. CASE TxnFind(r)
  BY <1>4 DEF TxnFind
<1>5. CASE TxnInsert(r)
  BY <1>5 DEF TxnInsert, Unbooked
<1>6. CASE TxnMove(r)
  <2>2. Appointment(want[r], "RESCHEDULED") # NoDoc
    BY <1>6, AppointmentType DEF TxnMove, HandlerShape, Status
  <2> QED BY <1>6, <2>2 DEF TxnMove
<1>7. CASE TxnRetry(r) \/ TxnWrite(r) \/ TxnTransient(r)
  BY <1>7 DEF TxnRetry, TxnWrite, TxnTransient, Fault
<1>8. CASE ScheduleReminders(r)
  BY <1>8 DEF ScheduleReminders
<1>9. CASE RescheduleCheck(r)
  BY <1>9 DEF RescheduleCheck
<1>10. CASE CancelCheck(r)
  BY <1>10 DEF CancelCheck
<1>11. CASE CancelSave(r)
  <2>1. UNCHANGED <<slotAt, slotSnap>>
    BY <1>11 DEF CancelSave
  <2>2. CASE UNCHANGED appts
    BY <2>1, <2>2
  <2>3. CASE /\ appts[target[r]] # NoDoc
             /\ appts' = SetStatus(target[r], "CANCELLED")
    <3>1. \A x \in Requests : appts'[x] = NoDoc <=> appts[x] = NoDoc
      BY <2>3, StatusKeepsDocuments DEF Status
    <3> QED BY <2>1, <3>1
  <2> QED BY <1>11, <2>2, <2>3 DEF CancelSave
<1>12. CASE ClearReminders(r)
  BY <1>12 DEF ClearReminders
<1>13. CASE Delete(r)
  BY <1>13 DEF Delete
<1>14. CASE Audit(r)
  BY <1>14 DEF Audit
<1>15. CASE Answer(r)
  BY <1>15 DEF Answer
<1>16. CASE Fail(r)
  BY <1>16 DEF Fail
<1> QED
  BY <1>1, <1>2, <1>3, <1>4, <1>5, <1>6, <1>7, <1>8, <1>9, <1>10, <1>11, <1>12,
     <1>13, <1>14, <1>15, <1>16 DEF Handler, Arrive, Step

LEMMA InitUnbooked == Init => Unbooked
  BY DEF Init, Unbooked, Unborn, Exists

LEMMA StepUnbooked == TypeInv /\ Unbooked /\ [Next]_vars => Unbooked'
<1> SUFFICES ASSUME TypeInv, Unbooked, [Next]_vars PROVE Unbooked'
  OBVIOUS
<1>1. ASSUME NEW r \in Requests, Handler(r) PROVE Unbooked'
  <2>1. ASSUME NEW x \in Requests, x # r PROVE Unborn(x) => Unborn(x)'
    BY <1>1, <2>1, DocumentsStay
  <2>2. ASSUME \/ pc'[r] = "idle"
               \/ pc'[r] \in {"find", "write", "commit"} /\ op'[r] \in {"create", "public"}
        PROVE  /\ ~TxnInsert(r)
               /\ \/ pc[r] = "idle"
                  \/ /\ pc[r] \in {"find", "write", "commit"}
                     /\ op[r] \in {"create", "public"}
    <3> USE <2>2 DEF TypeInv, TypeOK, Goto, Reply, Finish, Landed, ReplyLost
    <3>1. CASE Arrive(r)
      BY <3>1 DEF Arrive, CreateValidate, ReadTarget, UpdateInPlace, TxnInsert
    <3>2. CASE \/ TxnFind(r) \/ TxnInsert(r) \/ TxnWrite(r) \/ TxnMove(r)
               \/ TxnRetry(r) \/ TxnTransient(r)
      BY <3>2 DEF TxnFind, TxnInsert, TxnWrite, TxnMove, TxnRetry, TxnTransient,
         AfterWrite
    <3>3. CASE \/ ScheduleReminders(r) \/ RescheduleCheck(r) \/ CancelCheck(r)
               \/ CancelSave(r) \/ ClearReminders(r) \/ Delete(r)
               \/ Audit(r) \/ Answer(r) \/ Fail(r)
      BY <3>3 DEF ScheduleReminders, RescheduleCheck, CancelCheck, CancelSave,
         ClearReminders, Delete, Audit, Answer, Fail, TxnInsert, AfterRemind,
         AfterClear, AfterAudit
    <3> QED BY <1>1, <3>1, <3>2, <3>3 DEF Handler, Step
  <2>3. ASSUME NEW x \in Requests, x # r
        PROVE  pc'[x] = pc[x] /\ op'[x] = op[x]
    BY <1>1, <2>3, OthersStay
  <2>4. ~TxnInsert(r) /\ Unborn(r) => Unborn(r)'
    BY <1>1, DocumentsStay
  <2> QED BY <2>1, <2>2, <2>3, <2>4 DEF Unbooked
<1>2. CASE Crash
  BY <1>2 DEF Crash, TypeInv, TypeOK, Unbooked, Unborn, Exists, history
<1>3. CASE Tick \/ UNCHANGED vars
  BY <1>3 DEF Tick, vars, Unbooked, Unborn, Exists, history
<1> QED BY <1>1, <1>2, <1>3 DEF Next, Handler

\* AppointmentsService.remove deletes for good: neither a cancel that read the
\* appointment before nor a reschedule under way brings it back.
THEOREM DeletedStaysDeletedHolds == Spec => DeletedStaysDeleted
<1> DEFINE Gone == \A a \in Requests :
             (slotAt[a] # 0 /\ ~Exists(a)) => ~Exists(a)'
<1>1. TypeInv /\ Unbooked /\ [Next]_vars => [Gone]_vars
  <2>1. ASSUME TypeInv, Unbooked, NEW r \in Requests, Handler(r) PROVE Gone
    BY <2>1, DocumentsStay
  <2>2. ASSUME Crash \/ Tick PROVE Gone
    BY <2>2 DEF Crash, Tick, Exists
  <2> QED BY <2>1, <2>2 DEF Next, Handler
<1> QED
  BY <1>1, TypeInit, TypeNext, InitUnbooked, StepUnbooked, PTL
     DEF Spec, DeletedStaysDeleted

----------------------------------------------------------------------------
(* Where a handler is, and what it has done by then.                         *)

\* Which operations pass which steps.
OnItsWay(r) ==
  /\ pc[r] # "idle" => op[r] \in AllOps
  /\ pc[r] = "idle" => resp[r] = "none"
  /\ resp[r] # "none" => pc[r] = "done"
  /\ pc[r] = "check" => op[r] \in {"reschedule", "cancel"}
  /\ pc[r] \in {"find", "write", "commit"} => op[r] \in {"create", "public", "reschedule"}
  /\ pc[r] = "save" => op[r] = "cancel"
  /\ pc[r] = "clear" => op[r] \in {"cancel", "remove"}
  /\ pc[r] = "delete" => op[r] = "remove"
  /\ pc[r] = "audit" => op[r] # "notes"
  /\ pc[r] # "idle" /\ op[r] \notin {"create", "public"} => slotAt[target[r]] # 0

\* The collection is written once, and late.
HasWritten(r) ==
  /\ pc[r] \in {"idle", "check", "find", "write", "commit", "save",
               "delete"} => r \notin wrote
  /\ pc[r] = "clear" /\ op[r] = "remove" => r \notin wrote
  /\ pc[r] = "remind" => r \in wrote
  /\ pc[r] \in {"clear", "audit", "answer"} /\ r \notin wrote =>
       \/ op[r] = "cancel" /\ loc[r].status = "CANCELLED"
       \/ pc[r] = "clear" /\ op[r] = "remove"
       \/ op[r] \in {"remove", "reschedule"} /\ ~Exists(target[r])

\* What AnswerMatchesEffect says of one request.
Effect(r) ==
  /\ resp[r] \in {"bad", "conflict"} => r \notin wrote
  /\ resp[r] = "notFound" /\ r \in wrote =>
       op[r] = "reschedule" /\ ~Exists(target[r])
  /\ resp[r] = "error" /\ r \in wrote \ doubt =>
       op[r] \in {"create", "public", "cancel", "reschedule"}
  /\ resp[r] = "ok" /\ r \notin wrote =>
       \/ op[r] = "cancel" /\ loc[r].status = "CANCELLED"
       \/ op[r] = "remove" /\ ~Exists(target[r])

\* The audit entry comes last, but for the reminders of create, and may fail.
HasAudited(r) ==
  /\ pc[r] = "answer" /\ op[r] # "notes" => r \in audited \cup unlogged
  /\ pc[r] = "remind" /\ op[r] = "create" => r \in audited \cup unlogged
  /\ r \in wrote /\ resp[r] \notin {"none", "lost"} /\ op[r] # "notes" =>
       \/ r \in audited \cup unlogged \cup doubt
       \/ op[r] \in {"public", "cancel"} /\ resp[r] = "error"
  /\ r \in audited \ wrote => pc[r] \in {"answer", "done"}
  /\ r \in audited \ wrote =>
       \/ op[r] = "cancel" /\ loc[r].status = "CANCELLED"
       \/ op[r] \in {"remove", "reschedule"} /\ ~Exists(target[r])

\* Only a handler in its transaction or after it holds a session.
HoldsSession(r) ==
  /\ pc[r] \in {"idle", "check", "save", "done"} => r \notin sessions
  /\ pc[r] \in {"find", "write", "commit"} => r \in sessions

Progress(r) == /\ OnItsWay(r) /\ HasWritten(r) /\ Effect(r)
               /\ HasAudited(r) /\ HoldsSession(r)

LEMMA OthersProgress ==
  ASSUME TypeInv, Unbooked, NEW r \in Requests, Handler(r),
         NEW x \in Requests, x # r, Progress(x)
  PROVE  Progress(x)'
<1>1. /\ pc'[x] = pc[x] /\ op'[x] = op[x] /\ target'[x] = target[x]
      /\ loc'[x] = loc[x] /\ resp'[x] = resp[x]
      /\ x \in wrote' <=> x \in wrote
      /\ x \in audited' <=> x \in audited
      /\ x \in sessions' <=> x \in sessions
      /\ x \in doubt' <=> x \in doubt
      /\ x \in unlogged' <=> x \in unlogged
  BY OthersStay
<1>2. /\ slotAt[target[x]] # 0 => slotAt'[target[x]] # 0
      /\ slotAt[target[x]] # 0 /\ ~Exists(target[x]) =>
           appts'[target[x]] = NoDoc
  <2>1. target[x] \in Requests
    BY DEF TypeInv, TypeOK
  <2> QED BY <2>1, DocumentsStay DEF Exists
<1>3. OnItsWay(x)' /\ HoldsSession(x)'
  BY <1>1, <1>2 DEF Progress, OnItsWay, HoldsSession
<1>4. ~Exists(target[x]) /\ op[x] \in {"remove", "reschedule"} /\ pc[x] # "idle"
        => ~Exists(target[x])'
  BY <1>1, <1>2 DEF Progress, OnItsWay, Exists
<1>5. HasWritten(x)' /\ Effect(x)'
  BY <1>1, <1>4 DEF Progress, OnItsWay, HasWritten, Effect, Exists
<1>6. HasAudited(x)'
  BY <1>1, <1>4 DEF Progress, OnItsWay, HasAudited, Exists
<1> QED BY <1>3, <1>5, <1>6 DEF Progress

LEMMA OwnWay ==
  ASSUME TypeInv, NEW r \in Requests, Handler(r), Progress(r)
  PROVE  OnItsWay(r)'
<1> USE OpsAssumption DEF TypeInv, TypeOK, HandlerShape, Progress, OnItsWay,
            HasWritten, Effect, HasAudited, HoldsSession, Goto, Reply, Finish,
            Landed, ReplyLost, Wrote, AllOps, Exists, mongo, history, mishaps
<1>1. CASE CreateValidate(r)
  BY <1>1 DEF CreateValidate
<1>2. CASE ReadTarget(r)
  BY <1>2 DEF ReadTarget, KnownIds
<1>3. CASE UpdateInPlace(r)
  BY <1>3 DEF UpdateInPlace, KnownIds
<1>4. CASE TxnFind(r)
  BY <1>4 DEF TxnFind
<1>5. CASE TxnInsert(r)
  BY <1>5 DEF TxnInsert, AfterWrite
<1>6. CASE TxnMove(r)
  BY <1>6 DEF TxnMove, AfterWrite
<1>7. CASE TxnRetry(r) \/ TxnWrite(r) \/ TxnTransient(r)
  BY <1>7 DEF TxnRetry, TxnWrite, TxnTransient, Fault
<1>8. CASE ScheduleReminders(r)
  BY <1>8 DEF ScheduleReminders, AfterRemind
<1>9. CASE RescheduleCheck(r)
  BY <1>9 DEF RescheduleCheck
<1>10. CASE CancelCheck(r)
  BY <1>10 DEF CancelCheck
<1>11. CASE CancelSave(r)
  BY <1>11 DEF CancelSave
<1>12. CASE ClearReminders(r)
  BY <1>12 DEF ClearReminders, AfterClear
<1>13. CASE Delete(r)
  BY <1>13 DEF Delete
<1>14. CASE Audit(r)
  BY <1>14 DEF Audit, AfterAudit
<1>15. CASE Answer(r)
  BY <1>15 DEF Answer
<1>16. CASE Fail(r)
  BY <1>16 DEF Fail
<1> QED
  BY <1>1, <1>2, <1>3, <1>4, <1>5, <1>6, <1>7, <1>8, <1>9, <1>10, <1>11, <1>12,
     <1>13, <1>14, <1>15, <1>16 DEF Handler, Arrive, Step

LEMMA OwnWriting ==
  ASSUME TypeInv, NEW r \in Requests, Handler(r), Progress(r)
  PROVE  HasWritten(r)'
<1> USE OpsAssumption DEF TypeInv, TypeOK, HandlerShape, Progress, OnItsWay,
            HasWritten, Effect, HasAudited, HoldsSession, Goto, Reply, Finish,
            Landed, ReplyLost, Wrote, AllOps, Exists, mongo, history, mishaps
<1>1. CASE CreateValidate(r)
  BY <1>1 DEF CreateValidate
<1>2. CASE ReadTarget(r)
  BY <1>2 DEF ReadTarget, KnownIds
<1>3. CASE UpdateInPlace(r)
  BY <1>3 DEF UpdateInPlace, KnownIds
<1>4. CASE TxnFind(r)
  BY <1>4 DEF TxnFind
<1>5. CASE TxnInsert(r)
  BY <1>5 DEF TxnInsert, AfterWrite
<1>6. CASE TxnMove(r)
  BY <1>6 DEF TxnMove, AfterWrite
<1>7. CASE TxnRetry(r) \/ TxnWrite(r) \/ TxnTransient(r)
  BY <1>7 DEF TxnRetry, TxnWrite, TxnTransient, Fault
<1>8. CASE ScheduleReminders(r)
  BY <1>8 DEF ScheduleReminders, AfterRemind
<1>9. CASE RescheduleCheck(r)
  BY <1>9 DEF RescheduleCheck
<1>10. CASE CancelCheck(r)
  BY <1>10 DEF CancelCheck
<1>11. CASE CancelSave(r)
  <2>1. pc[r] = "save" /\ r \notin wrote /\ op[r] = "cancel" /\ op' = op
        /\ loc' = loc
    BY <1>11 DEF CancelSave
  <2>2. CASE pc'[r] = "done"
    BY <1>11, <2>1, <2>2 DEF CancelSave
  <2>3. CASE pc'[r] = "clear" /\ loc[r].status = "CANCELLED"
    BY <1>11, <2>1, <2>3 DEF CancelSave
  <2>4. CASE pc'[r] = "clear" /\ r \in wrote'
    BY <1>11, <2>1, <2>4 DEF CancelSave
  <2> QED BY <1>11, <2>1, <2>2, <2>3, <2>4 DEF CancelSave
<1>12. CASE ClearReminders(r)
  BY <1>12 DEF ClearReminders, AfterClear
<1>13. CASE Delete(r)
  BY <1>13 DEF Delete
<1>14. CASE Audit(r)
  BY <1>14 DEF Audit, AfterAudit
<1>15. CASE Answer(r)
  BY <1>15 DEF Answer
<1>16. CASE Fail(r)
  BY <1>16 DEF Fail
<1> QED
  BY <1>1, <1>2, <1>3, <1>4, <1>5, <1>6, <1>7, <1>8, <1>9, <1>10, <1>11, <1>12,
     <1>13, <1>14, <1>15, <1>16 DEF Handler, Arrive, Step

LEMMA OwnEffect ==
  ASSUME TypeInv, NEW r \in Requests, Handler(r), Progress(r)
  PROVE  Effect(r)'
<1> USE OpsAssumption DEF TypeInv, TypeOK, HandlerShape, Progress, OnItsWay,
            HasWritten, Effect, HasAudited, HoldsSession, Goto, Reply, Finish,
            Landed, ReplyLost, Wrote, AllOps, Exists, mongo, history, mishaps
<1>1. CASE CreateValidate(r)
  BY <1>1 DEF CreateValidate
<1>2. CASE ReadTarget(r)
  BY <1>2 DEF ReadTarget, KnownIds
<1>3. CASE UpdateInPlace(r)
  BY <1>3 DEF UpdateInPlace, KnownIds
<1>4. CASE TxnFind(r)
  BY <1>4 DEF TxnFind
<1>5. CASE TxnInsert(r)
  BY <1>5 DEF TxnInsert, AfterWrite
<1>6. CASE TxnMove(r)
  BY <1>6 DEF TxnMove, AfterWrite
<1>7. CASE TxnRetry(r) \/ TxnWrite(r) \/ TxnTransient(r)
  BY <1>7 DEF TxnRetry, TxnWrite, TxnTransient, Fault
<1>8. CASE ScheduleReminders(r)
  BY <1>8 DEF ScheduleReminders, AfterRemind
<1>9. CASE RescheduleCheck(r)
  BY <1>9 DEF RescheduleCheck
<1>10. CASE CancelCheck(r)
  BY <1>10 DEF CancelCheck
<1>11. CASE CancelSave(r)
  <2>1. op[r] = "cancel" /\ op' = op /\ resp[r] = "none"
    BY <1>11 DEF CancelSave
  <2>2. resp'[r] \in {"none", "error"}
    BY <1>11, <2>1 DEF CancelSave
  <2> QED BY <2>1, <2>2
<1>12. CASE ClearReminders(r)
  BY <1>12 DEF ClearReminders, AfterClear
<1>13. CASE Delete(r)
  BY <1>13 DEF Delete
<1>14. CASE Audit(r)
  BY <1>14 DEF Audit, AfterAudit
<1>15. CASE Answer(r)
  BY <1>15 DEF Answer
<1>16. CASE Fail(r)
  BY <1>16 DEF Fail
<1> QED
  BY <1>1, <1>2, <1>3, <1>4, <1>5, <1>6, <1>7, <1>8, <1>9, <1>10, <1>11, <1>12,
     <1>13, <1>14, <1>15, <1>16 DEF Handler, Arrive, Step

LEMMA OwnAudit ==
  ASSUME TypeInv, NEW r \in Requests, Handler(r), Progress(r)
  PROVE  HasAudited(r)'
<1> USE OpsAssumption DEF TypeInv, TypeOK, HandlerShape, Progress, OnItsWay,
            HasWritten, Effect, HasAudited, HoldsSession, Goto, Reply, Finish,
            Landed, ReplyLost, Wrote, AllOps, Exists, mongo, history, mishaps
<1>1. CASE CreateValidate(r)
  BY <1>1 DEF CreateValidate
<1>2. CASE ReadTarget(r)
  BY <1>2 DEF ReadTarget, KnownIds
<1>3. CASE UpdateInPlace(r)
  BY <1>3 DEF UpdateInPlace, KnownIds
<1>4. CASE TxnFind(r)
  BY <1>4 DEF TxnFind
<1>5. CASE TxnInsert(r)
  BY <1>5 DEF TxnInsert, AfterWrite
<1>6. CASE TxnMove(r)
  BY <1>6 DEF TxnMove, AfterWrite
<1>7. CASE TxnRetry(r) \/ TxnWrite(r) \/ TxnTransient(r)
  BY <1>7 DEF TxnRetry, TxnWrite, TxnTransient, Fault
<1>8. CASE ScheduleReminders(r)
  <2>1. /\ pc[r] = "remind" /\ op[r] \in {"create", "public"} /\ r \in wrote
        /\ op' = op /\ wrote' = wrote /\ audited' = audited
        /\ doubt' = doubt /\ unlogged' = unlogged /\ resp[r] = "none"
    BY <1>8 DEF ScheduleReminders
  <2>2. CASE /\ pc' = [pc EXCEPT ![r] = AfterRemind(op[r])]
             /\ resp' = resp
    BY <2>1, <2>2 DEF AfterRemind
  <2>3. CASE /\ pc' = [pc EXCEPT ![r] = "done"]
             /\ resp' = [resp EXCEPT ![r] = "error"]
    BY <2>1, <2>3
  <2>4. \/ /\ pc' = [pc EXCEPT ![r] = AfterRemind(op[r])]
           /\ resp' = resp
        \/ /\ pc' = [pc EXCEPT ![r] = "done"]
           /\ resp' = [resp EXCEPT ![r] = "error"]
    BY <1>8 DEF ScheduleReminders
  <2> QED BY <2>2, <2>3, <2>4
<1>9. CASE RescheduleCheck(r)
  BY <1>9 DEF RescheduleCheck
<1>10. CASE CancelCheck(r)
  BY <1>10 DEF CancelCheck
<1>11. CASE CancelSave(r)
  BY <1>11 DEF CancelSave
<1>12. CASE ClearReminders(r)
  BY <1>12 DEF ClearReminders, AfterClear
<1>13. CASE Delete(r)
  BY <1>13 DEF Delete
<1>14. CASE Audit(r)
  BY <1>14 DEF Audit, AfterAudit
<1>15. CASE Answer(r)
  BY <1>15 DEF Answer
<1>16. CASE Fail(r)
  BY <1>16 DEF Fail
<1> QED
  BY <1>1, <1>2, <1>3, <1>4, <1>5, <1>6, <1>7, <1>8, <1>9, <1>10, <1>11, <1>12,
     <1>13, <1>14, <1>15, <1>16 DEF Handler, Arrive, Step

LEMMA OwnSession ==
  ASSUME TypeInv, NEW r \in Requests, Handler(r), Progress(r)
  PROVE  HoldsSession(r)'
<1> USE OpsAssumption DEF TypeInv, TypeOK, HandlerShape, Progress, OnItsWay,
            HasWritten, Effect, HasAudited, HoldsSession, Goto, Reply, Finish,
            Landed, ReplyLost, Wrote, AllOps, Exists, mongo, history, mishaps
<1>1. CASE CreateValidate(r)
  BY <1>1 DEF CreateValidate
<1>2. CASE ReadTarget(r)
  BY <1>2 DEF ReadTarget, KnownIds
<1>3. CASE UpdateInPlace(r)
  BY <1>3 DEF UpdateInPlace, KnownIds
<1>4. CASE TxnFind(r)
  BY <1>4 DEF TxnFind
<1>5. CASE TxnInsert(r)
  BY <1>5 DEF TxnInsert, AfterWrite
<1>6. CASE TxnMove(r)
  BY <1>6 DEF TxnMove, AfterWrite
<1>7. CASE TxnRetry(r) \/ TxnWrite(r) \/ TxnTransient(r)
  BY <1>7 DEF TxnRetry, TxnWrite, TxnTransient, Fault
<1>8. CASE ScheduleReminders(r)
  BY <1>8 DEF ScheduleReminders, AfterRemind
<1>9. CASE RescheduleCheck(r)
  BY <1>9 DEF RescheduleCheck
<1>10. CASE CancelCheck(r)
  BY <1>10 DEF CancelCheck
<1>11. CASE CancelSave(r)
  BY <1>11 DEF CancelSave
<1>12. CASE ClearReminders(r)
  BY <1>12 DEF ClearReminders, AfterClear
<1>13. CASE Delete(r)
  BY <1>13 DEF Delete
<1>14. CASE Audit(r)
  BY <1>14 DEF Audit, AfterAudit
<1>15. CASE Answer(r)
  BY <1>15 DEF Answer
<1>16. CASE Fail(r)
  BY <1>16 DEF Fail
<1> QED
  BY <1>1, <1>2, <1>3, <1>4, <1>5, <1>6, <1>7, <1>8, <1>9, <1>10, <1>11, <1>12,
     <1>13, <1>14, <1>15, <1>16 DEF Handler, Arrive, Step

Advancing == TypeInv /\ Unbooked /\ \A r \in Requests : Progress(r)

LEMMA InitAdvancing == Init => Advancing
<1>1. Init => \A r \in Requests : Progress(r)
  BY DEF Init, Progress, OnItsWay, HasWritten, Effect, HasAudited, HoldsSession
<1> QED BY <1>1, TypeInit, InitUnbooked DEF Advancing

LEMMA StepAdvancing == Advancing /\ [Next]_vars => Advancing'
<1> SUFFICES ASSUME Advancing, [Next]_vars PROVE Advancing'
  OBVIOUS
<1>0. TypeInv /\ Unbooked /\ \A r \in Requests : Progress(r)
  BY DEF Advancing
<1>1. TypeInv' /\ Unbooked'
  BY <1>0, TypeNext, StepUnbooked
<1>2. ASSUME NEW r \in Requests, Handler(r), NEW x \in Requests
      PROVE  Progress(x)'
  <2>1. CASE x = r
    BY <1>0, <1>2, <2>1, OwnWay, OwnWriting, OwnEffect, OwnAudit, OwnSession
       DEF Progress
  <2>2. CASE x # r
    BY <1>0, <1>2, <2>2, OthersProgress
  <2> QED BY <2>1, <2>2
<1>3. ASSUME Crash, NEW x \in Requests PROVE Progress(x)'
  BY <1>0, <1>3 DEF Crash, TypeInv, TypeOK, Progress, OnItsWay, HasWritten,
     Effect, HasAudited, HoldsSession, Exists, history, mishaps
<1>4. ASSUME Tick \/ UNCHANGED vars, NEW x \in Requests PROVE Progress(x)'
  BY <1>0, <1>4 DEF Tick, vars, Progress, OnItsWay, HasWritten, Effect,
     HasAudited, HoldsSession, Exists, history, mishaps
<1> QED BY <1>1, <1>2, <1>3, <1>4 DEF Advancing, Next, Handler

\* An answer of AppointmentsService tells the truth about the collection, with
\* any number of handlers at work and whichever call of one of them throws: a
\* success without a write was asked by a cancel whose copy, as read before the
\* save, was cancelled, or by a remove that found nothing.
THEOREM AnswerMatchesEffectHolds == Spec => []AnswerMatchesEffect
<1>1. Advancing => AnswerMatchesEffect
  BY DEF Advancing, Progress, Effect, AnswerMatchesEffect
<1> QED BY <1>1, InitAdvancing, StepAdvancing, PTL DEF Spec

\* Every change of an answered request has its audit entry, but where log could
\* not create it, the reply of the change was lost, or one of the calls that
\* the public create and cancel make between change and log threw; and an entry
\* without a change is of a request that had nothing to change.
THEOREM ChangesAreAuditedHolds == Spec => []ChangesAreAudited
<1>1. Advancing => ChangesAreAudited
  BY DEF Advancing, Progress, HasAudited, ChangesAreAudited, TypeInv, TypeOK
<1> QED BY <1>1, InitAdvancing, StepAdvancing, PTL DEF Spec

\* Whatever throws in the handlers that open a MongoDB session, none is left open
\* by a request that was answered.
THEOREM SessionsReleasedHolds == Spec => []SessionsReleased
<1>1. Advancing => SessionsReleased
  BY DEF Advancing, Progress, HoldsSession, SessionsReleased
<1> QED BY <1>1, InitAdvancing, StepAdvancing, PTL DEF Spec
----------------------------------------------------------------------------
(***************************************************************************)
(* The open transactions of reschedule.  Between its findByIdAndUpdate and *)
(* its commit a transaction holds the document: nobody else writes it, and *)
(* no other transaction gets as far.                                       *)
(***************************************************************************)

Undisturbed ==
  \A q \in Requests : pc[q] = "commit" /\ Exists(target[q]) =>
    /\ stamp[target[q]] <= snap[q]
    /\ \A x \in Requests \ {q} : pc[x] = "commit" => target[x] # target[q]

\* What the steps of a handler do to the optimes and to the open transactions.
LEMMA WritesWait ==
  ASSUME TypeInv, NEW r \in Requests, Handler(r), NEW a \in Requests
  PROVE  /\ stamp'[a] = stamp[a] \/ ~Held(a)
            \/ (TxnMove(r) /\ a = target[r]) \/ (TxnInsert(r) /\ a = r)
         /\ pc'[r] = "commit" => TxnWrite(r)
<1> USE DEF TypeInv, TypeOK, Wrote, mongo, history
<1>1. CASE CreateValidate(r)
  BY <1>1 DEF CreateValidate, Reply, Goto
<1>2. CASE ReadTarget(r)
  BY <1>2 DEF ReadTarget, Reply, Goto
<1>3. CASE UpdateInPlace(r)
  <2>1. PICK o \in Ops \cap {"confirm", "noShow", "notes"}, b \in KnownIds :
          UpdateInPlace(r)!2!(o, b)
    BY <1>3 DEF UpdateInPlace
  <2>2. \/ Landed(r, IF o = "notes" THEN "answer" ELSE "audit")
        \/ Reply(r, "notFound")
    BY <2>1
  <2>3. pc'[r] # "commit"
    BY <2>2 DEF Landed, ReplyLost, Finish, Reply, Goto
  <2>4. stamp'[a] = stamp[a] \/ (a = b /\ ~Held(b))
    BY <2>1 DEF KnownIds
  <2> QED BY <2>3, <2>4
<1>4. CASE TxnFind(r)
  BY <1>4 DEF TxnFind, Finish, Reply, Goto
<1>5. CASE TxnInsert(r)
  <2>1. Landed(r, AfterWrite(op[r]))
    BY <1>5 DEF TxnInsert
  <2> QED BY <1>5, <2>1 DEF TxnInsert, Landed, ReplyLost, Finish, Reply, Goto, AfterWrite
<1>6. CASE TxnMove(r)
  <2>1. Goto(r, AfterWrite(op[r])) \/ ReplyLost(r)
    BY <1>6 DEF TxnMove
  <2> QED BY <1>6, <2>1 DEF TxnMove, ReplyLost, Finish, Reply, Goto, AfterWrite
<1>7. CASE TxnRetry(r) \/ TxnWrite(r) \/ TxnTransient(r)
  BY <1>7 DEF TxnRetry, TxnWrite, TxnTransient, Goto
<1>8. CASE ScheduleReminders(r)
  BY <1>8 DEF ScheduleReminders, AfterRemind, Finish, Reply, Goto
<1>9. CASE RescheduleCheck(r)
  BY <1>9 DEF RescheduleCheck, Reply, Goto
<1>10. CASE CancelCheck(r)
  BY <1>10 DEF CancelCheck, Reply, Goto
<1>11. CASE CancelSave(r)
  <2>1. Reply(r, "error") \/ Goto(r, "clear") \/ Landed(r, "clear")
    BY <1>11 DEF CancelSave
  <2> QED BY <1>11, <2>1 DEF CancelSave, Landed, ReplyLost, Finish, Reply, Goto
<1>12. CASE ClearReminders(r)
  BY <1>12 DEF ClearReminders, AfterClear, Finish, Reply, Goto
<1>13. CASE Delete(r)
  <2>1. Goto(r, "audit") \/ Landed(r, "audit")
    BY <1>13 DEF Delete
  <2> QED BY <1>13, <2>1 DEF Delete, Landed, ReplyLost, Finish, Reply, Goto
<1>14. CASE Audit(r)
  BY <1>14 DEF Audit, AfterAudit, Goto
<1>15. CASE Answer(r)
  BY <1>15 DEF Answer, Finish, Reply, Goto
<1>16. CASE Fail(r)
  BY <1>16 DEF Fail, Finish, Reply, Goto
<1> QED
  BY <1>1, <1>2, <1>3, <1>4, <1>5, <1>6, <1>7, <1>8, <1>9, <1>10, <1>11, <1>12,
     <1>13, <1>14, <1>15, <1>16 DEF Handler, Arrive, Step

\* The slot and the snapshot of a request are its own.
LEMMA OthersTransaction ==
  ASSUME TypeInv, NEW r \in Requests, Handler(r), NEW x \in Requests, x # r
  PROVE  want'[x] = want[x] /\ snap'[x] = snap[x]
<1> USE DEF TypeInv, TypeOK, mongo
<1>1. CASE Arrive(r)
  <2>1. CASE CreateValidate(r)
    BY <2>1 DEF CreateValidate
  <2>2. CASE ReadTarget(r)
    BY <2>2 DEF ReadTarget
  <2>3. CASE UpdateInPlace(r)
    <3>1. UNCHANGED <<want, snap>>
      BY <2>3 DEF UpdateInPlace
    <3> QED BY <3>1
  <2> QED BY <1>1, <2>1, <2>2, <2>3 DEF Arrive
<1>2. CASE \/ TxnFind(r) \/ TxnInsert(r) \/ TxnWrite(r) \/ TxnMove(r)
           \/ TxnRetry(r) \/ TxnTransient(r)
  BY <1>2 DEF TxnFind, TxnInsert, TxnWrite, TxnMove, TxnRetry, TxnTransient
<1>3. CASE \/ ScheduleReminders(r) \/ RescheduleCheck(r) \/ CancelCheck(r)
           \/ CancelSave(r) \/ ClearReminders(r) \/ Delete(r)
           \/ Audit(r) \/ Answer(r) \/ Fail(r)
  BY <1>3 DEF ScheduleReminders, RescheduleCheck, CancelCheck, CancelSave,
     ClearReminders, Delete, Audit, Answer, Fail
<1> QED BY <1>1, <1>2, <1>3 DEF Handler, Step

LEMMA InitUndisturbed == Init => Undisturbed
  BY DEF Init, Undisturbed, Exists

LEMMA StepUndisturbed == Advancing /\ Undisturbed /\ [Next]_vars => Undisturbed'
<1> SUFFICES ASSUME Advancing, Undisturbed, [Next]_vars PROVE Undisturbed'
  OBVIOUS
<1>0. TypeInv /\ Unbooked /\ \A r \in Requests : Progress(r)
  BY DEF Advancing
<1>1. ASSUME NEW r \in Requests, Handler(r), NEW q \in Requests,
             pc'[q] = "commit", Exists(target[q])'
      PROVE  /\ stamp'[target'[q]] <= snap'[q]
             /\ \A x \in Requests \ {q} : pc'[x] = "commit" => target'[x] # target'[q]
  <2>1. \A x \in Requests : x # r => /\ pc'[x] = pc[x]
                                    /\ target'[x] = target[x]
                                    /\ snap'[x] = snap[x]
    BY <1>0, <1>1, OthersStay, OthersTransaction
  <2>2. CASE q # r
    <3> DEFINE a == target[q]
    <3>1. a \in Requests /\ pc[q] = "commit" /\ op[q] = "reschedule"
      BY <1>0, <1>1, <2>1, <2>2 DEF TypeInv, TypeOK, HandlerShape
    <3>2. slotAt[a] # 0
      BY <1>0, <3>1 DEF Progress, OnItsWay
    <3>3. Exists(a)
      <4>1. appts'[a] # NoDoc
        BY <1>1, <2>1, <2>2 DEF Exists
      <4> QED BY <1>0, <1>1, <3>1, <3>2, <4>1, DocumentsStay DEF Exists
    <3>4. Held(a)
      BY <3>1, <3>3 DEF Held
    <3>5. stamp'[a] = stamp[a]
      <4>1. ~(TxnMove(r) /\ a = target[r])
        BY <2>2, <3>1, <3>3 DEF TxnMove, Undisturbed
      <4>2. ~(TxnInsert(r) /\ a = r)
        BY <1>0, <3>2 DEF TxnInsert, Unbooked, Unborn
      <4> QED BY <1>0, <1>1, <3>1, <3>4, <4>1, <4>2, WritesWait
    <3>6. ASSUME NEW x \in Requests \ {q}, pc'[x] = "commit"
          PROVE  target'[x] # a
      <4>1. CASE x = r
        <5>1. TxnWrite(r)
          BY <1>0, <1>1, <3>1, <3>6, <4>1, WritesWait
        <5> QED BY <3>4, <4>1, <5>1 DEF TxnWrite, WriteConflict
      <4>2. CASE x # r
        BY <2>1, <3>1, <3>3, <3>6, <4>2 DEF Undisturbed
      <4> QED BY <4>1, <4>2
    <3> QED BY <2>1, <2>2, <3>1, <3>3, <3>5, <3>6 DEF Undisturbed
  <2>3. CASE q = r
    <3>1. TxnWrite(r)
      BY <1>0, <1>1, <2>3, WritesWait
    <3>2. /\ UNCHANGED <<target, appts, stamp, snap>> /\ ~Overtaken(r)
          /\ ~Held(target[r])
      BY <3>1 DEF TxnWrite, WriteConflict, mongo
    <3>3. stamp[target[r]] <= snap[r]
      BY <1>0, <3>2 DEF Overtaken, TypeInv, TypeOK
    <3>4. Exists(target[r])
      BY <1>1, <2>3, <3>2 DEF Exists
    <3>5. ASSUME NEW x \in Requests \ {q}, pc'[x] = "commit"
          PROVE  target[x] # target[r]
      BY <2>1, <2>3, <3>2, <3>4, <3>5 DEF Held
    <3> QED BY <2>3, <3>2, <3>3, <3>5
  <2> QED BY <2>2, <2>3
<1>2. CASE Crash
  BY <1>0, <1>2 DEF Crash, Undisturbed, TypeInv, TypeOK
<1>3. CASE Tick \/ UNCHANGED vars
  BY <1>3 DEF Tick, vars, Undisturbed, Exists, mongo
<1> QED BY <1>1, <1>2, <1>3 DEF Undisturbed, Next, Handler

\* The transaction of AppointmentsService.reschedule loses no update: whoever
\* wrote the appointment after its overlap check makes it run again, and while
\* its own write waits for the commit nobody writes that appointment.
THEOREM MoveSeesLatestVersionHolds == Spec => MoveSeesLatestVersion
<1> DEFINE Latest == \A a \in Requests :
             (Exists(a) /\ slotAt'[a] # slotAt[a]) => stamp[a] <= slotSnap'[a]
<1>1. Advancing /\ Undisturbed /\ [Next]_vars => [Latest]_vars
  <2>1. ASSUME Advancing, Undisturbed, NEW r \in Requests, Handler(r),
               NEW a \in Requests, Exists(a), slotAt'[a] # slotAt[a]
        PROVE  stamp[a] <= slotSnap'[a]
    <3>1. TxnMove(r) /\ a = target[r] /\ slotSnap'[a] = snap[r]
      BY <2>1, DocumentsStay DEF Advancing
    <3> QED BY <2>1, <3>1 DEF TxnMove, Undisturbed
  <2>2. ASSUME Crash \/ Tick PROVE Latest
    BY <2>2 DEF Crash, Tick, history
  <2> QED BY <2>1, <2>2 DEF Next, Handler
<1> QED
  BY <1>1, InitAdvancing, StepAdvancing, InitUndisturbed, StepUndisturbed, PTL
     DEF Spec, MoveSeesLatestVersion

----------------------------------------------------------------------------
(***************************************************************************)
(* The versions of the book.  A step of a handler either leaves the        *)
(* collection alone or writes one document, and does so once.              *)
(***************************************************************************)

Quiet == UNCHANGED <<appts, commits, stamp, wrote>>

\* Request r writes document d, which some request inserted before or r inserts
\* now.
WritesTo(r, d) ==
  /\ r \notin wrote /\ wrote' = wrote \cup {r}
  /\ commits' = commits + 1
  /\ stamp' = [stamp EXCEPT ![d] = commits + 1]
  /\ \A x \in Requests \ {d} : appts'[x] = appts[x]
  /\ slotAt[d] # 0 \/ d = r

LEMMA QuietOrWrites ==
  ASSUME TypeInv, NEW r \in Requests, Handler(r), Progress(r)
  PROVE  Quiet \/ \E d \in Requests : WritesTo(r, d)
<1> USE DEF TypeInv, TypeOK, Wrote, Quiet, mongo, history, mishaps
<1>1. CASE CreateValidate(r)
  BY <1>1 DEF CreateValidate
<1>2. CASE ReadTarget(r)
  BY <1>2 DEF ReadTarget
<1>3. CASE UpdateInPlace(r)
  <2>1. PICK o \in {"confirm", "noShow", "notes"}, a \in KnownIds :
          \/ Quiet
          \/ /\ Exists(a) /\ appts' = SetStatus(a, NewStatus(o, appts[a].status))
             /\ Wrote(r, a)
    BY <1>3 DEF UpdateInPlace
  <2>2. a \in Requests /\ slotAt[a] # 0
    BY DEF KnownIds
  <2>3. r \notin wrote
    BY <1>3 DEF UpdateInPlace, Progress, HasWritten
  <2>4. CASE /\ appts' = SetStatus(a, NewStatus(o, appts[a].status))
             /\ Wrote(r, a)
    <3>1. \A x \in Requests \ {a} : appts'[x] = appts[x]
      BY <2>4 DEF SetStatus
    <3> QED BY <2>2, <2>3, <2>4, <3>1 DEF WritesTo
  <2> QED BY <2>1, <2>4
<1>4. CASE TxnFind(r)
  BY <1>4 DEF TxnFind
<1>5. CASE TxnInsert(r)
  <2>1. r \notin wrote
    BY <1>5 DEF TxnInsert, Progress, HasWritten
  <2> QED BY <1>5, <2>1 DEF TxnInsert, WritesTo
<1>6. CASE TxnMove(r)
  <2>1. r \notin wrote /\ slotAt[target[r]] # 0 /\ target[r] \in Requests
    BY <1>6 DEF TxnMove, Progress, HasWritten, OnItsWay, HandlerShape
  <2> QED BY <1>6, <2>1 DEF TxnMove, WritesTo
<1>7. CASE TxnRetry(r) \/ TxnWrite(r) \/ TxnTransient(r)
  BY <1>7 DEF TxnRetry, TxnWrite, TxnTransient, Fault
<1>8. CASE ScheduleReminders(r)
  BY <1>8 DEF ScheduleReminders
<1>9. CASE RescheduleCheck(r)
  BY <1>9 DEF RescheduleCheck
<1>10. CASE CancelCheck(r)
  BY <1>10 DEF CancelCheck
<1>11. CASE CancelSave(r)
  <2>1. /\ r \notin wrote /\ slotAt[target[r]] # 0 /\ target[r] \in Requests
    BY <1>11 DEF CancelSave, Progress, HasWritten, OnItsWay
  <2>2. \/ Quiet
        \/ appts' = SetStatus(target[r], "CANCELLED") /\ Wrote(r, target[r])
    BY <1>11 DEF CancelSave
  <2>3. CASE appts' = SetStatus(target[r], "CANCELLED") /\ Wrote(r, target[r])
    <3>1. \A x \in Requests \ {target[r]} : appts'[x] = appts[x]
      BY <2>3 DEF SetStatus
    <3> QED BY <2>1, <2>3, <3>1 DEF WritesTo
  <2> QED BY <2>2, <2>3
<1>12. CASE ClearReminders(r)
  BY <1>12 DEF ClearReminders
<1>13. CASE Delete(r)
  <2>1. r \notin wrote /\ slotAt[target[r]] # 0 /\ target[r] \in Requests
    BY <1>13 DEF Delete, Progress, HasWritten, OnItsWay
  <2> QED BY <1>13, <2>1 DEF Delete, WritesTo
<1>14. CASE Audit(r)
  BY <1>14 DEF Audit
<1>15. CASE Answer(r)
  BY <1>15 DEF Answer
<1>16. CASE Fail(r)
  BY <1>16 DEF Fail
<1> QED
  BY <1>1, <1>2, <1>3, <1>4, <1>5, <1>6, <1>7, <1>8, <1>9, <1>10, <1>11, <1>12,
     <1>13, <1>14, <1>15, <1>16 DEF Handler, Arrive, Step

\* Handlers that have begun stay begun; only the overlap check leads to a write,
\* and only a write conflict or a transient error back to it.
LEMMA HandlerPath ==
  ASSUME TypeInv, NEW r \in Requests, Handler(r)
  PROVE  /\ pc'[r] # "idle"
         /\ pc'[r] = "write" => TxnFind(r)
         /\ pc[r] = "write" /\ pc'[r] = "find" => TxnRetry(r) \/ TxnTransient(r)
<1> USE DEF TypeInv, TypeOK, Goto, Reply, Finish, Landed, ReplyLost
<1>1. CASE Arrive(r)
  <2>1. pc[r] = "idle"
    BY <1>1 DEF Arrive, CreateValidate, ReadTarget, UpdateInPlace
  <2>2. \E step \in PC \ {"idle", "write"} : pc' = [pc EXCEPT ![r] = step]
    <3>1. CASE CreateValidate(r)
      BY <3>1 DEF CreateValidate, PC
    <3>2. CASE ReadTarget(r)
      BY <3>2 DEF ReadTarget, PC
    <3>3. CASE UpdateInPlace(r)
      BY <3>3 DEF UpdateInPlace, PC
    <3> QED BY <1>1, <3>1, <3>2, <3>3 DEF Arrive
  <2> QED BY <2>1, <2>2
<1>2. CASE TxnFind(r)
  BY <1>2 DEF TxnFind
<1>3. CASE TxnInsert(r) \/ TxnMove(r)
  BY <1>3 DEF TxnInsert, TxnMove, AfterWrite
<1>4. CASE TxnRetry(r) \/ TxnWrite(r) \/ TxnTransient(r)
  BY <1>4 DEF TxnRetry, TxnWrite, TxnTransient
<1>5. CASE \/ ScheduleReminders(r) \/ RescheduleCheck(r) \/ CancelCheck(r)
           \/ CancelSave(r) \/ ClearReminders(r) \/ Delete(r)
           \/ Audit(r) \/ Answer(r) \/ Fail(r)
  BY <1>5 DEF ScheduleReminders, RescheduleCheck, CancelCheck, CancelSave,
     ClearReminders, Delete, Audit, Answer, Fail, AfterRemind, AfterClear,
     AfterAudit
<1> QED BY <1>1, <1>2, <1>3, <1>4, <1>5 DEF Handler, Step

----------------------------------------------------------------------------
(* What a reschedule wants is another time for the service it read.          *)

Wanted(r) ==
  /\ pc[r] \in {"find", "write", "commit"} /\ op[r] \in {"create", "public"} =>
       \E p \in Professionals, s \in Services, t \in Times :
         want[r] = MkSlot(p, s, t)
  /\ pc[r] \in {"find", "write", "commit"} /\ op[r] = "reschedule" =>
       \E t \in Times : want[r] = MkSlot(loc[r].prof, loc[r].serv, t)
  /\ pc[r] \in {"check", "find", "write", "commit"} /\ op[r] = "reschedule"
       /\ Exists(target[r]) =>
         /\ loc[r].prof = appts[target[r]].prof
         /\ loc[r].serv = appts[target[r]].serv

\* An appointment stays with its professional and its service.
LEMMA ServiceStays ==
  ASSUME TypeInv, Unbooked, NEW r \in Requests, Handler(r), Wanted(r),
         NEW a \in Requests, Exists(a), Exists(a)'
  PROVE  appts'[a].prof = appts[a].prof /\ appts'[a].serv = appts[a].serv
<1> USE DEF TypeInv, TypeOK, mongo, history, mishaps
<1> DEFINE Same == appts'[a].prof = appts[a].prof /\ appts'[a].serv = appts[a].serv
<1>0. ASSUME NEW d \in Requests, NEW st \in Status, Exists(d),
             appts' = SetStatus(d, st)
      PROVE  Same
  <2>1. CASE a = d
    <3>1. SetStatus(d, st)[d] =
            [prof |-> appts[d].prof, serv |-> appts[d].serv,
             startAt |-> appts[d].startAt, endAt |-> appts[d].endAt,
             status |-> st]
      BY <1>0, SetStatusType
    <3> QED BY <1>0, <2>1, <3>1
  <2>2. CASE a # d
    <3>1. \A b \in Requests : b # d => SetStatus(d, st)[b] = appts[b]
      BY <1>0, SetStatusType
    <3> QED BY <1>0, <2>2, <3>1
  <2> QED BY <2>1, <2>2
<1>1. CASE CreateValidate(r) \/ ReadTarget(r)
  BY <1>1 DEF CreateValidate, ReadTarget
<1>2. CASE UpdateInPlace(r)
  <2>1. PICK o \in {"confirm", "noShow", "notes"}, d \in KnownIds :
          \/ UNCHANGED appts
          \/ Exists(d) /\ appts' = SetStatus(d, NewStatus(o, appts[d].status))
    BY <1>2 DEF UpdateInPlace
  <2>2. CASE Exists(d) /\ appts' = SetStatus(d, NewStatus(o, appts[d].status))
    <3>1. d \in Requests
      BY DEF KnownIds
    <3>2. NewStatus(o, appts[d].status) \in Status
      BY <2>2, <3>1 DEF NewStatus, Status, Doc, Exists
    <3> QED BY <1>0, <2>2, <3>1, <3>2
  <2> QED BY <2>1, <2>2
<1>3. CASE TxnInsert(r)
  <2>1. a # r
    BY <1>3 DEF TxnInsert, Unbooked, Unborn
  <2> QED BY <1>3, <2>1 DEF TxnInsert
<1>4. CASE TxnMove(r)
  <2>1. CASE a = target[r]
    <3>1. PICK t \in Times : want[r] = MkSlot(loc[r].prof, loc[r].serv, t)
      BY <1>4 DEF TxnMove, Wanted, HandlerShape
    <3>2. want[r].prof = appts[a].prof /\ want[r].serv = appts[a].serv
      BY <1>4, <2>1, <3>1 DEF TxnMove, Wanted, MkSlot, HandlerShape
    <3>3. appts'[a] = Appointment(want[r], "RESCHEDULED")
      BY <1>4, <2>1 DEF TxnMove
    <3> QED BY <3>2, <3>3 DEF Appointment
  <2>2. CASE a # target[r]
    BY <1>4, <2>2 DEF TxnMove
  <2> QED BY <2>1, <2>2
<1>5. CASE CancelSave(r)
  <2>1. \/ UNCHANGED appts
        \/ Exists(target[r]) /\ appts' = SetStatus(target[r], "CANCELLED")
    BY <1>5 DEF CancelSave
  <2> QED BY <1>0, <2>1 DEF Status
<1>6. CASE Delete(r)
  BY <1>6 DEF Delete, Exists
<1>7. CASE \/ TxnFind(r) \/ TxnWrite(r) \/ TxnRetry(r) \/ TxnTransient(r)
           \/ ScheduleReminders(r) \/ RescheduleCheck(r) \/ CancelCheck(r)
           \/ ClearReminders(r) \/ Audit(r) \/ Answer(r) \/ Fail(r)
  BY <1>7 DEF TxnFind, TxnWrite, TxnRetry, TxnTransient, ScheduleReminders,
     RescheduleCheck, CancelCheck, ClearReminders, Audit, Answer, Fail
<1> QED
  BY <1>1, <1>2, <1>3, <1>4, <1>5, <1>6, <1>7 DEF Handler, Arrive, Step

LEMMA StepWanted ==
  ASSUME TypeInv, Unbooked, NEW r \in Requests, Handler(r),
         \A x \in Requests : Progress(x) /\ Wanted(x),
         NEW x \in Requests
  PROVE  Wanted(x)'
<1> USE DEF TypeInv, TypeOK, mongo, history, mishaps
<1>1. CASE x # r
  <2>1. /\ pc'[x] = pc[x] /\ op'[x] = op[x] /\ target'[x] = target[x]
        /\ loc'[x] = loc[x] /\ want'[x] = want[x]
    BY <1>1, OthersStay, OthersTransaction
  <2>2. /\ pc[x] \in {"check", "find", "write", "commit"} /\ op[x] = "reschedule"
           /\ Exists(target[x])'
           => /\ Exists(target[x])
              /\ appts'[target[x]].prof = appts[target[x]].prof
              /\ appts'[target[x]].serv = appts[target[x]].serv
    <3> SUFFICES ASSUME pc[x] \in {"check", "find", "write", "commit"},
                        op[x] = "reschedule", Exists(target[x])'
                 PROVE  /\ Exists(target[x])
                        /\ appts'[target[x]].prof = appts[target[x]].prof
                        /\ appts'[target[x]].serv = appts[target[x]].serv
      OBVIOUS
    <3>1. target[x] \in Requests /\ slotAt[target[x]] # 0
      BY DEF Progress, OnItsWay
    <3>2. target'[x] = target[x]
      BY <2>1
    <3>3. appts'[target[x]] # NoDoc
      BY <3>2 DEF Exists
    <3>4. Exists(target[x])
      BY <3>1, <3>3, DocumentsStay DEF Exists
    <3>5. PICK a \in Requests : a = target[x]
      BY <3>1
    <3>6. Exists(a) /\ Exists(a)'
      BY <3>3, <3>4, <3>5 DEF Exists
    <3> QED BY <3>4, <3>5, <3>6, ServiceStays
  <2>3. Exists(target[x])' <=> appts'[target[x]] # NoDoc
    BY <2>1 DEF Exists
  <2> QED BY <2>1, <2>2, <2>3 DEF Wanted, MkSlot
<1>2. CASE x = r
  <2>0. Wanted(r)
    OBVIOUS
  <2>1. CASE CreateValidate(r)
    BY <1>2, <2>1 DEF CreateValidate, Wanted, Reply, Goto
  <2>2. CASE ReadTarget(r)
    <3>1. PICK o \in {"reschedule", "cancel", "remove"}, a \in Requests :
            /\ op'[r] = o /\ target'[r] = a /\ loc'[r] = appts[a]
            /\ appts' = appts /\ pc'[r] \in {"clear", "check", "done"}
      BY <2>2 DEF ReadTarget, KnownIds, Reply, Goto
    <3> QED BY <1>2, <3>1 DEF Wanted
  <2>3. CASE UpdateInPlace(r)
    <3>1. pc'[r] \in {"done", "audit", "answer"}
      BY <2>3 DEF UpdateInPlace, Landed, ReplyLost, Finish, Reply, Goto
    <3> QED BY <1>2, <3>1 DEF Wanted
  <2>4. CASE TxnFind(r)
    BY <1>2, <2>0, <2>4 DEF TxnFind, Finish, Reply, Goto, Wanted, MkSlot, Exists
  <2>5. CASE TxnRetry(r) \/ TxnWrite(r) \/ TxnTransient(r)
    BY <1>2, <2>0, <2>5
       DEF TxnRetry, TxnWrite, TxnTransient, Goto, Wanted, MkSlot, Exists
  <2>6. CASE RescheduleCheck(r)
    <3>1. /\ pc[r] = "check" /\ op[r] = "reschedule" /\ op' = op
          /\ UNCHANGED <<loc, target, appts>>
      BY <2>6 DEF RescheduleCheck
    <3>2. PICK t \in Times :
            \/ pc'[r] = "done"
            \/ want'[r] = MkSlot(loc[r].prof, loc[r].serv, t)
      BY <2>6 DEF RescheduleCheck, Reply, Goto
    <3> QED BY <1>2, <2>0, <3>1, <3>2 DEF Wanted, MkSlot, Exists
  <2>7. CASE \/ TxnInsert(r) \/ TxnMove(r) \/ ScheduleReminders(r)
             \/ CancelCheck(r) \/ CancelSave(r) \/ ClearReminders(r)
             \/ Delete(r) \/ Audit(r) \/ Answer(r) \/ Fail(r)
    <3>1. pc'[r] \notin {"check", "find", "write", "commit"}
      BY <2>7 DEF TxnInsert, TxnMove, ScheduleReminders, CancelCheck, CancelSave,
         ClearReminders, Delete, Audit, Answer, Fail, Finish, Reply, Goto,
         Landed, ReplyLost, AfterWrite, AfterRemind, AfterClear, AfterAudit
    <3> QED BY <1>2, <3>1 DEF Wanted
  <2> QED
    BY <2>1, <2>2, <2>3, <2>4, <2>5, <2>6, <2>7 DEF Handler, Arrive, Step
<1> QED BY <1>1, <1>2

----------------------------------------------------------------------------
(* The record of versions tells the past of every document: it has been as   *)
(* it is since it was written last, and was not there before it was booked.  *)

VersionsKept ==
  /\ versions \in Seq([Requests -> Doc \cup {NoDoc}])
  /\ Len(versions) = commits + 1 /\ versions[commits + 1] = appts
  /\ \A a \in Requests :
       /\ stamp[a] <= commits
       /\ \A k \in 1..Len(versions) : stamp[a] < k => versions[k][a] = appts[a]
       /\ slotAt[a] = 0 => \A k \in 1..Len(versions) : versions[k][a] = NoDoc

ArrivalsKept ==
  /\ since \in [Requests -> Nat]
  /\ \A r \in Requests :
       /\ since[r] = 0 <=> pc[r] = "idle"
       /\ since[r] <= Len(versions)

\* What the overlap check of a transaction about to write has seen.
FoundFree(r) ==
  pc[r] \in {"write", "commit"} =>
    /\ since[r] <= snap[r] + 1 /\ snap[r] <= commits
    /\ \A b \in Requests \ Own(r) :
         LET d == versions[snap[r] + 1][b] IN
           (d # NoDoc /\ d.status \in Blocking) => ~Overlap(d, want[r])

\* Reruns are paid for, also before the request has written.
RerunsPaid ==
  /\ IsFiniteSet(wrote) /\ Cardinality(wrote) = commits
  /\ \A a \in Requests : slotAt[a] # 0 => a \in wrote
  /\ retries \in [Requests -> Nat]
  /\ \A r \in Requests :
       /\ pc[r] = "idle" => retries[r] = 0
       /\ retries[r] <= Cardinality(wrote \ {r, target[r]})
       /\ pc[r] = "write" /\ op[r] = "reschedule" => retries[r] < snap[r]

BookInv ==
  /\ Advancing /\ Undisturbed
  /\ VersionsKept /\ ArrivalsKept /\ RerunsPaid
  /\ \A r \in Requests : Wanted(r) /\ FoundFree(r)

\* BookInv and one step, in words the next lemmas share.
Recording == BookInv /\ Advancing' /\ Undisturbed' /\ Record

LEMMA InitBook == Init /\ Recorded => BookInv
<1> SUFFICES ASSUME Init, Recorded PROVE BookInv
  OBVIOUS
<1>1. Advancing /\ Undisturbed
  BY InitAdvancing, InitUndisturbed
<1>2. appts \in [Requests -> Doc \cup {NoDoc}]
  BY <1>1 DEF Advancing, TypeInv, TypeOK
<1>3. VersionsKept
  BY <1>2 DEF Init, Recorded, VersionsKept
<1>4. ArrivalsKept
  BY DEF Init, Recorded, ArrivalsKept
<1>5. RerunsPaid
  <2>1. IsFiniteSet({}) /\ Cardinality({}) = 0
    BY FS_EmptySet
  <2>2. IsFiniteSet(wrote) /\ Cardinality(wrote) = commits
    BY <2>1 DEF Init
  <2>3. \A r \in Requests : wrote \ {r, target[r]} = {}
    BY DEF Init
  <2> QED BY <2>1, <2>2, <2>3 DEF Init, Recorded, RerunsPaid
<1>6. \A r \in Requests : Wanted(r) /\ FoundFree(r)
  BY DEF Init, Wanted, FoundFree
<1> QED BY <1>1, <1>3, <1>4, <1>5, <1>6 DEF BookInv

LEMMA VersionsGrow ==
  ASSUME Recording, NEW r \in Requests, Handler(r)
  PROVE  /\ VersionsKept'
         /\ \A k \in 1..Len(versions) :
              k \in 1..Len(versions') /\ versions'[k] = versions[k]
<1>0. /\ TypeInv /\ TypeInv' /\ Unbooked /\ Progress(r) /\ VersionsKept
      /\ commits \in Nat /\ appts' \in [Requests -> Doc \cup {NoDoc}]
      /\ stamp \in [Requests -> Nat]
  BY DEF Recording, BookInv, Advancing, TypeInv, TypeOK
<1>1. CASE Quiet
  <2>1. versions' = versions
    BY <1>1 DEF Quiet, Recording, Record
  <2>2. \A a \in Requests : slotAt'[a] = 0 => slotAt[a] = 0
    BY <1>0, DocumentsStay
  <2> QED BY <1>0, <1>1, <2>1, <2>2 DEF Quiet, VersionsKept
<1>2. ASSUME NEW d \in Requests, WritesTo(r, d)
      PROVE  /\ VersionsKept'
             /\ \A k \in 1..Len(versions) :
                  k \in 1..Len(versions') /\ versions'[k] = versions[k]
  <2>1. versions' = Append(versions, appts')
    BY <1>0, <1>2 DEF WritesTo, Recording, Record
  <2>2. /\ versions' \in Seq([Requests -> Doc \cup {NoDoc}])
        /\ Len(versions') = commits + 2 /\ commits' = commits + 1
        /\ versions'[commits + 2] = appts'
        /\ \A k \in 1..(commits + 1) : versions'[k] = versions[k]
    BY <1>0, <1>2, <2>1 DEF VersionsKept, WritesTo
  <2>3. ASSUME NEW a \in Requests
        PROVE  /\ stamp'[a] <= commits'
               /\ \A k \in 1..Len(versions') :
                    stamp'[a] < k => versions'[k][a] = appts'[a]
    <3>1. CASE a = d
      BY <1>0, <1>2, <2>2, <3>1 DEF WritesTo
    <3>2. CASE a # d
      <4>1. stamp'[a] = stamp[a] /\ appts'[a] = appts[a]
        BY <1>0, <1>2, <3>2 DEF WritesTo
      <4>2. stamp[a] <= commits /\ \A k \in 1..(commits + 1) :
              stamp[a] < k => versions[k][a] = appts[a]
        BY <1>0 DEF VersionsKept
      <4> QED BY <1>0, <2>2, <4>1, <4>2
    <3> QED BY <3>1, <3>2
  <2>4. ASSUME NEW a \in Requests, slotAt'[a] = 0
        PROVE  \A k \in 1..Len(versions') : versions'[k][a] = NoDoc
    <3>1. slotAt[a] = 0
      BY <1>0, <2>4, DocumentsStay
    <3>2. \A k \in 1..(commits + 1) : versions[k][a] = NoDoc
      BY <1>0, <3>1 DEF VersionsKept
    <3>3. appts[a] = NoDoc
      BY <1>0, <3>2 DEF VersionsKept
    <3>4. ~(a = r /\ TxnInsert(r))
      BY <1>0, <2>4 DEF TxnInsert, TypeInv, TypeOK
    <3>5. appts'[a] = NoDoc
      BY <1>0, <3>1, <3>3, <3>4, DocumentsStay DEF Unborn, Exists
    <3> QED BY <1>0, <2>2, <3>2, <3>5
  <2> QED BY <1>0, <2>2, <2>3, <2>4 DEF VersionsKept
<1> QED BY <1>0, <1>1, <1>2, QuietOrWrites

LEMMA ArrivalsGrow ==
  ASSUME Recording, NEW r \in Requests, Handler(r)
  PROVE  /\ ArrivalsKept'
         /\ \A x \in Requests : pc[x] # "idle" => since'[x] = since[x]
<1>0. TypeInv /\ ArrivalsKept /\ VersionsKept /\ commits \in Nat
  BY DEF Recording, BookInv, Advancing, TypeInv, TypeOK
<1>1. Len(versions) \in Nat \ {0} /\ Len(versions') \in Nat
        /\ Len(versions) <= Len(versions')
  <2>1. VersionsKept'
    BY VersionsGrow
  <2>2. Len(versions) \in Nat \ {0} /\ Len(versions') \in Nat
    BY <1>0, <2>1 DEF VersionsKept
  <2>3. Len(versions) \in 1..Len(versions')
    BY <2>2, VersionsGrow
  <2> QED BY <2>2, <2>3
<1>2. since' = [x \in Requests |->
                  IF since[x] = 0 /\ pc'[x] # "idle" THEN Len(versions)
                  ELSE since[x]]
  BY DEF Recording, Record
<1>3. \A x \in Requests : pc'[x] = "idle" <=> pc[x] = "idle" /\ x # r
  BY <1>0, HandlerPath, OthersStay
<1> QED BY <1>0, <1>1, <1>2, <1>3 DEF ArrivalsKept

LEMMA FoundFreeStays ==
  ASSUME Recording, NEW r \in Requests, Handler(r), NEW x \in Requests
  PROVE  FoundFree(x)'
<1>0. /\ TypeInv /\ VersionsKept /\ ArrivalsKept /\ FoundFree(x)
      /\ commits \in Nat /\ snap \in [Requests -> Nat] /\ pc \in [Requests -> PC]
      /\ Len(versions) = commits + 1
  BY DEF Recording, BookInv, Advancing, TypeInv, TypeOK, VersionsKept
<1>1. /\ \A k \in 1..Len(versions) :
           k \in 1..Len(versions') /\ versions'[k] = versions[k]
      /\ Len(versions') = commits' + 1 /\ commits' \in Nat
  <2>1. VersionsKept' /\ commits' \in Nat
    BY VersionsGrow DEF Recording, Advancing, TypeInv, TypeOK
  <2> QED BY <2>1, VersionsGrow DEF VersionsKept
<1>2. /\ commits <= commits' /\ versions'[commits + 1] = versions[commits + 1]
      /\ \A k \in Nat : k <= commits =>
           versions'[k + 1] = versions[k + 1]
  <2>1. \A k \in Nat : k <= commits => k + 1 \in 1..Len(versions)
    BY <1>0
  <2>2. commits + 1 \in 1..Len(versions)
    BY <1>0
  <2>3. commits + 1 \in 1..Len(versions') /\ versions'[commits + 1] = versions[commits + 1]
    BY <1>1, <2>2
  <2>4. commits <= commits'
    <3>1. commits' = commits \/ commits' = commits + 1
      BY QuietOrWrites DEF Recording, BookInv, Advancing, Quiet, WritesTo
    <3> QED BY <1>0, <3>1
  <2>5. \A k \in Nat : k <= commits => versions'[k + 1] = versions[k + 1]
    BY <1>1, <2>1
  <2> QED BY <2>3, <2>4, <2>5
<1>3. CASE x # r
  <2>1. /\ pc'[x] = pc[x] /\ op'[x] = op[x] /\ target'[x] = target[x]
        /\ want'[x] = want[x] /\ snap'[x] = snap[x]
    BY <1>0, <1>3, OthersStay, OthersTransaction
  <2>2. pc[x] \in {"write", "commit"} => since'[x] = since[x]
    BY ArrivalsGrow
  <2> SUFFICES ASSUME pc[x] \in {"write", "commit"} PROVE FoundFree(x)'
    BY <2>1 DEF FoundFree
  <2>3. since[x] <= snap[x] + 1 /\ snap[x] <= commits
    BY <1>0 DEF FoundFree
  <2>4. versions'[snap'[x] + 1] = versions[snap[x] + 1]
    BY <1>0, <1>2, <2>1, <2>3
  <2>5. snap'[x] <= commits'
    BY <1>0, <1>1, <1>2, <2>1, <2>3
  <2>6. Own(x)' = Own(x)
    BY <2>1 DEF Own
  <2>7. \A b \in Requests \ Own(x)' :
          LET d == versions'[snap'[x] + 1][b] IN
            (d # NoDoc /\ d.status \in Blocking) => ~Overlap(d, want'[x])
    BY <1>0, <2>1, <2>4, <2>6 DEF FoundFree
  <2> QED BY <2>1, <2>2, <2>3, <2>5, <2>7 DEF FoundFree
<1>4. CASE x = r /\ pc'[r] = "write"
  <2>1. TxnFind(r)
    BY <1>0, <1>4, HandlerPath
  <2>2. /\ pc[r] = "find" /\ snap'[r] = commits /\ Conflicting(r) = {}
        /\ UNCHANGED <<appts, op, target, want, commits>>
    BY <1>0, <1>4, <2>1 DEF TxnFind, SnapshotTime, Finish, Reply, Goto
  <2>3. since'[r] = since[r] /\ since[r] <= commits + 1
    BY <1>0, <2>2, ArrivalsGrow DEF ArrivalsKept
  <2>4. versions'[commits + 1] = appts
    BY <1>0, <1>2 DEF VersionsKept
  <2>5. \A b \in Requests \ Own(r) :
          (appts[b] # NoDoc /\ appts[b].status \in Blocking)
            => ~Overlap(appts[b], want[r])
    BY <2>2 DEF Conflicting, Exists
  <2> QED BY <1>0, <1>4, <2>2, <2>3, <2>4, <2>5 DEF FoundFree, Own, Overlap
<1>5. CASE x = r /\ pc'[r] = "commit"
  <2>1. TxnWrite(r)
    BY <1>0, <1>5, WritesWait
  <2>2. pc[r] = "write" /\ UNCHANGED <<op, target, want, commits, snap>>
    BY <2>1 DEF TxnWrite, mongo
  <2>3. since'[r] = since[r]
    BY <2>2, ArrivalsGrow
  <2>4. since[r] <= snap[r] + 1 /\ snap[r] <= commits
    BY <1>0, <1>5, <2>2 DEF FoundFree
  <2>5. versions'[snap[r] + 1] = versions[snap[r] + 1]
    BY <1>0, <1>2, <2>4
  <2> QED BY <1>0, <1>5, <2>2, <2>3, <2>4, <2>5 DEF FoundFree, Own, Overlap
<1>6. CASE x = r /\ pc'[r] \notin {"write", "commit"}
  BY <1>6 DEF FoundFree
<1> QED BY <1>3, <1>4, <1>5, <1>6

LEMMA RerunsStayPaid ==
  ASSUME Recording, NEW r \in Requests, Handler(r)
  PROVE  RerunsPaid'
<1>0. /\ TypeInv /\ Unbooked /\ RerunsPaid /\ Progress(r)
      /\ commits \in Nat /\ snap \in [Requests -> Nat] /\ pc \in [Requests -> PC]
      /\ stamp \in [Requests -> Nat] /\ target \in [Requests -> Requests]
      /\ \A a \in Requests : stamp[a] <= commits
  BY DEF Recording, BookInv, Advancing, TypeInv, TypeOK, VersionsKept
<1>1. /\ IsFiniteSet(wrote) /\ Cardinality(wrote) = commits
      /\ \A a \in Requests : slotAt[a] # 0 => a \in wrote
      /\ retries \in [Requests -> Nat]
      /\ \A x \in Requests :
           /\ pc[x] = "idle" => retries[x] = 0
           /\ retries[x] <= Cardinality(wrote \ {x, target[x]})
           /\ pc[x] = "write" /\ op[x] = "reschedule" => retries[x] < snap[x]
  BY <1>0 DEF RerunsPaid
<1>2. /\ IsFiniteSet(wrote') /\ Cardinality(wrote') = commits'
      /\ wrote \subseteq wrote'
  <2>1. CASE Quiet
    BY <1>1, <2>1 DEF Quiet
  <2>2. ASSUME NEW d \in Requests, WritesTo(r, d)
        PROVE  /\ IsFiniteSet(wrote') /\ Cardinality(wrote') = commits'
               /\ wrote \subseteq wrote'
    BY <1>1, <2>2, FS_AddElement DEF WritesTo
  <2> QED BY <1>0, <2>1, <2>2, QuietOrWrites
<1>3. \A a \in Requests : slotAt'[a] # 0 => a \in wrote'
  <2>1. CASE UNCHANGED slotAt
    BY <1>1, <1>2, <2>1
  <2>2. CASE TxnInsert(r)
    <3>1. r \in wrote' /\ \A a \in Requests : a # r => slotAt'[a] = slotAt[a]
      BY <1>0, <2>2 DEF TxnInsert, Wrote, TypeInv, TypeOK
    <3> QED BY <1>1, <1>2, <3>1
  <2>3. CASE TxnMove(r)
    <3>1. slotAt[target[r]] # 0
      BY <1>0, <2>3 DEF TxnMove, Progress, OnItsWay, HandlerShape, TypeInv
    <3>2. \A a \in Requests : slotAt'[a] # 0 => slotAt[a] # 0
      BY <1>0, <2>3, <3>1 DEF TxnMove, history, TypeInv, TypeOK
    <3> QED BY <1>1, <1>2, <3>2
  <2>4. TxnInsert(r) \/ TxnMove(r) \/ UNCHANGED slotAt
    <3> USE DEF history
    <3>1. CASE Arrive(r)
      BY <3>1 DEF Arrive, CreateValidate, ReadTarget, UpdateInPlace
    <3>2. CASE \/ TxnFind(r) \/ TxnWrite(r) \/ TxnRetry(r) \/ TxnTransient(r)
               \/ ScheduleReminders(r) \/ RescheduleCheck(r) \/ CancelCheck(r) \/ CancelSave(r)
               \/ ClearReminders(r) \/ Delete(r) \/ Audit(r) \/ Answer(r)
               \/ Fail(r)
      BY <3>2 DEF TxnFind, TxnWrite, TxnRetry, TxnTransient,
         ScheduleReminders, RescheduleCheck, CancelCheck, CancelSave, ClearReminders, Delete, Audit, Answer, Fail
    <3> QED BY <3>1, <3>2 DEF Handler, Step
  <2> QED BY <2>1, <2>2, <2>3, <2>4
<1>4. retries' = [x \in Requests |->
                    IF /\ op[x] = "reschedule" /\ Overtaken(x)
                       /\ pc[x] = "write" /\ pc'[x] = "find"
                    THEN retries[x] + 1
                    ELSE retries[x]]
  BY DEF Recording, Record
<1>5. retries' \in [Requests -> Nat]
  BY <1>1, <1>4
\* While r has not written, the writes by others than the author of its
\* appointment are all but one.
<1>6. ASSUME r \notin wrote, slotAt[target[r]] # 0
      PROVE  /\ commits # 0
             /\ Cardinality(wrote \ {r, target[r]}) = commits - 1
  <2>1. target[r] \in wrote
    BY <1>0, <1>1, <1>6
  <2>2. wrote \ {r, target[r]} = wrote \ {target[r]}
    BY <1>6
  <2>3. Cardinality(wrote \ {target[r]}) = commits - 1
    BY <1>1, <2>1, FS_RemoveElement
  <2>4. commits # 0
    BY <1>1, <2>1, FS_EmptySet
  <2> QED BY <2>2, <2>3, <2>4
<1>7. ASSUME NEW x \in Requests, target'[x] = target[x], retries'[x] = retries[x]
      PROVE  retries'[x] <= Cardinality(wrote' \ {x, target'[x]})
  <2> DEFINE new == wrote' \ {x, target'[x]}
             old == wrote \ {x, target[x]}
  <2>1. IsFiniteSet(new)
    BY <1>2, FS_Subset
  <2>2. old \in SUBSET new
    BY <1>2, <1>7
  <2> HIDE DEF new, old
  <2>3. IsFiniteSet(old) /\ Cardinality(old) <= Cardinality(new)
    BY <2>1, <2>2, FS_Subset
  <2>4. Cardinality(old) \in Nat /\ Cardinality(new) \in Nat
    BY <2>1, <2>3, FS_CardinalityType
  <2>5. retries[x] \in Nat /\ retries[x] <= Cardinality(old)
    BY <1>1 DEF old
  <2>6. retries'[x] <= Cardinality(new)
    BY <1>7, <2>3, <2>4, <2>5
  <2> QED BY <2>6 DEF new
<1>8. ASSUME NEW x \in Requests, x # r
      PROVE  /\ pc'[x] = "idle" => retries'[x] = 0
             /\ retries'[x] <= Cardinality(wrote' \ {x, target'[x]})
             /\ pc'[x] = "write" /\ op'[x] = "reschedule" => retries'[x] < snap'[x]
  <2>1. /\ pc'[x] = pc[x] /\ op'[x] = op[x] /\ target'[x] = target[x]
        /\ snap'[x] = snap[x]
    BY <1>0, <1>8, OthersStay, OthersTransaction
  <2>2. retries'[x] = retries[x]
    BY <1>4, <2>1
  <2>3. retries[x] \in Nat
    BY <1>1
  <2> QED BY <1>1, <1>7, <2>1, <2>2, <2>3
<1>9. /\ pc'[r] # "idle"
      /\ retries'[r] <= Cardinality(wrote' \ {r, target'[r]})
      /\ pc'[r] = "write" /\ op'[r] = "reschedule" => retries'[r] < snap'[r]
  <2>0. pc'[r] # "idle" /\ retries[r] \in Nat
    BY <1>0, <1>1, HandlerPath
  <2>1. CASE Arrive(r)
    <3>1. pc[r] = "idle"
      BY <2>1 DEF Arrive, CreateValidate, ReadTarget, UpdateInPlace
    <3>2. retries'[r] = 0
      BY <1>1, <1>4, <3>1
    <3>3. IsFiniteSet(wrote' \ {r, target'[r]})
      BY <1>2, FS_Subset
    <3>4. Cardinality(wrote' \ {r, target'[r]}) \in Nat
      BY <3>3, FS_CardinalityType
    <3>5. pc'[r] # "write"
      BY <1>0, <3>1, HandlerPath DEF TxnFind
    <3> QED BY <2>0, <3>2, <3>4, <3>5
  <2>2. CASE TxnFind(r)
    <3>1. /\ pc[r] = "find" /\ r \notin wrote /\ UNCHANGED <<op, target>>
          /\ snap'[r] = commits
          /\ op[r] = "reschedule" => slotAt[target[r]] # 0
      BY <1>0, <2>2 DEF TxnFind, SnapshotTime, Progress, OnItsWay, HasWritten
    <3>2. retries'[r] = retries[r]
      BY <1>4, <3>1
    <3>3. op[r] = "reschedule" => retries[r] < commits
      <4> SUFFICES ASSUME op[r] = "reschedule" PROVE retries[r] < commits
        OBVIOUS
      <4>1. Cardinality(wrote \ {r, target[r]}) = commits - 1
        BY <1>6, <3>1
      <4> QED BY <1>0, <1>1, <2>0, <4>1
    <3> QED BY <1>1, <1>7, <2>0, <3>1, <3>2, <3>3
  <2>3. CASE /\ op[r] = "reschedule" /\ Overtaken(r)
             /\ pc[r] = "write" /\ pc'[r] = "find"
    <3>1. /\ r \notin wrote /\ slotAt[target[r]] # 0
          /\ snap[r] < stamp[target[r]] /\ UNCHANGED <<target, wrote>>
      <4>1. TxnRetry(r) \/ TxnTransient(r)
        BY <1>0, <2>3, HandlerPath
      <4>2. UNCHANGED <<target, wrote>>
        BY <4>1 DEF TxnRetry, TxnTransient, history
      <4>3. stamp[target[r]] \in Nat /\ snap[r] \in Nat
        BY <1>0
      <4> QED
        BY <1>0, <2>3, <4>2, <4>3 DEF Overtaken, Progress, OnItsWay, HasWritten
    <3>2. retries'[r] = retries[r] + 1 /\ retries[r] < snap[r]
      BY <1>1, <1>4, <2>3
    <3>3. snap[r] < commits /\ snap[r] \in Nat
      <4>1. snap[r] \in Nat /\ stamp[target[r]] \in Nat /\ stamp[target[r]] <= commits
        BY <1>0
      <4> QED BY <1>0, <3>1, <4>1
    <3>4. Cardinality(wrote \ {r, target[r]}) = commits - 1
      BY <1>6, <3>1
    <3>5. retries'[r] <= commits - 1
      BY <1>0, <2>0, <3>2, <3>3
    <3> QED BY <2>0, <2>3, <3>1, <3>4, <3>5
  <2>4. CASE /\ ~Arrive(r) /\ ~TxnFind(r)
             /\ ~(/\ op[r] = "reschedule" /\ Overtaken(r)
                  /\ pc[r] = "write" /\ pc'[r] = "find")
    <3>1. target'[r] = target[r]
      BY <2>4 DEF Handler, Step, TxnInsert, TxnWrite, TxnMove, TxnRetry,
         TxnTransient, ScheduleReminders, RescheduleCheck, CancelCheck,
         CancelSave, ClearReminders, Delete, Audit, Answer, Fail
    <3>2. pc'[r] # "write"
      BY <1>0, <2>4, HandlerPath
    <3>3. retries'[r] = retries[r]
      BY <1>4, <2>4
    <3> QED BY <1>1, <1>7, <2>0, <3>1, <3>2, <3>3
  <2> QED BY <2>1, <2>2, <2>3, <2>4
<1> QED BY <1>2, <1>3, <1>5, <1>8, <1>9 DEF RerunsPaid

LEMMA StepBook == BookInv /\ [Next /\ Record]_bookVars => BookInv'
<1> SUFFICES ASSUME BookInv, [Next /\ Record]_bookVars PROVE BookInv'
  OBVIOUS
<1> USE DEF mongo, history, mishaps
<1>0. Advancing /\ Advancing' /\ Undisturbed'
  <2>1. [Next]_vars
    BY DEF bookVars
  <2> QED BY <2>1, StepAdvancing, StepUndisturbed DEF BookInv
<1>1. ASSUME Record, NEW r \in Requests, Handler(r) PROVE BookInv'
  <2>1. Recording
    BY <1>0, <1>1 DEF Recording
  <2>2. VersionsKept' /\ ArrivalsKept' /\ RerunsPaid'
    BY <1>1, <2>1, VersionsGrow, ArrivalsGrow, RerunsStayPaid
  <2>3. \A x \in Requests : FoundFree(x)'
    BY <1>1, <2>1, FoundFreeStays
  <2>4. \A x \in Requests : Progress(x) /\ Wanted(x)
    BY DEF BookInv, Advancing
  <2>5. \A x \in Requests : Wanted(x)'
    BY <1>0, <1>1, <2>4, StepWanted DEF Advancing
  <2> QED BY <1>0, <2>2, <2>3, <2>5 DEF BookInv
\* Neither the clock nor a crash touches the collection or starts a request.
<1>2. ASSUME Record, Crash \/ Tick PROVE BookInv'
  <2>1. /\ UNCHANGED <<appts, op, target, loc, want, commits, snap, stamp, wrote,
                       slotAt, slotSnap, solid>>
    BY <1>2 DEF Crash, Tick
  <2>2. /\ pc \in [Requests -> PC]
        /\ \A x \in Requests : /\ pc'[x] = "idle" <=> pc[x] = "idle"
                               /\ pc'[x] = pc[x] \/ pc'[x] = "done"
    BY <1>0, <1>2 DEF Crash, Tick, Advancing, TypeInv, TypeOK
  <2>3. versions' = versions
    BY <1>2, <2>1 DEF Record
  <2>4. since' = since
    BY <1>2, <2>2 DEF Record, BookInv, ArrivalsKept
  <2>5. retries' = retries
    <3>1. \A x \in Requests : ~(pc[x] = "write" /\ pc'[x] = "find")
      BY <2>2
    <3> QED BY <1>2, <3>1 DEF Record, BookInv, RerunsPaid
  <2>6. VersionsKept' /\ ArrivalsKept' /\ RerunsPaid'
    BY <2>1, <2>2, <2>3, <2>4, <2>5
       DEF BookInv, VersionsKept, ArrivalsKept, RerunsPaid
  <2>7. ASSUME NEW x \in Requests PROVE Wanted(x)' /\ FoundFree(x)'
    <3>1. Wanted(x) /\ FoundFree(x)
      BY DEF BookInv
    <3> QED
      BY <2>1, <2>2, <2>3, <2>4, <3>1
         DEF Wanted, FoundFree, Own, Exists, MkSlot, Overlap
  <2> QED BY <1>0, <2>6, <2>7 DEF BookInv
<1>3. CASE UNCHANGED bookVars
  <2>1. UNCHANGED <<appts, pc, op, target, loc, want, commits, snap, stamp, wrote,
                    slotAt, versions, since, retries>>
    BY <1>3 DEF bookVars, vars
  <2>2. VersionsKept' /\ ArrivalsKept' /\ RerunsPaid'
    BY <2>1 DEF BookInv, VersionsKept, ArrivalsKept, RerunsPaid
  <2>3. ASSUME NEW x \in Requests PROVE Wanted(x)' /\ FoundFree(x)'
    BY <2>1 DEF BookInv, Wanted, FoundFree, Own, Exists, MkSlot, Overlap
  <2> QED BY <1>0, <2>2, <2>3 DEF BookInv
<1> QED BY <1>1, <1>2, <1>3 DEF Next, Handler

\* However many requests there are, the callback of a reschedule's transaction
\* runs again because of a changed document only for a write another request has
\* committed since the transaction began, and every such write is paid with once.
THEOREM RetriesArePaidFor == VersionedSpec => []RetriesPaidFor
<1>1. VersionedSpec => []BookInv
  BY InitBook, StepBook, PTL DEF VersionedSpec
<1>2. BookInv => RetriesPaidFor
  BY DEF BookInv, RerunsPaid, RetriesPaidFor
<1> QED BY <1>1, <1>2, PTL

----------------------------------------------------------------------------
(* Every step of the handlers is a step of AppointmentBook, or none.         *)

LEMMA BookInit == Init /\ Recorded => Book!Init
  BY DEF Init, Recorded, Book!Init

\* What was not written since a snapshot is as it was then, and so is what no
\* request has booked yet.
LEMMA SnapshotStands ==
  ASSUME BookInv, NEW r \in Requests, pc[r] \in {"write", "commit"}, NEW a \in Requests,
         stamp[a] <= snap[r] \/ slotAt[a] = 0
  PROVE  Book!Untouched(snap[r] + 1, a)
<1>1. /\ VersionsKept /\ FoundFree(r) /\ commits \in Nat /\ snap[r] \in Nat
      /\ stamp[a] \in Nat /\ Len(versions) = commits + 1
  BY DEF BookInv, Advancing, TypeInv, TypeOK, VersionsKept
<1>2. snap[r] <= commits
  BY <1>1 DEF FoundFree
<1> DEFINE k == snap[r] + 1
<1>3. \A j \in k..(commits + 1) : j \in 1..(commits + 1) /\ snap[r] < j
  BY <1>1
<1>4. k \in k..(commits + 1)
  BY <1>1, <1>2
<1>5. CASE stamp[a] <= snap[r]
  <2>1. \A j \in 1..(commits + 1) : stamp[a] < j => versions[j][a] = appts[a]
    BY <1>1 DEF VersionsKept
  <2>2. \A j \in k..(commits + 1) : stamp[a] < j
    BY <1>1, <1>5
  <2>3. \A j \in k..(commits + 1) : versions[j][a] = versions[k][a]
    BY <1>3, <1>4, <2>1, <2>2
  <2> QED BY <1>1, <2>3 DEF Book!Untouched
<1>6. CASE slotAt[a] = 0
  <2>1. \A j \in 1..(commits + 1) : versions[j][a] = NoDoc
    BY <1>1, <1>6 DEF VersionsKept
  <2>2. \A j \in k..(commits + 1) : versions[j][a] = versions[k][a]
    BY <1>3, <1>4, <2>1
  <2> QED BY <1>1, <2>2 DEF Book!Untouched
<1> QED BY <1>5, <1>6

\* A request that found its slot free takes it.
LEMMA SlotTakenInBook ==
  ASSUME Recording, NEW r \in Requests, pc[r] \in {"write", "commit"},
         NEW a \in Requests, WritesTo(r, a), Own(r) \subseteq {a},
         stamp[a] <= snap[r] \/ slotAt[a] = 0,
         NEW doc, appts' = [appts EXCEPT ![a] = doc],
         want[r] \in Slot, doc.prof = want[r].prof,
         doc.startAt = want[r].startAt, doc.endAt = want[r].endAt
  PROVE  Book!TakeSlot(r, a, doc)
<1>0. /\ TypeInv /\ VersionsKept /\ ArrivalsKept /\ FoundFree(r)
      /\ commits \in Nat /\ snap[r] \in Nat /\ stamp[a] \in Nat /\ since[r] \in Nat
      /\ appts \in [Requests -> Doc \cup {NoDoc}] /\ Len(versions) = commits + 1
      /\ versions \in Seq([Requests -> Doc \cup {NoDoc}])
  BY DEF Recording, BookInv, Advancing, TypeInv, TypeOK, VersionsKept, ArrivalsKept
<1> DEFINE k == snap[r] + 1
<1>1. since[r] <= k /\ k <= commits + 1 /\ k \in 1..(commits + 1)
  BY <1>0 DEF FoundFree
<1>2. Book!Free(k, a, doc)
  <2> SUFFICES ASSUME NEW b \in Requests \ {a}, versions[k][b] # NoDoc,
                      versions[k][b].prof = doc.prof,
                      versions[k][b].status \in {"PENDING", "CONFIRMED"}
               PROVE  \/ versions[k][b].endAt <= doc.startAt
                      \/ doc.endAt <= versions[k][b].startAt
    BY DEF Book!Free
  <2>1. ~Overlap(versions[k][b], want[r])
    BY <1>0 DEF FoundFree, Blocking
  <2>2. versions[k] \in [Requests -> Doc \cup {NoDoc}]
    BY <1>0, <1>1
  <2>3. versions[k][b] \in Doc
    BY <2>2
  <2>4. /\ versions[k][b].startAt \in Nat /\ versions[k][b].endAt \in Nat
        /\ want[r].startAt \in Nat /\ want[r].endAt \in Nat
    BY <2>3 DEF Doc, Slot
  <2> QED BY <2>1, <2>4 DEF Overlap
<1>3. Book!Untouched(k, a)
  BY SnapshotStands DEF Recording
<1>4. Book!Write(r, a, doc)
  <2>1. versions' = Append(versions, appts')
    BY <1>0 DEF WritesTo, Recording, Record
  <2>2. versions[Len(versions)] = appts
    BY <1>0 DEF VersionsKept
  <2> QED BY <2>1, <2>2 DEF WritesTo, Book!Write, Book!Latest
<1>5. k \in since[r]..Len(versions)
  BY <1>0, <1>1
<1> QED BY <1>2, <1>3, <1>4, <1>5 DEF Book!TakeSlot

\* The versions before a step of request r, and what r has to know to write.
LEMMA BookBefore ==
  ASSUME Recording, NEW r \in Requests, Handler(r)
  PROVE  /\ Book!Latest = appts
         /\ pc[r] # "idle" => since[r] # 0 /\ since' = since
         /\ pc[r] = "idle" => /\ since[r] = 0
                              /\ since' = [since EXCEPT ![r] = Len(versions)]
<1>1. /\ VersionsKept /\ ArrivalsKept /\ ArrivalsKept' /\ TypeInv
  BY ArrivalsGrow DEF Recording, BookInv, Advancing
<1>2. Book!Latest = appts
  BY <1>1 DEF VersionsKept, Book!Latest
<1>3. /\ since \in [Requests -> Nat]
      /\ since' = [x \in Requests |->
                     IF since[x] = 0 /\ pc'[x] # "idle" THEN Len(versions)
                     ELSE since[x]]
      /\ \A x \in Requests : since[x] = 0 <=> pc[x] = "idle"
  BY <1>1 DEF ArrivalsKept, Recording, Record
<1>4. pc'[r] # "idle" /\ \A x \in Requests : x # r => pc'[x] = pc[x]
  BY <1>1, HandlerPath, OthersStay
<1> QED BY <1>2, <1>3, <1>4

LEMMA InsertInBook ==
  ASSUME Recording, NEW r \in Requests, TxnInsert(r)
  PROVE  Book!Insert(r)
<1>0. /\ TypeInv /\ VersionsKept /\ Progress(r) /\ Wanted(r) /\ Unbooked
      /\ commits \in Nat /\ Len(versions) = commits + 1
  BY DEF Recording, BookInv, Advancing, TypeInv, TypeOK, VersionsKept
<1>1. /\ pc[r] = "write" /\ op[r] \in {"create", "public"} /\ r \notin wrote
      /\ appts' = [appts EXCEPT ![r] = Appointment(want[r], "PENDING")]
      /\ want[r] \in Slot
  BY <1>0 DEF TxnInsert, Progress, HasWritten, HandlerShape, TypeInv, TypeOK
<1>2. WritesTo(r, r)
  BY <1>0, <1>1 DEF TxnInsert, Wrote, WritesTo, TypeInv, TypeOK
<1>3. PICK p \in Professionals, s \in Services, t \in Times :
        want[r] = MkSlot(p, s, t)
  BY <1>0, <1>1 DEF Wanted
<1> DEFINE doc == [prof |-> p, serv |-> s, startAt |-> t,
                   endAt |-> t + Duration[s], status |-> "PENDING"]
<1>4. Appointment(want[r], "PENDING") = doc
  BY <1>3 DEF Appointment, MkSlot
<1>5. slotAt[r] = 0
  BY <1>0, <1>1 DEF Unbooked, Unborn
<1>6. Book!TakeSlot(r, r, doc)
  <2>1. /\ doc.prof = want[r].prof /\ doc.startAt = want[r].startAt
        /\ doc.endAt = want[r].endAt
    BY <1>3 DEF MkSlot
  <2>2. appts' = [appts EXCEPT ![r] = doc]
    BY <1>1, <1>4
  <2>3. Own(r) \subseteq {r}
    BY <1>1 DEF Own
  <2> HIDE DEF doc
  <2> QED BY <1>1, <1>2, <1>5, <2>1, <2>2, <2>3, SlotTakenInBook
<1>7. \A j \in 1..Len(versions) : versions[j][r] = NoDoc
  BY <1>0, <1>5 DEF VersionsKept
<1>8. since[r] # 0 /\ since' = since
  BY <1>1, BookBefore DEF Handler, Step
<1> QED BY <1>6, <1>7, <1>8 DEF Book!Insert

LEMMA MoveInBook ==
  ASSUME Recording, NEW r \in Requests, TxnMove(r), Exists(target[r])
  PROVE  Book!Move(r, target[r])
<1>0. /\ TypeInv /\ VersionsKept /\ Progress(r) /\ Wanted(r)
      /\ commits \in Nat /\ Len(versions) = commits + 1
      /\ target[r] \in Requests /\ stamp[target[r]] \in Nat /\ snap[r] \in Nat
  BY DEF Recording, BookInv, Advancing, TypeInv, TypeOK, VersionsKept
<1> DEFINE a == target[r]
<1>1. /\ pc[r] = "commit" /\ op[r] = "reschedule" /\ r \notin wrote
      /\ appts' = [appts EXCEPT ![a] = Appointment(want[r], "RESCHEDULED")]
      /\ want[r] \in Slot
  BY <1>0 DEF TxnMove, Progress, HasWritten, HandlerShape, TypeInv, TypeOK
<1>2. WritesTo(r, a)
  <2>1. slotAt[a] # 0
    BY <1>0, <1>1 DEF Progress, OnItsWay
  <2> QED
    BY <1>0, <1>1, <2>1 DEF TxnMove, Wrote, WritesTo, TypeInv, TypeOK
<1>3. PICK t \in Times : want[r] = MkSlot(appts[a].prof, appts[a].serv, t)
  BY <1>0, <1>1 DEF Wanted
<1> DEFINE doc == [prof |-> appts[a].prof, serv |-> appts[a].serv, startAt |-> t,
                   endAt |-> t + Duration[appts[a].serv],
                   status |-> "RESCHEDULED"]
<1>4. Appointment(want[r], "RESCHEDULED") = doc
  BY <1>3 DEF Appointment, MkSlot
<1>5. stamp[a] <= snap[r]
  BY <1>1 DEF Recording, BookInv, Undisturbed
<1>6. Book!TakeSlot(r, a, doc)
  <2>1. /\ doc.prof = want[r].prof /\ doc.startAt = want[r].startAt
        /\ doc.endAt = want[r].endAt
    BY <1>3 DEF MkSlot
  <2>2. appts' = [appts EXCEPT ![a] = doc]
    BY <1>1, <1>4
  <2>3. Own(r) \subseteq {a}
    BY <1>1 DEF Own
  <2> HIDE DEF doc
  <2> QED BY <1>0, <1>1, <1>2, <1>5, <2>1, <2>2, <2>3, SlotTakenInBook
<1>7. Book!Latest = appts /\ since[r] # 0 /\ since' = since
  BY <1>1, BookBefore DEF Handler, Step
<1>8. Book!Latest[a] # NoDoc
  BY <1>7 DEF Exists
<1> QED BY <1>6, <1>7, <1>8 DEF Book!Move

\* Writes that change a status or remove a document.
LEMMA WriteInBook ==
  ASSUME Recording, NEW r \in Requests, Handler(r), r \notin wrote,
         NEW a \in Requests, Wrote(r, a), NEW doc,
         appts' = [appts EXCEPT ![a] = doc]
  PROVE  Book!Write(r, a, doc)
<1>1. commits' # commits
  BY DEF Wrote, Recording, BookInv, Advancing, TypeInv, TypeOK
<1>2. versions' = Append(versions, appts')
  BY <1>1 DEF Recording, Record
<1> QED BY <1>2, BookBefore DEF Book!Write, Wrote

LEMMA CancelInBook ==
  ASSUME Recording, NEW r \in Requests, CancelSave(r), commits' # commits
  PROVE  Book!Cancel(r, target[r])
<1>1. /\ Exists(target[r]) /\ appts' = SetStatus(target[r], "CANCELLED")
      /\ Wrote(r, target[r])
  BY DEF CancelSave
<1>2. pc[r] = "save" /\ r \notin wrote /\ target[r] \in Requests
  BY DEF CancelSave, Recording, BookInv, Advancing, Progress, HasWritten,
     TypeInv, TypeOK
<1>3. Book!Latest = appts /\ since[r] # 0 /\ since' = since
  BY <1>2, BookBefore DEF Handler, Step
<1>4. Book!Write(r, target[r], [appts[target[r]] EXCEPT !.status = "CANCELLED"])
  BY <1>1, <1>2, WriteInBook DEF Handler, Step, SetStatus
<1> QED BY <1>1, <1>3, <1>4 DEF Book!Cancel, Exists

LEMMA RemoveInBook ==
  ASSUME Recording, NEW r \in Requests, Delete(r), Exists(target[r])
  PROVE  Book!Remove(r, target[r])
<1>1. appts' = [appts EXCEPT ![target[r]] = NoDoc] /\ Wrote(r, target[r])
  BY DEF Delete
<1>2. pc[r] = "delete" /\ r \notin wrote /\ target[r] \in Requests
  BY DEF Delete, Recording, BookInv, Advancing, Progress, HasWritten,
     TypeInv, TypeOK
<1>3. Book!Latest = appts /\ since[r] # 0 /\ since' = since
  BY <1>2, BookBefore DEF Handler, Step
<1>4. Book!Write(r, target[r], NoDoc)
  BY <1>1, <1>2, WriteInBook DEF Handler, Step
<1> QED BY <1>3, <1>4 DEF Book!Remove, Exists

LEMMA MarkInBook ==
  ASSUME Recording, NEW r \in Requests, UpdateInPlace(r), commits' # commits
  PROVE  \E a \in Requests : Book!Mark(r, a)
<1>1. PICK o \in {"confirm", "noShow", "notes"}, a \in KnownIds :
        /\ Exists(a) /\ appts' = SetStatus(a, NewStatus(o, appts[a].status))
        /\ Wrote(r, a)
  BY DEF UpdateInPlace
<1>2. pc[r] = "idle" /\ r \notin wrote /\ a \in Requests
  BY DEF UpdateInPlace, KnownIds, Recording, BookInv, Advancing, Progress,
     HasWritten
<1>3. /\ Book!Latest = appts /\ since[r] = 0
      /\ since' = [since EXCEPT ![r] = Len(versions)]
  BY <1>2, BookBefore DEF Handler, Arrive
<1> DEFINE st == NewStatus(o, appts[a].status)
<1>4. st \in {"CONFIRMED", "NO_SHOW", appts[a].status}
  BY DEF NewStatus
<1>5. Book!Write(r, a, [appts[a] EXCEPT !.status = st])
  BY <1>1, <1>2, WriteInBook DEF Handler, Arrive, SetStatus
<1> HIDE DEF st
<1>6. Book!Mark(r, a)
  BY <1>1, <1>3, <1>4, <1>5 DEF Book!Mark, Exists
<1> QED BY <1>2, <1>6

LEMMA QuietInBook ==
  ASSUME Recording, NEW r \in Requests, Handler(r), Quiet
  PROVE  Book!Arrive(r) \/ UNCHANGED <<versions, since, wrote>>
<1>1. versions' = versions /\ wrote' = wrote
  BY DEF Quiet, Recording, Record
<1> QED BY <1>1, BookBefore DEF Book!Arrive

LEMMA BookStep ==
  ASSUME BookInv, BookInv', [Next /\ Record]_bookVars
  PROVE  [Book!Next]_<<versions, since, wrote>>
<1> USE DEF mongo, history, mishaps
<1>1. ASSUME Record, NEW r \in Requests, Handler(r)
      PROVE  Book!Next \/ UNCHANGED <<versions, since, wrote>>
  <2>0. Recording /\ target[r] \in Requests
    BY <1>1 DEF Recording, BookInv, Advancing, TypeInv, TypeOK
  <2>1. CASE Quiet
    BY <1>1, <2>0, <2>1, QuietInBook DEF Book!Next
  <2>2. CASE TxnInsert(r)
    BY <2>0, <2>2, InsertInBook DEF Book!Next
  <2>3. CASE TxnMove(r) /\ ~Quiet
    <3>1. Exists(target[r])
      BY <2>3 DEF TxnMove, Quiet
    <3> QED BY <2>0, <2>3, <3>1, MoveInBook DEF Book!Next
  <2>4. CASE CancelSave(r) /\ ~Quiet
    <3>1. commits' # commits
      BY <2>0, <2>4 DEF CancelSave, Wrote, Quiet, Recording, BookInv, Advancing,
         TypeInv, TypeOK
    <3> QED BY <2>0, <2>4, <3>1, CancelInBook DEF Book!Next
  <2>5. CASE Delete(r) /\ ~Quiet
    <3>1. Exists(target[r])
      BY <2>5 DEF Delete, Quiet
    <3> QED BY <2>0, <2>5, <3>1, RemoveInBook DEF Book!Next
  <2>6. CASE UpdateInPlace(r) /\ ~Quiet
    <3>1. commits' # commits
      BY <2>0, <2>6 DEF UpdateInPlace, Wrote, Quiet, Recording, BookInv,
         Advancing, TypeInv, TypeOK
    <3> QED BY <2>0, <2>6, <3>1, MarkInBook DEF Book!Next
  <2>7. CASE \/ CreateValidate(r) \/ ReadTarget(r) \/ TxnFind(r) \/ TxnWrite(r)
             \/ TxnRetry(r) \/ TxnTransient(r) \/ ScheduleReminders(r) \/ RescheduleCheck(r) \/ CancelCheck(r)
             \/ ClearReminders(r) \/ Audit(r) \/ Answer(r) \/ Fail(r)
    <3>1. Quiet
      BY <2>7 DEF Quiet, CreateValidate, ReadTarget, TxnFind, TxnWrite,
         TxnRetry, TxnTransient, ScheduleReminders, RescheduleCheck, CancelCheck, ClearReminders, Audit,
         Answer, Fail
    <3> QED BY <2>1, <3>1
  <2> QED
    BY <1>1, <2>1, <2>2, <2>3, <2>4, <2>5, <2>6, <2>7 DEF Handler, Arrive, Step
<1>2. ASSUME Record, Crash \/ Tick
      PROVE  UNCHANGED <<versions, since, wrote>>
  <2>1. UNCHANGED <<commits, wrote>>
    BY <1>2 DEF Crash, Tick
  <2>2. \A x \in Requests : pc'[x] = "idle" <=> pc[x] = "idle"
    BY <1>2 DEF Crash, Tick, BookInv, Advancing, TypeInv, TypeOK
  <2>3. since' = since
    BY <1>2, <2>2 DEF Record, BookInv, ArrivalsKept
  <2> QED BY <1>2, <2>1, <2>3 DEF Record
<1>3. CASE UNCHANGED bookVars
  BY <1>3 DEF bookVars, vars
<1> QED BY <1>1, <1>2, <1>3 DEF Next, Handler

\* The handlers of AppointmentsService keep the promise of AppointmentBook, with
\* any number of them at work: whole changes, one per request, made on a slot
\* found free in one version of the book since the request came.
THEOREM ImplementsBook == VersionedSpec => BookSpec
<1>1. VersionedSpec => []BookInv
  BY InitBook, StepBook, PTL DEF VersionedSpec
<1> QED
  BY <1>1, BookInit, BookStep, PTL DEF VersionedSpec, BookSpec, Book!Spec

============================================================================
