-------------------------- MODULE AppointmentBook --------------------------
(***************************************************************************)
(* What the handlers of AppointmentsService promise together about the     *)
(* book of appointments.  The book goes through versions, one entry        *)
(* changing at a time, and each request changes it at most once.  Whoever  *)
(* takes a slot has found it free in ONE version, not older than the       *)
(* request and not necessarily the latest, and the entry it writes has not *)
(* been touched since that version (snapshot isolation).  An entry that    *)
(* was removed never comes back.                                           *)
(***************************************************************************)
EXTENDS Integers, Sequences

CONSTANTS Requests, Professionals, Services, Times, Duration, NoDoc

VARIABLES
  versions,  \* all versions of the book, the latest at the end
  since,     \* since[r]: the number of versions when request r came, or 0
  served     \* requests that changed the book

Init ==
  /\ versions = <<[a \in Requests |-> NoDoc]>>
  /\ since = [r \in Requests |-> 0]
  /\ served = {}

Latest == versions[Len(versions)]

\* In version k nobody but a holds a part of the time of slot as a PENDING or
\* CONFIRMED appointment.
Free(k, a, slot) ==
  \A b \in Requests \ {a} :
    LET d == versions[k][b] IN
      (d # NoDoc /\ d.prof = slot.prof /\ d.status \in {"PENDING", "CONFIRMED"})
        => d.endAt <= slot.startAt \/ slot.endAt <= d.startAt

\* Entry a is as it was in version k.
Untouched(k, a) == \A j \in k..Len(versions) : versions[j][a] = versions[k][a]

Write(r, a, doc) ==
  /\ r \notin served
  /\ served' = served \cup {r}
  /\ versions' = Append(versions, [Latest EXCEPT ![a] = doc])

TakeSlot(r, a, doc) ==
  /\ Write(r, a, doc)
  /\ \E k \in since[r]..Len(versions) : Free(k, a, doc) /\ Untouched(k, a)

Arrive(r) ==
  /\ since[r] = 0
  /\ since' = [since EXCEPT ![r] = Len(versions)]
  /\ UNCHANGED <<versions, served>>

Insert(r) ==
  /\ since[r] # 0
  /\ \A j \in 1..Len(versions) : versions[j][r] = NoDoc
  /\ \E p \in Professionals, s \in Services, t \in Times :
       TakeSlot(r, r, [prof |-> p, serv |-> s, startAt |-> t,
                       endAt |-> t + Duration[s], status |-> "PENDING"])
  /\ UNCHANGED since

Move(r, a) ==
  /\ since[r] # 0
  /\ Latest[a] # NoDoc
  /\ \E t \in Times :
       TakeSlot(r, a, [prof |-> Latest[a].prof, serv |-> Latest[a].serv,
                       startAt |-> t, endAt |-> t + Duration[Latest[a].serv],
                       status |-> "RESCHEDULED"])
  /\ UNCHANGED since

Cancel(r, a) ==
  /\ since[r] # 0
  /\ Latest[a] # NoDoc
  /\ Write(r, a, [Latest[a] EXCEPT !.status = "CANCELLED"])
  /\ UNCHANGED since

\* confirm, markNoShow and updateNotes take effect as they arrive.
Mark(r, a) ==
  /\ since[r] = 0
  /\ Latest[a] # NoDoc
  /\ \E st \in {"CONFIRMED", "NO_SHOW", Latest[a].status} :
       Write(r, a, [Latest[a] EXCEPT !.status = st])
  /\ since' = [since EXCEPT ![r] = Len(versions)]

Remove(r, a) ==
  /\ since[r] # 0
  /\ Latest[a] # NoDoc
  /\ Write(r, a, NoDoc)
  /\ UNCHANGED since

Next ==
  \E r \in Requests :
    \/ Arrive(r) \/ Insert(r)
    \/ \E a \in Requests : Move(r, a) \/ Cancel(r, a) \/ Mark(r, a) \/ Remove(r, a)

Spec == Init /\ [][Next]_<<versions, since, served>>
============================================================================
