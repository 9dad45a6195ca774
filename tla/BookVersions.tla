---------------------------- MODULE BookVersions ----------------------------
(***************************************************************************)
(* Booking with its past written down: the versions the collection of      *)
(* appointments went through, the version each request arrived at, and how *)
(* often its transaction was run again.  These are history variables; no   *)
(* handler reads them.  With them the handlers are seen to implement       *)
(* AppointmentBook.                                                        *)
(***************************************************************************)
EXTENDS Booking, Sequences

VARIABLES
  versions,  \* all versions of the collection, the latest at the end
  since,     \* since[r]: the number of versions when r arrived, or 0
  retries    \* retries[r]: how often withTransaction ran its callback again because
             \* the document had been written since the snapshot

Recorded ==
  /\ versions = <<appts>>
  /\ since = [r \in Requests |-> 0]
  /\ retries = [r \in Requests |-> 0]

Record ==
  /\ versions' = IF commits' = commits THEN versions ELSE Append(versions, appts')
  /\ since' = [r \in Requests |->
                 IF since[r] = 0 /\ pc'[r] # "idle" THEN Len(versions)
                 ELSE since[r]]
  /\ retries' = [r \in Requests |->
                   IF /\ op[r] = "reschedule" /\ Overtaken(r)
                      /\ pc[r] = "write" /\ pc'[r] = "find"
                   THEN retries[r] + 1
                   ELSE retries[r]]

bookVars == <<vars, versions, since, retries>>

VersionedSpec == Init /\ Recorded /\ [][Next /\ Record]_bookVars

Book == INSTANCE AppointmentBook WITH served <- wrote

\* The handlers implement the book that AppointmentBook promises: every change
\* of the collection is one whole operation, made at most once per request, and
\* whoever takes a slot found it free in one version not older than the request
\* with the entry it writes untouched since (the sessions and transactions of
\* create, createPublicByTenantSlug and reschedule).
BookSpec == Book!Spec

\* Each time withTransaction runs the callback of reschedule again because the
\* appointment was written after its snapshot, a request that is neither the
\* mover nor the one that booked the appointment has committed a write, and
\* each such write is paid with once: committed changes cannot keep two handlers
\* busy for ever.  Not counted are the reruns that no commit causes: a clash
\* with a transaction still open, and transient errors.
RetriesPaidFor ==
  \A r \in Requests : retries[r] <= Cardinality(wrote \ {r, target[r]})
============================================================================
