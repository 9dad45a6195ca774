------------------------------ MODULE Catalog ------------------------------
(***************************************************************************)
(* Professionals, services and accounts, which are removed by two writes   *)
(* without a transaction, and the appointments that refer to them by id    *)
(* (ProfessionalsService, ServicesService, UsersService.remove and the     *)
(* checks of AppointmentsService).  No reference is enforced by MongoDB:   *)
(* what keeps them good is who looks at what, and in which order.          *)
(*                                                                         *)
(* Slots, transactions and reminders of appointments are in Booking and    *)
(* Reminders; here an appointment is what it refers to and how often it    *)
(* was changed.  Names, prices, rules and isActive, which only filters     *)
(* lists, are left out.                                                    *)
(***************************************************************************)
EXTENDS Naturals, FiniteSets

CONSTANTS
  Requests,
  Booked,         \* the appointments there may be at first
  Professionals,
  Services,
  Users,
  Clients,        \* the users with role CLIENT
  None            \* nothing, where a reference may be

\* An appointment is called after the request that books it.
Appts == Requests \cup Booked

ASSUME CatalogAssumption ==
  /\ Professionals # {} /\ Services # {} /\ Users # {}
  /\ Clients \subseteq Users /\ Clients # {}
  /\ Requests \cap Booked = {}
  /\ None \notin Professionals \cup Services \cup Users

Stage == {"unborn", "live", "gone"}

VARIABLES
  professional,  \* professional[p]: [stage, user, offers]
  service,       \* service[s]: its stage
  user,          \* user[u]: its stage
  appt,          \* appt[a]: [stage, public, prof, svc, client, rev]
  pc,
  job,           \* job[r]: what request r is about
  resp,
  \* --- history ---
  blind,         \* blind[p]: services p was given after they were gone
  halted,        \* services whose removal broke off after its first write
  lost           \* lost[r]: what was gone when request r began to book, of the
                 \* professional and the service it named and of the clients

catalog == <<professional, service, user>>
history == <<blind, halted, lost>>
vars == <<catalog, appt, pc, job, resp, history>>

Kinds == {"none", "public", "admin", "confirm", "cancel", "reschedule",
          "remove"}

Job == [kind: Kinds, prof: Professionals \cup {None},
        svc: Services \cup {None}, client: Users \cup {None}, appt: Appts]

TypeOK ==
  /\ professional \in [Professionals ->
                         [stage: Stage, user: Users, offers: SUBSET Services]]
  /\ service \in [Services -> Stage]
  /\ user \in [Users -> Stage]
  /\ appt \in [Appts ->
                 [stage: Stage, public: BOOLEAN, prof: Professionals \cup {None},
                  svc: Services \cup {None}, client: Users \cup {None},
                  rev: Nat]]
  /\ \A a \in Appts : appt[a].stage # "unborn" =>
       /\ appt[a].prof \in Professionals
       /\ appt[a].svc \in Services
       /\ appt[a].client \in Users
  /\ pc \in [Requests -> {"idle", "offers", "client", "insert", "check", "save",
                          "account", "pull", "written", "send", "done"}]
  /\ job \in [Requests -> Job]
  /\ resp \in [Requests -> {"none", "ok", "refused", "failed"}]
  /\ blind \in [Professionals -> SUBSET Services]
  /\ halted \subseteq Services
  /\ lost \in [Requests -> [profs: SUBSET Professionals, svcs: SUBSET Services,
                            users: SUBSET Users]]

GoneServices == {s \in Services : service[s] = "gone"}
GoneProfessionals == {p \in Professionals : professional[p].stage = "gone"}
GoneUsers == {u \in Users : user[u] = "gone"}

NoJob(r) == [kind |-> "none", prof |-> None, svc |-> None, client |-> None,
             appt |-> r]

NoAppt == [stage |-> "unborn", public |-> FALSE, prof |-> None, svc |-> None,
           client |-> None, rev |-> 0]

\* A professional refers to an account of his own and to services that are
\* there, and an appointment to what is there; clients come with their first.
Init ==
  /\ service \in [Services -> {"unborn", "live"}]
  /\ user \in [Users -> {"unborn", "live"}]
  /\ \A u \in Users \ Clients : user[u] = "live"
  /\ professional \in [Professionals ->
                         [stage: {"unborn", "live"}, user: Users \ Clients,
                          offers: SUBSET Services]]
  /\ \A p \in Professionals :
       /\ professional[p].stage = "unborn" =>
            /\ professional[p].offers = {}
            /\ professional[p].user = CHOOSE u \in Users \ Clients : TRUE
       /\ \A s \in professional[p].offers : service[s] = "live"
       /\ \A q \in Professionals \ {p} :
            professional[p].stage = "live" /\ professional[q].stage = "live"
              => professional[p].user # professional[q].user
  /\ appt \in [Appts -> {NoAppt} \cup
               [stage: {"live"}, public: BOOLEAN, prof: Professionals,
                svc: Services, client: Clients, rev: {1}]]
  /\ \A a \in Appts : appt[a].stage = "live" =>
       /\ a \in Booked
       /\ professional[appt[a].prof].stage = "live"
       /\ service[appt[a].svc] = "live"
       /\ user[appt[a].client] = "live"
  /\ pc = [r \in Requests |-> "idle"]
  /\ job = [r \in Requests |-> NoJob(r)]
  /\ resp = [r \in Requests |-> "none"]
  /\ blind = [p \in Professionals |-> {}]
  /\ halted = {}
  /\ lost = [r \in Requests |-> [profs |-> {}, svcs |-> {}, users |-> {}]]

Goto(r, step) == pc' = [pc EXCEPT ![r] = step]

Reply(r, answer) ==
  /\ Goto(r, "done")
  /\ resp' = [resp EXCEPT ![r] = answer]

\* What the request was about matters no more.
Forget(r) == job' = [job EXCEPT ![r] = NoJob(r)]

Refuse(r) == Reply(r, "refused") /\ Forget(r)

----------------------------------------------------------------------------
(* The catalogue.                                                          *)

\* An edit of the catalogue, answered at once.
Edit(r) ==
  /\ pc[r] = "idle"
  /\ UNCHANGED <<appt, job, lost>>

\* The services p is given; those new to p that are gone are remembered.
Give(p, S) ==
  LET given == S \ professional[p].offers IN
    /\ professional' = [professional EXCEPT ![p].offers = S]
    /\ blind' = [blind EXCEPT ![p] = (@ \cap S) \cup (given \cap GoneServices)]

\* Nothing checks that the account or the services exist; the unique index on
\* tenantId and userId refuses a second professional of one account.
CreateProfessional(r, p, u, S) ==
  /\ Edit(r)
  /\ professional[p].stage = "unborn"
  /\ user[u] # "unborn" /\ \A s \in S : service[s] # "unborn"
  /\ IF \E q \in Professionals :
          professional[q].stage = "live" /\ professional[q].user = u
     THEN Reply(r, "failed") /\ UNCHANGED <<professional, blind>>
     ELSE /\ professional' = [professional EXCEPT ![p] =
                                [stage |-> "live", user |-> u, offers |-> S]]
          /\ blind' = [blind EXCEPT ![p] = S \cap GoneServices]
          /\ Reply(r, "ok")
  /\ UNCHANGED <<service, user, halted>>

\* update with serviceIds, addService and removeService: S is the new set.
SetServices(r, p, S) ==
  /\ Edit(r)
  /\ \A s \in S : service[s] # "unborn"
  /\ IF professional[p].stage = "live"
     THEN Give(p, S) /\ Reply(r, "ok")
     ELSE Reply(r, "refused") /\ UNCHANGED <<professional, blind>>
  /\ UNCHANGED <<service, user, halted>>

CreateService(r, s) ==
  /\ Edit(r)
  /\ service[s] = "unborn"
  /\ service' = [service EXCEPT ![s] = "live"]
  /\ Reply(r, "ok")
  /\ UNCHANGED <<professional, user, blind, halted>>

\* The professional goes first, then the account in the copy that was deleted.
RemoveProfessional(r, p) ==
  /\ pc[r] = "idle"
  /\ IF professional[p].stage = "live"
     THEN /\ professional' = [professional EXCEPT ![p].stage = "gone"]
          /\ job' = [job EXCEPT ![r].prof = p]
          /\ Goto(r, "account")
          /\ UNCHANGED resp
     ELSE Refuse(r) /\ UNCHANGED professional
  /\ UNCHANGED <<service, user, appt, history>>

RemoveAccount(r) ==
  /\ pc[r] = "account"
  /\ user' = [user EXCEPT ![professional[job[r].prof].user] = "gone"]
  /\ Reply(r, "ok")
  /\ Forget(r)
  /\ UNCHANGED <<professional, service, appt, history>>

\* The service goes first, then the references to it.
RemoveService(r, s) ==
  /\ pc[r] = "idle"
  /\ IF service[s] = "live"
     THEN /\ service' = [service EXCEPT ![s] = "gone"]
          /\ job' = [job EXCEPT ![r].svc = s]
          /\ Goto(r, "pull")
          /\ UNCHANGED resp
     ELSE Refuse(r) /\ UNCHANGED service
  /\ UNCHANGED <<professional, user, appt, history>>

\* Seeded fault: the references are taken out of one professional only.
PullOne(r) ==
  /\ pc[r] = "pull"
  /\ \E p \in Professionals :
       /\ professional' = [professional EXCEPT ![p].offers = @ \ {job[r].svc}]
       /\ blind' = [blind EXCEPT ![p] = @ \ {job[r].svc}]
  /\ Reply(r, "ok")
  /\ Forget(r)
  /\ UNCHANGED <<service, user, appt, halted, lost>>

\* The references are taken out of all professionals, also those that are
\* given the service anew before the statement gets to them.
Pull(r) ==
  /\ pc[r] = "pull"
  /\ professional' = [p \in Professionals |->
       IF professional[p].stage = "live"
       THEN [professional[p] EXCEPT !.offers = @ \ {job[r].svc}]
       ELSE professional[p]]
  /\ blind' = [p \in Professionals |-> blind[p] \ {job[r].svc}]
  /\ Reply(r, "ok")
  /\ Forget(r)
  /\ UNCHANGED <<service, user, appt, halted, lost>>

\* An account goes without a look at the professional or the appointments that
\* refer to it.
RemoveUser(r, u) ==
  /\ Edit(r)
  /\ IF user[u] = "live"
     THEN user' = [user EXCEPT ![u] = "gone"] /\ Reply(r, "ok")
     ELSE Reply(r, "refused") /\ UNCHANGED user
  /\ UNCHANGED <<professional, service, blind, halted>>

----------------------------------------------------------------------------
(* Booking.                                                                *)

\* What a request to book is about, and what is gone when it begins.
Ask(r, kind, p, s, u) ==
  /\ job' = [job EXCEPT ![r] = [kind |-> kind, prof |-> p, svc |-> s,
                                client |-> u, appt |-> r]]
  /\ lost' = [lost EXCEPT ![r] = [profs |-> {p} \cap GoneProfessionals,
                                  svcs |-> {s} \cap GoneServices,
                                  users |-> Clients \cap GoneUsers]]
  /\ UNCHANGED resp

\* The ids a request names have been there at some time.
Names(r, p, s) ==
  pc[r] = "idle" /\ professional[p].stage # "unborn" /\ service[s] # "unborn"

\* Seeded fault: what the professional offers is taken for granted.
BookPublicOnTrust(r, p, s) ==
  /\ Names(r, p, s)
  /\ IF professional[p].stage = "live"
     THEN Ask(r, "public", p, s, None) /\ Goto(r, "offers")
     ELSE Refuse(r) /\ UNCHANGED lost
  /\ UNCHANGED <<catalog, appt, blind, halted>>

\* A guest names a professional and a service; both are looked up.
BookPublic(r, p, s) ==
  /\ Names(r, p, s)
  /\ IF professional[p].stage = "live" /\ service[s] = "live"
     THEN Ask(r, "public", p, s, None) /\ Goto(r, "offers")
     ELSE Refuse(r) /\ UNCHANGED lost
  /\ UNCHANGED <<catalog, appt, blind, halted>>

\* offersService looks again at the professional; the slot may be taken.
Offers(r) ==
  /\ pc[r] = "offers"
  /\ \/ /\ professional[job[r].prof].stage = "live"
        /\ job[r].svc \in professional[job[r].prof].offers
        /\ Goto(r, "client")
        /\ UNCHANGED <<job, resp>>
     \/ Refuse(r)
  /\ UNCHANGED <<catalog, appt, history>>

\* Seeded fault: the account of the guest is not handed on.
ClientUnrecorded(r) ==
  /\ pc[r] = "client"
  /\ \E u \in Clients :
       /\ user[u] # "gone"
       /\ user' = [user EXCEPT ![u] = "live"]
  /\ Goto(r, "insert")
  /\ UNCHANGED <<professional, service, appt, job, resp, history>>

\* findOrCreateClientForTenant: the guest's account, made when there is none.
\* An email of somebody who is not a client is refused.
Client(r) ==
  /\ pc[r] = "client"
  /\ \/ \E u \in Clients :
          /\ user[u] # "gone"
          /\ user' = [user EXCEPT ![u] = "live"]
          /\ job' = [job EXCEPT ![r].client = u]
          /\ Goto(r, "insert")
          /\ UNCHANGED resp
     \/ Refuse(r) /\ UNCHANGED user
  /\ UNCHANGED <<professional, service, appt, history>>

\* A member of the staff names the client too; only the service is looked up.
BookAdmin(r, p, s, u) ==
  /\ Names(r, p, s) /\ user[u] # "unborn"
  /\ IF service[s] = "live"
     THEN Ask(r, "admin", p, s, u) /\ Goto(r, "insert")
     ELSE Refuse(r) /\ UNCHANGED lost
  /\ UNCHANGED <<catalog, appt, blind, halted>>

\* The transaction of Booking: it commits, or the slot is taken.  The staff may
\* say that the appointment came from the client.
Insert(r) ==
  /\ pc[r] = "insert"
  /\ \/ /\ \E public \in BOOLEAN :
            /\ job[r].kind = "public" => public
            /\ appt' = [appt EXCEPT ![r] =
                 [stage |-> "live", public |-> public, prof |-> job[r].prof,
                  svc |-> job[r].svc, client |-> job[r].client, rev |-> 1]]
        /\ Goto(r, "written")
        /\ UNCHANGED <<job, resp>>
     \/ Refuse(r) /\ UNCHANGED appt
  /\ UNCHANGED <<catalog, history>>

----------------------------------------------------------------------------
(* Appointments that exist.                                                *)

\* Request r may name appointment a, which has been there at some time.
Knows(r, a) == pc[r] = "idle" /\ appt[a].stage # "unborn"

About(r, kind, a) == job' = [job EXCEPT ![r].kind = kind, ![r].appt = a]

\* A write, of which somebody is to be told.
Wrote(r, a) ==
  /\ appt' = [appt EXCEPT ![a].rev = @ + 1]
  /\ Goto(r, "written")
  /\ UNCHANGED resp

\* confirm: one write, whatever the appointment refers to.
Confirm(r, a) ==
  /\ Knows(r, a)
  /\ IF appt[a].stage = "live"
     THEN About(r, "confirm", a) /\ Wrote(r, a)
     ELSE Refuse(r) /\ UNCHANGED appt
  /\ UNCHANGED <<catalog, history>>

\* markNoShow tells nobody.
NoShow(r, a) ==
  /\ Knows(r, a)
  /\ IF appt[a].stage = "live"
     THEN appt' = [appt EXCEPT ![a].rev = @ + 1] /\ Reply(r, "ok") /\ Forget(r)
     ELSE Refuse(r) /\ UNCHANGED appt
  /\ UNCHANGED <<catalog, history>>

\* cancel and reschedule read the appointment first, remove reads and deletes.
Read(r, kind, a) ==
  /\ kind \in {"cancel", "reschedule", "remove"}
  /\ Knows(r, a)
  /\ IF appt[a].stage = "live"
     THEN About(r, kind, a) /\ Goto(r, "check") /\ UNCHANGED resp
     ELSE Refuse(r)
  /\ UNCHANGED <<catalog, appt, history>>

\* cancel needs the professional for his rules, reschedule the service as well;
\* the rules themselves, the schedule and the other appointments may refuse.
Check(r) ==
  /\ pc[r] = "check"
  /\ job[r].kind \in {"cancel", "reschedule"}
  /\ LET a == appt[job[r].appt] IN
     \/ /\ professional[a.prof].stage = "live"
        /\ job[r].kind = "reschedule" => service[a.svc] = "live"
        /\ Goto(r, "save")
        /\ UNCHANGED <<job, resp>>
     \/ Refuse(r)
  /\ UNCHANGED <<catalog, appt, history>>

Delete(r) ==
  /\ pc[r] = "check"
  /\ job[r].kind = "remove"
  /\ appt' = [appt EXCEPT ![job[r].appt].stage = "gone"]
  /\ Reply(r, "ok")
  /\ Forget(r)
  /\ UNCHANGED <<catalog, history>>

\* save() of a copy that was cancelled already writes nothing, and fails when
\* the appointment is gone; the update of reschedule does nothing then.
Save(r) ==
  /\ pc[r] = "save"
  /\ LET a == job[r].appt IN
     \/ appt[a].stage = "live" /\ Wrote(r, a) /\ UNCHANGED job
     \/ /\ job[r].kind = "cancel" => appt[a].stage = "live"
        /\ job[r].kind = "reschedule" => appt[a].stage = "gone"
        /\ Goto(r, "written")
        /\ UNCHANGED <<appt, job, resp>>
     \/ /\ job[r].kind = "cancel" /\ appt[a].stage = "gone"
        /\ Reply(r, "failed") /\ Forget(r)
        /\ UNCHANGED appt
  /\ UNCHANGED <<catalog, history>>

\* reschedule reads the appointment once more for its answer.
Answer(r) ==
  /\ pc[r] = "written"
  /\ IF job[r].kind = "reschedule" /\ appt[job[r].appt].stage = "gone"
     THEN Reply(r, "refused")
     ELSE Reply(r, "ok")
  /\ UNCHANGED <<catalog, appt, job, history>>

\* A database error, or the end of the process, between two steps.
Fail(r) ==
  /\ pc[r] \notin {"idle", "done"}
  /\ Reply(r, "failed")
  /\ halted' = IF pc[r] = "pull" THEN halted \cup {job[r].svc} ELSE halted
  /\ IF pc[r] = "written" THEN UNCHANGED job ELSE Forget(r)
  /\ UNCHANGED <<catalog, appt, blind, lost>>

EditCatalogue(r) ==
  \/ \E p \in Professionals :
       \/ RemoveProfessional(r, p)
       \/ \E S \in SUBSET Services :
            \/ SetServices(r, p, S)
            \/ \E u \in Users : CreateProfessional(r, p, u, S)
  \/ RemoveAccount(r)
  \/ \E s \in Services : CreateService(r, s) \/ RemoveService(r, s)
  \/ Pull(r)
  \/ \E u \in Users : RemoveUser(r, u)

Book(r) ==
  \/ \E p \in Professionals, s \in Services :
       \/ BookPublic(r, p, s)
       \/ \E u \in Users : BookAdmin(r, p, s, u)
  \/ Offers(r) \/ Client(r) \/ Insert(r)

Change(r) ==
  \/ \E a \in Appts :
       \/ Confirm(r, a) \/ NoShow(r, a)
       \/ \E kind \in {"cancel", "reschedule", "remove"} : Read(r, kind, a)
  \/ Check(r) \/ Delete(r) \/ Save(r)

Next ==
  \E r \in Requests : EditCatalogue(r) \/ Book(r) \/ Change(r) \/ Answer(r)
                       \/ Fail(r)

Spec == Init /\ [][Next]_vars

----------------------------------------------------------------------------
(* Properties.                                                             *)

\* ServicesService.remove deletes the service before it takes the references
\* out, and nothing checks a service that is assigned.  A professional offers
\* a service that is gone only while its removal is under way or after it
\* broke off, or because he was given it when it was gone already.
BlindOffersOnly ==
  \A p \in Professionals : professional[p].stage = "live" =>
    \A s \in professional[p].offers \cap GoneServices :
      \/ s \in blind[p] \cup halted
      \/ \E r \in Requests : pc[r] = "pull" /\ job[r].svc = s

\* The checks of create and createPublic are a read each, and anything may be
\* removed between them and the insert.  Still, a guest's appointment refers
\* to nothing that was gone before he asked for it, a dangling offer included;
\* one made by the staff has a service that was there.
BookedWasThere ==
  \A r \in Requests : appt[r].stage # "unborn" =>
    /\ appt[r].svc \notin lost[r].svcs
    /\ job[r].kind = "public" => /\ appt[r].prof \notin lost[r].profs
                                 /\ appt[r].client \notin lost[r].users
============================================================================
