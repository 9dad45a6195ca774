--------------------------- MODULE CatalogProofs ---------------------------
(* Proofs about Catalog, for any number of requests, professionals,          *)
(* services, users and appointments.                                         *)
EXTENDS Catalog, TLAPS

Act(r) == EditCatalogue(r) \/ Book(r) \/ Change(r) \/ Answer(r) \/ Fail(r)

Professional == [stage: Stage, user: Users, offers: SUBSET Services]

Appointment == [stage: Stage, public: BOOLEAN, prof: Professionals \cup {None},
                svc: Services \cup {None}, client: Users \cup {None}, rev: Nat]

Lost == [profs: SUBSET Professionals, svcs: SUBSET Services,
         users: SUBSET Users]

Steps == {"idle", "offers", "client", "insert", "check", "save", "account",
          "pull", "written", "send", "done"}

Answers == {"none", "ok", "refused", "failed"}

----------------------------------------------------------------------------
(* Types.  A step that follows a reference in job[r] must know that it is    *)
(* one, and a write to an appointment that the appointment is there.         *)

CarriedBy(r) ==
  /\ pc[r] \in {"account", "offers", "client", "insert"} =>
       job[r].prof \in Professionals
  /\ pc[r] \in {"pull", "offers", "client", "insert"} =>
       job[r].svc \in Services
  /\ pc[r] = "insert" => job[r].client \in Users
  /\ pc[r] \in {"check", "save"} => appt[job[r].appt].stage # "unborn"

Carried == \A r \in Requests : CarriedBy(r)

Referring ==
  \A a \in Appts : appt[a].stage # "unborn" => /\ appt[a].prof \in Professionals
                                               /\ appt[a].svc \in Services
                                               /\ appt[a].client \in Users

TypeInv == TypeOK /\ Carried

LEMMA Typed ==
  ASSUME TypeInv
  PROVE  /\ professional \in [Professionals -> Professional]
         /\ service \in [Services -> Stage]
         /\ user \in [Users -> Stage]
         /\ appt \in [Appts -> Appointment]
         /\ pc \in [Requests -> Steps]
         /\ job \in [Requests -> Job]
         /\ resp \in [Requests -> Answers]
         /\ blind \in [Professionals -> SUBSET Services]
         /\ halted \subseteq Services
         /\ lost \in [Requests -> Lost]
  BY DEF TypeInv, TypeOK, Professional, Appointment, Steps, Answers, Lost

LEMMA ProfessionalSet ==
  ASSUME NEW q \in Professional
  PROVE  /\ \A S \in SUBSET Services : [q EXCEPT !.offers = S] \in Professional
         /\ [q EXCEPT !.stage = "gone"] \in Professional
         /\ \A u \in Users, S \in SUBSET Services :
              [stage |-> "live", user |-> u, offers |-> S] \in Professional
  BY DEF Professional, Stage

LEMMA JobSet ==
  /\ \A r \in Requests : NoJob(r) \in Job
  /\ \A j \in Job, p \in Professionals : [j EXCEPT !.prof = p] \in Job
  /\ \A j \in Job, s \in Services : [j EXCEPT !.svc = s] \in Job
  /\ \A j \in Job, u \in Users : [j EXCEPT !.client = u] \in Job
  /\ \A j \in Job, k \in Kinds, a \in Appts :
       [j EXCEPT !.kind = k, !.appt = a] \in Job
  /\ \A k \in Kinds, p \in Professionals, s \in Services,
        u \in Users \cup {None}, r \in Requests :
       [kind |-> k, prof |-> p, svc |-> s, client |-> u, appt |-> r] \in Job
  BY DEF NoJob, Job, Kinds, Appts

LEMMA AppointmentSet ==
  /\ \A a \in Appointment : [a EXCEPT !.rev = @ + 1] \in Appointment
  /\ \A a \in Appointment : [a EXCEPT !.stage = "gone"] \in Appointment
  /\ \A public \in BOOLEAN, j \in Job :
       [stage |-> "live", public |-> public, prof |-> j.prof, svc |-> j.svc,
        client |-> j.client, rev |-> 1] \in Appointment
  BY DEF Appointment, Stage, Job

----------------------------------------------------------------------------
(* What a step of request r does to the requests, to the appointments and    *)
(* to the catalogue, whatever step it is.                                    *)

\* It moves on, answers or not, and perhaps is about something else.
Moves(r) ==
  \E step \in Steps, answer \in Answers, j \in Job :
    /\ pc' = [pc EXCEPT ![r] = step]
    /\ resp' = [resp EXCEPT ![r] = answer]
    /\ job' = [job EXCEPT ![r] = j]

LEMMA MovesIntro ==
  ASSUME TypeInv, NEW r \in Requests, NEW step \in Steps, Goto(r, step),
         \/ UNCHANGED resp
         \/ \E answer \in Answers : resp' = [resp EXCEPT ![r] = answer],
         \E j \in Job : job' = [job EXCEPT ![r] = j]
  PROVE  Moves(r)
<1>1. \E answer \in Answers : resp' = [resp EXCEPT ![r] = answer]
  <2>1. CASE UNCHANGED resp
    <3>1. resp' = [resp EXCEPT ![r] = resp[r]] /\ resp[r] \in Answers
      BY <2>1, Typed
    <3> QED BY <3>1
  <2> QED BY <2>1
<1> QED BY <1>1 DEF Moves, Goto

LEMMA ReplyMoves ==
  ASSUME TypeInv, NEW r \in Requests, NEW answer \in Answers, Reply(r, answer),
         \/ UNCHANGED job
         \/ Forget(r)
  PROVE  Moves(r)
<1>1. \E j \in Job : job' = [job EXCEPT ![r] = j]
  <2>1. CASE UNCHANGED job
    <3>1. job' = [job EXCEPT ![r] = job[r]] /\ job[r] \in Job
      BY <2>1, Typed
    <3> QED BY <3>1
  <2>2. CASE Forget(r)
    BY <2>2, JobSet DEF Forget
  <2> QED BY <2>1, <2>2
<1>2. Goto(r, "done") /\ resp' = [resp EXCEPT ![r] = answer] /\ "done" \in Steps
  BY DEF Reply, Steps
<1> QED BY <1>1, <1>2, MovesIntro

LEMMA RefuseMoves ==
  ASSUME TypeInv, NEW r \in Requests, Refuse(r)
  PROVE  Moves(r)
  BY ReplyMoves DEF Refuse, Answers

\* A request that goes on to another step, about j.
LEMMA GoesOn ==
  ASSUME TypeInv, NEW r \in Requests, NEW step \in Steps, Goto(r, step),
         UNCHANGED resp, NEW j \in Job,
         job' = [job EXCEPT ![r] = j] \/ UNCHANGED job
  PROVE  Moves(r)
<1>1. job[r] \in Job /\ job = [job EXCEPT ![r] = job[r]]
  BY Typed
<1>2. \E i \in Job : job' = [job EXCEPT ![r] = i]
  BY <1>1
<1> QED BY <1>2, MovesIntro

LEMMA EachMoves ==
  ASSUME TypeInv, NEW r \in Requests, Act(r)
  PROVE  Moves(r)
<1>j. job[r] \in Job
  BY Typed
<1>1. ASSUME NEW p \in Professionals, NEW u \in Users,
             NEW S \in SUBSET Services, CreateProfessional(r, p, u, S)
      PROVE  Moves(r)
  BY <1>1, ReplyMoves DEF CreateProfessional, Edit, Answers
<1>2. ASSUME NEW p \in Professionals, NEW S \in SUBSET Services,
             SetServices(r, p, S)
      PROVE  Moves(r)
  BY <1>2, ReplyMoves DEF SetServices, Edit, Answers
<1>3. ASSUME NEW s \in Services, CreateService(r, s) PROVE Moves(r)
  BY <1>3, ReplyMoves DEF CreateService, Edit, Answers
<1>4. ASSUME NEW p \in Professionals, RemoveProfessional(r, p) PROVE Moves(r)
  <2>1. [job[r] EXCEPT !.prof = p] \in Job
    BY <1>j, JobSet
  <2>2. \/ Refuse(r)
        \/ /\ job' = [job EXCEPT ![r] = [job[r] EXCEPT !.prof = p]]
           /\ Goto(r, "account") /\ UNCHANGED resp
    BY <1>4 DEF RemoveProfessional
  <2> QED BY <2>1, <2>2, GoesOn, RefuseMoves DEF Steps
<1>5. ASSUME RemoveAccount(r) PROVE Moves(r)
  BY <1>5, ReplyMoves DEF RemoveAccount, Answers
<1>6. ASSUME NEW s \in Services, RemoveService(r, s) PROVE Moves(r)
  <2>1. [job[r] EXCEPT !.svc = s] \in Job
    BY <1>j, JobSet
  <2>2. \/ Refuse(r)
        \/ /\ job' = [job EXCEPT ![r] = [job[r] EXCEPT !.svc = s]]
           /\ Goto(r, "pull") /\ UNCHANGED resp
    BY <1>6 DEF RemoveService
  <2> QED BY <2>1, <2>2, GoesOn, RefuseMoves DEF Steps
<1>7. ASSUME Pull(r) PROVE Moves(r)
  BY <1>7, ReplyMoves DEF Pull, Answers
<1>8. ASSUME NEW u \in Users, RemoveUser(r, u) PROVE Moves(r)
  BY <1>8, ReplyMoves DEF RemoveUser, Edit, Answers
<1>9. ASSUME NEW p \in Professionals, NEW s \in Services, BookPublic(r, p, s)
      PROVE  Moves(r)
  <2> DEFINE j == [kind |-> "public", prof |-> p, svc |-> s, client |-> None,
                   appt |-> r]
  <2>1. j \in Job
    BY JobSet DEF Kinds
  <2>2. \/ Refuse(r)
        \/ job' = [job EXCEPT ![r] = j] /\ Goto(r, "offers") /\ UNCHANGED resp
    BY <1>9 DEF BookPublic, Ask
  <2> HIDE DEF j
  <2> QED BY <2>1, <2>2, GoesOn, RefuseMoves DEF Steps
<1>10. ASSUME NEW p \in Professionals, NEW s \in Services, NEW u \in Users,
              BookAdmin(r, p, s, u)
       PROVE  Moves(r)
  <2> DEFINE j == [kind |-> "admin", prof |-> p, svc |-> s, client |-> u,
                   appt |-> r]
  <2>1. j \in Job
    BY JobSet DEF Kinds
  <2>2. \/ Refuse(r)
        \/ job' = [job EXCEPT ![r] = j] /\ Goto(r, "insert") /\ UNCHANGED resp
    BY <1>10 DEF BookAdmin, Ask
  <2> HIDE DEF j
  <2> QED BY <2>1, <2>2, GoesOn, RefuseMoves DEF Steps
<1>11. ASSUME Offers(r) PROVE Moves(r)
  <2>1. \/ Refuse(r)
        \/ Goto(r, "client") /\ UNCHANGED <<job, resp>>
    BY <1>11 DEF Offers
  <2> QED BY <1>j, <2>1, GoesOn, RefuseMoves DEF Steps
<1>12. ASSUME Client(r) PROVE Moves(r)
  <2>1. CASE Refuse(r)
    BY <2>1, RefuseMoves
  <2>2. ASSUME NEW u \in Clients,
               job' = [job EXCEPT ![r].client = u], Goto(r, "insert"),
               UNCHANGED resp
        PROVE  Moves(r)
    <3>1. [job[r] EXCEPT !.client = u] \in Job
      BY <1>j, JobSet, CatalogAssumption
    <3>2. job' = [job EXCEPT ![r] = [job[r] EXCEPT !.client = u]]
      BY <2>2
    <3> QED BY <2>2, <3>1, <3>2, GoesOn DEF Steps
  <2> QED BY <1>12, <2>1, <2>2 DEF Client
<1>13. ASSUME Insert(r) PROVE Moves(r)
  <2>1. \/ Refuse(r)
        \/ Goto(r, "written") /\ UNCHANGED <<job, resp>>
    BY <1>13 DEF Insert
  <2> QED BY <1>j, <2>1, GoesOn, RefuseMoves DEF Steps
<1>14. ASSUME NEW a \in Appts, Confirm(r, a) PROVE Moves(r)
  <2>1. [job[r] EXCEPT !.kind = "confirm", !.appt = a] \in Job
    BY <1>j, JobSet DEF Kinds
  <2>2. \/ Refuse(r)
        \/ /\ job' = [job EXCEPT ![r] =
                        [job[r] EXCEPT !.kind = "confirm", !.appt = a]]
           /\ Goto(r, "written") /\ UNCHANGED resp
    BY <1>14, Typed DEF Confirm, About, Wrote
  <2> QED BY <2>1, <2>2, GoesOn, RefuseMoves DEF Steps
<1>15. ASSUME NEW a \in Appts, NoShow(r, a) PROVE Moves(r)
  BY <1>15, ReplyMoves, RefuseMoves DEF NoShow, Answers
<1>16. ASSUME NEW a \in Appts, NEW kind \in {"cancel", "reschedule", "remove"},
              Read(r, kind, a)
       PROVE  Moves(r)
  <2>1. [job[r] EXCEPT !.kind = kind, !.appt = a] \in Job
    BY <1>j, JobSet DEF Kinds
  <2>2. \/ Refuse(r)
        \/ /\ job' = [job EXCEPT ![r] =
                        [job[r] EXCEPT !.kind = kind, !.appt = a]]
           /\ Goto(r, "check") /\ UNCHANGED resp
    BY <1>16, Typed DEF Read, About
  <2> QED BY <2>1, <2>2, GoesOn, RefuseMoves DEF Steps
<1>17. ASSUME Check(r) PROVE Moves(r)
  <2>1. \/ Refuse(r)
        \/ Goto(r, "save") /\ UNCHANGED <<job, resp>>
    BY <1>17 DEF Check
  <2> QED BY <1>j, <2>1, GoesOn, RefuseMoves DEF Steps
<1>18. ASSUME Delete(r) PROVE Moves(r)
  BY <1>18, ReplyMoves DEF Delete, Answers
<1>19. ASSUME Save(r) PROVE Moves(r)
  <2>1. \/ Goto(r, "written") /\ UNCHANGED <<job, resp>>
        \/ Reply(r, "failed") /\ Forget(r)
    BY <1>19 DEF Save, Wrote
  <2> QED BY <1>j, <2>1, GoesOn, ReplyMoves DEF Steps, Answers
<1>20. ASSUME Answer(r) PROVE Moves(r)
  BY <1>20, ReplyMoves DEF Answer, Answers
<1>21. ASSUME Fail(r) PROVE Moves(r)
  BY <1>21, ReplyMoves DEF Fail, Answers
<1> QED
  BY <1>1, <1>2, <1>3, <1>4, <1>5, <1>6, <1>7, <1>8, <1>9, <1>10, <1>11, <1>12,
     <1>13, <1>14, <1>15, <1>16, <1>17, <1>18, <1>19, <1>20, <1>21
     DEF Act, EditCatalogue, Book, Change

----------------------------------------------------------------------------

\* It makes an appointment of its own, changes or removes one, or neither.
Keeps(r) ==
  \/ UNCHANGED appt
  \/ /\ pc[r] = "insert"
     /\ \E public \in BOOLEAN :
          appt' = [appt EXCEPT ![r] =
            [stage |-> "live", public |-> public, prof |-> job[r].prof,
             svc |-> job[r].svc, client |-> job[r].client, rev |-> 1]]
  \/ \E a \in Appts :
       /\ appt[a].stage # "unborn"
       /\ \/ appt' = [appt EXCEPT ![a] = [appt[a] EXCEPT !.rev = @ + 1]]
          \/ appt' = [appt EXCEPT ![a] = [appt[a] EXCEPT !.stage = "gone"]]

LEMMA EachKeeps ==
  ASSUME TypeInv, NEW r \in Requests, Act(r)
  PROVE  Keeps(r)
<1>1. CASE EditCatalogue(r)
  BY <1>1 DEF EditCatalogue, CreateProfessional, SetServices, CreateService,
              RemoveProfessional, RemoveAccount, RemoveService, Pull, RemoveUser,
              Edit, Keeps
<1>2. CASE Book(r)
  <2>1. CASE Insert(r)
    BY <2>1 DEF Insert, Keeps
  <2> QED BY <1>2, <2>1 DEF Book, BookPublic, BookAdmin, Offers, Client, Keeps
<1>3. CASE Change(r)
  <2>1. ASSUME NEW a \in Appts, Confirm(r, a) \/ NoShow(r, a) PROVE Keeps(r)
    <3>1. CASE UNCHANGED appt
      BY <3>1 DEF Keeps
    <3>2. CASE appt[a].stage = "live"
      BY <2>1, <3>2 DEF Confirm, NoShow, Wrote, Keeps
    <3> QED BY <2>1, <3>1, <3>2 DEF Confirm, NoShow
  <2>2. CASE Delete(r)
    <3>1. appt[job[r].appt].stage # "unborn"
      BY <2>2 DEF Delete, TypeInv, Carried, CarriedBy
    <3>2. job[r].appt \in Appts
      BY Typed DEF Job
    <3> QED BY <2>2, <3>1, <3>2 DEF Delete, Keeps
  <2>3. CASE Save(r)
    <3>1. job[r].appt \in Appts
      BY Typed DEF Job
    <3>2. CASE UNCHANGED appt
      BY <3>2 DEF Keeps
    <3>3. CASE appt[job[r].appt].stage = "live" /\ Wrote(r, job[r].appt)
      BY <3>1, <3>3 DEF Wrote, Keeps
    <3> QED BY <2>3, <3>2, <3>3 DEF Save
  <2> QED BY <1>3, <2>1, <2>2, <2>3 DEF Change, Read, Check, catalog, Keeps
<1>4. CASE Answer(r) \/ Fail(r)
  BY <1>4 DEF Answer, Fail, Keeps
<1> QED BY <1>1, <1>2, <1>3, <1>4 DEF Act

\* What is gone stays gone, and what is there is not unborn again.
GoneStays ==
  /\ \A p \in Professionals :
       /\ professional[p].stage = "gone" => professional'[p].stage = "gone"
       /\ professional[p].stage # "unborn" =>
            /\ professional'[p].stage # "unborn"
            /\ professional'[p].user = professional[p].user
  /\ \A s \in Services : service[s] = "gone" => service'[s] = "gone"
  /\ \A u \in Users : user[u] = "gone" => user'[u] = "gone"

CatalogTypes ==
  /\ professional \in [Professionals -> Professional]
  /\ service \in [Services -> Stage]
  /\ user \in [Users -> Stage]

LEMMA EachCatalog ==
  ASSUME TypeInv, NEW r \in Requests, Act(r)
  PROVE  GoneStays /\ CatalogTypes'
<1> USE DEF GoneStays, CatalogTypes
<1>t. CatalogTypes
  BY Typed
<1>s. Stage = {"unborn", "live", "gone"}
  BY DEF Stage
<1>1. ASSUME NEW p \in Professionals, NEW u \in Users,
             NEW S \in SUBSET Services, CreateProfessional(r, p, u, S)
      PROVE  GoneStays /\ CatalogTypes'
  <2> DEFINE new == [stage |-> "live", user |-> u, offers |-> S]
  <2>1. new \in Professional
    BY <1>t, ProfessionalSet
  <2>2. /\ professional[p].stage = "unborn"
        /\ UNCHANGED <<service, user>>
        /\ \/ UNCHANGED professional
           \/ professional' = [professional EXCEPT ![p] = new]
    BY <1>1 DEF CreateProfessional
  <2> HIDE DEF new
  <2> QED BY <1>t, <2>1, <2>2
<1>2. ASSUME NEW p \in Professionals, NEW S \in SUBSET Services,
             SetServices(r, p, S)
      PROVE  GoneStays /\ CatalogTypes'
  <2>1. [professional[p] EXCEPT !.offers = S] \in Professional
    BY <1>t, ProfessionalSet
  <2>2. \/ UNCHANGED <<professional, service, user>>
        \/ /\ professional' = [professional EXCEPT ![p] =
                               [professional[p] EXCEPT !.offers = S]]
           /\ UNCHANGED <<service, user>>
    BY <1>2 DEF SetServices, Give
  <2> QED BY <1>t, <2>1, <2>2 DEF Professional
<1>3. ASSUME NEW s \in Services, CreateService(r, s)
      PROVE  GoneStays /\ CatalogTypes'
  BY <1>3, <1>t, <1>s DEF CreateService
<1>4. ASSUME NEW p \in Professionals, RemoveProfessional(r, p)
      PROVE  GoneStays /\ CatalogTypes'
  <2>1. [professional[p] EXCEPT !.stage = "gone"] \in Professional
    BY <1>t, ProfessionalSet
  <2>2. \/ UNCHANGED <<professional, service, user>>
        \/ /\ professional' = [professional EXCEPT ![p] =
                               [professional[p] EXCEPT !.stage = "gone"]]
           /\ UNCHANGED <<service, user>>
    BY <1>4 DEF RemoveProfessional
  <2> QED BY <1>t, <2>1, <2>2 DEF Professional
<1>5. ASSUME RemoveAccount(r) PROVE GoneStays /\ CatalogTypes'
  BY <1>5, <1>t, <1>s DEF RemoveAccount
<1>6. ASSUME NEW s \in Services, RemoveService(r, s)
      PROVE  GoneStays /\ CatalogTypes'
  BY <1>6, <1>t, <1>s DEF RemoveService
<1>7. ASSUME Pull(r) PROVE GoneStays /\ CatalogTypes'
  <2>1. ASSUME NEW p \in Professionals
        PROVE  /\ [professional[p] EXCEPT !.offers = @ \ {job[r].svc}]
                    \in Professional
               /\ professional[p] \in Professional
    BY <1>t DEF Professional
  <2>2. /\ professional' = [p \in Professionals |->
             IF professional[p].stage = "live"
             THEN [professional[p] EXCEPT !.offers = @ \ {job[r].svc}]
             ELSE professional[p]]
        /\ UNCHANGED <<service, user>>
    BY <1>7 DEF Pull
  <2>3. ASSUME NEW p \in Professionals
        PROVE  /\ professional'[p] \in Professional
               /\ professional'[p].stage = professional[p].stage
               /\ professional'[p].user = professional[p].user
    BY <2>1, <2>2 DEF Professional
  <2>4. professional' \in [Professionals -> Professional]
    BY <2>2, <2>3
  <2> QED BY <1>t, <2>2, <2>3, <2>4
<1>8. ASSUME NEW u \in Users, RemoveUser(r, u) PROVE GoneStays /\ CatalogTypes'
  BY <1>8, <1>t, <1>s DEF RemoveUser
<1>9. CASE Client(r)
  <2>1. UNCHANGED <<professional, service>>
    BY <1>9 DEF Client
  <2>2. \/ UNCHANGED user
        \/ \E u \in Clients :
             user[u] # "gone" /\ user' = [user EXCEPT ![u] = "live"]
    BY <1>9 DEF Client
  <2> QED BY <1>t, <1>s, <2>1, <2>2, CatalogAssumption
<1>10. CASE UNCHANGED catalog
  BY <1>10, <1>t DEF catalog
<1>11. Book(r) => Client(r) \/ UNCHANGED catalog
  BY DEF Book, BookPublic, BookAdmin, Offers, Insert
<1>12. Change(r) \/ Answer(r) \/ Fail(r) => UNCHANGED catalog
  BY DEF Change, Confirm, NoShow, Read, Check, Delete, Save, Answer, Fail
<1> QED
  BY <1>1, <1>2, <1>3, <1>4, <1>5, <1>6, <1>7, <1>8, <1>9, <1>10, <1>11, <1>12
     DEF Act, EditCatalogue

\* Only its own part of lost changes, and only when it begins to book.
Asks(r) ==
  \/ UNCHANGED lost
  \/ \E l \in Lost : pc[r] = "idle" /\ lost' = [lost EXCEPT ![r] = l]

LEMMA EachHistory ==
  ASSUME TypeInv, NEW r \in Requests, Act(r)
  PROVE  /\ Asks(r)
         /\ blind' \in [Professionals -> SUBSET Services]
         /\ halted' \subseteq Services
<1> DEFINE Rest == UNCHANGED <<blind, halted>>
           Goal == /\ blind' \in [Professionals -> SUBSET Services]
                   /\ halted' \subseteq Services
<1>b. blind \in [Professionals -> SUBSET Services]
  BY Typed
<1>h. halted \subseteq Services
  BY Typed
<1>1. ASSUME NEW p \in Professionals, NEW u \in Users,
             NEW S \in SUBSET Services, CreateProfessional(r, p, u, S)
      PROVE  Goal /\ UNCHANGED lost
  BY <1>1, <1>b, <1>h DEF CreateProfessional, Edit
<1>2. ASSUME NEW p \in Professionals, NEW S \in SUBSET Services,
             SetServices(r, p, S)
      PROVE  Goal /\ UNCHANGED lost
  BY <1>2, <1>b, <1>h DEF SetServices, Edit, Give
<1>3. CASE Pull(r)
  BY <1>3, <1>b, <1>h DEF Pull, Asks
<1>4. CASE Fail(r)
  <2>1. pc[r] = "pull" => job[r].svc \in Services
    BY DEF TypeInv, Carried, CarriedBy
  <2> QED BY <1>4, <1>b, <1>h, <2>1 DEF Fail, Asks
<1>5. ASSUME NEW p \in Professionals, NEW s \in Services,
             \/ BookPublic(r, p, s)
             \/ \E u \in Users : BookAdmin(r, p, s, u)
      PROVE  Rest /\ Asks(r)
  <2> DEFINE l == [profs |-> {p} \cap GoneProfessionals,
                   svcs |-> {s} \cap GoneServices,
                   users |-> Clients \cap GoneUsers]
  <2>1. l \in Lost
    BY DEF Lost, GoneProfessionals, GoneServices, GoneUsers
  <2>2. \/ UNCHANGED <<lost, blind, halted>>
        \/ /\ pc[r] = "idle" /\ lost' = [lost EXCEPT ![r] = l]
           /\ UNCHANGED <<blind, halted>>
    BY <1>5 DEF BookPublic, BookAdmin, Names, Ask
  <2> HIDE DEF l
  <2> QED BY <2>1, <2>2 DEF Asks
<1>6. ASSUME \/ \E p \in Professionals : RemoveProfessional(r, p)
             \/ RemoveAccount(r)
             \/ \E s \in Services : CreateService(r, s) \/ RemoveService(r, s)
             \/ \E u \in Users : RemoveUser(r, u)
             \/ Offers(r) \/ Client(r) \/ Insert(r) \/ Change(r) \/ Answer(r)
      PROVE  Rest /\ UNCHANGED lost
  BY <1>6 DEF RemoveProfessional, RemoveAccount, CreateService, RemoveService,
              RemoveUser, Edit, Offers, Client, Insert, Change, Confirm, NoShow,
              Read, Check, Delete, Save, Answer, history
<1> QED
  BY <1>b, <1>h, <1>1, <1>2, <1>3, <1>4, <1>5, <1>6
     DEF Asks, Act, EditCatalogue, Book

----------------------------------------------------------------------------

LEMMA InitType == Init => TypeInv
<1> SUFFICES ASSUME Init PROVE TypeInv
  OBVIOUS
<1>1. appt \in [Appts -> Appointment]
  <2>1. NoAppt \in Appointment
    BY DEF NoAppt, Appointment, Stage
  <2>2. [stage: {"live"}, public: BOOLEAN, prof: Professionals, svc: Services,
         client: Clients, rev: {1}] \subseteq Appointment
    BY CatalogAssumption DEF Appointment, Stage
  <2> QED BY <2>1, <2>2 DEF Init
<1>2. Referring
  BY CatalogAssumption DEF Init, Referring, NoAppt
<1>3. job \in [Requests -> Job]
  BY JobSet DEF Init
<1>4. Carried
  BY DEF Init, Carried, CarriedBy
<1>5. CatalogTypes
  BY DEF Init, CatalogTypes, Professional, Stage
<1>6. pc \in [Requests -> Steps] /\ resp \in [Requests -> Answers]
  BY DEF Init, Steps, Answers
<1>7. /\ blind \in [Professionals -> SUBSET Services]
      /\ halted \subseteq Services
      /\ lost \in [Requests -> Lost]
  BY DEF Init, Lost
<1> QED
  BY <1>1, <1>2, <1>3, <1>4, <1>5, <1>6, <1>7
     DEF TypeInv, TypeOK, Referring, CatalogTypes, Steps, Answers, Professional,
         Appointment, Lost

\* What request r carries is what its new step needs.
LEMMA EachCarries ==
  ASSUME TypeInv, NEW r \in Requests, Act(r)
  PROVE  CarriedBy(r)'
<1>c. CarriedBy(r) /\ job[r].appt \in Appts
  BY Typed DEF TypeInv, Carried, Job
<1>j. /\ DOMAIN pc = Requests /\ job \in [Requests -> Job]
  BY Typed
<1>0. ASSUME pc'[r] \in {"done", "written"} PROVE CarriedBy(r)'
  BY <1>0 DEF CarriedBy
<1>1. ASSUME NEW p \in Professionals, RemoveProfessional(r, p)
      PROVE  CarriedBy(r)'
  BY <1>0, <1>1, <1>j DEF RemoveProfessional, Refuse, Reply, Goto, CarriedBy, Job
<1>2. ASSUME NEW s \in Services, RemoveService(r, s) PROVE CarriedBy(r)'
  BY <1>0, <1>2, <1>j DEF RemoveService, Refuse, Reply, Goto, CarriedBy, Job
<1>3. ASSUME NEW p \in Professionals, NEW s \in Services, BookPublic(r, p, s)
      PROVE  CarriedBy(r)'
  BY <1>0, <1>3, <1>j DEF BookPublic, Ask, Refuse, Reply, Goto, CarriedBy
<1>4. ASSUME NEW p \in Professionals, NEW s \in Services, NEW u \in Users,
             BookAdmin(r, p, s, u)
      PROVE  CarriedBy(r)'
  BY <1>0, <1>4, <1>j DEF BookAdmin, Ask, Refuse, Reply, Goto, CarriedBy
<1>5. CASE Offers(r)
  BY <1>0, <1>5, <1>j, <1>c DEF Offers, Refuse, Reply, Goto, CarriedBy
<1>6. CASE Client(r)
  <2>1. CASE Refuse(r)
    BY <1>0, <2>1, <1>j DEF Refuse, Reply, Goto
  <2>2. ASSUME NEW u \in Clients, pc[r] = "client", Goto(r, "insert"),
               job' = [job EXCEPT ![r].client = u]
        PROVE  CarriedBy(r)'
    <3>1. /\ job'[r].client = u
          /\ job'[r].prof = job[r].prof /\ job'[r].svc = job[r].svc
      BY <2>2, <1>j DEF Job
    <3> QED BY <2>2, <3>1, <1>j, <1>c, CatalogAssumption DEF Goto, CarriedBy
  <2> QED BY <1>6, <2>1, <2>2 DEF Client
<1>7. ASSUME NEW a \in Appts, NEW kind \in {"cancel", "reschedule", "remove"},
             Read(r, kind, a)
      PROVE  CarriedBy(r)'
  <2>1. CASE Refuse(r)
    BY <1>0, <2>1, <1>j DEF Refuse, Reply, Goto
  <2>2. CASE ~Refuse(r)
    <3>1. /\ appt[a].stage # "unborn" /\ UNCHANGED appt
          /\ pc' = [pc EXCEPT ![r] = "check"]
          /\ job' = [job EXCEPT ![r].kind = kind, ![r].appt = a]
      BY <1>7, <2>2 DEF Read, Knows, About, Goto
    <3>2. job'[r].appt = a
      BY <3>1, <1>j DEF Job
    <3> QED BY <3>1, <3>2, <1>j DEF CarriedBy
  <2> QED BY <2>1, <2>2
<1>8. CASE Check(r)
  BY <1>0, <1>8, <1>j, <1>c DEF Check, Refuse, Reply, Goto, CarriedBy
<1>9. CASE \/ \E p \in Professionals, S \in SUBSET Services :
                \/ SetServices(r, p, S)
                \/ \E u \in Users : CreateProfessional(r, p, u, S)
           \/ RemoveAccount(r) \/ Pull(r)
           \/ \E s \in Services : CreateService(r, s)
           \/ \E u \in Users : RemoveUser(r, u)
  BY <1>0, <1>9, <1>j DEF SetServices, CreateProfessional, RemoveAccount, Pull,
                          CreateService, RemoveUser, Reply, Goto
<1>10. CASE \/ Insert(r) \/ Delete(r) \/ Save(r) \/ Answer(r) \/ Fail(r)
            \/ \E a \in Appts : Confirm(r, a) \/ NoShow(r, a)
  BY <1>0, <1>10, <1>j DEF Insert, Delete, Save, Answer, Fail, Confirm, NoShow,
                           Wrote, Refuse, Reply, Goto
<1> QED
  BY <1>1, <1>2, <1>3, <1>4, <1>5, <1>6, <1>7, <1>8, <1>9, <1>10
     DEF Act, EditCatalogue, Book, Change

\* An appointment that is there stays as it was, but for its version and for
\* being removed; and only Insert makes one.
LEMMA ApptsStay ==
  ASSUME TypeInv, NEW r \in Requests, Act(r),
         \A x \in Requests : pc[x] = "insert" => appt[x].stage = "unborn"
  PROVE  /\ appt' \in [Appts -> Appointment]
         /\ Referring'
         /\ \A a \in Appts : appt[a].stage # "unborn" =>
              /\ appt'[a].stage # "unborn"
              /\ appt'[a].public = appt[a].public
              /\ appt'[a].prof = appt[a].prof
              /\ appt'[a].svc = appt[a].svc
              /\ appt'[a].client = appt[a].client
              /\ appt'[a].rev >= appt[a].rev
         /\ \A a \in Appts : appt[a].stage = "unborn" =>
              \/ appt'[a] = appt[a]
              \/ a = r /\ pc[r] = "insert"
<1>t. /\ appt \in [Appts -> Appointment]
      /\ job[r] \in Job
      /\ r \in Appts
      /\ \A a \in Appts : appt[a].rev \in Nat
  BY Typed DEF Appts, Appointment
<1>r. Referring /\ CarriedBy(r)
  BY DEF TypeInv, TypeOK, Carried, Referring
<1>1. CASE UNCHANGED appt
  BY <1>1, <1>t, <1>r DEF Referring
<1>2. ASSUME pc[r] = "insert", NEW public \in BOOLEAN,
             appt' = [appt EXCEPT ![r] =
               [stage |-> "live", public |-> public, prof |-> job[r].prof,
                svc |-> job[r].svc, client |-> job[r].client, rev |-> 1]]
      PROVE  /\ appt' \in [Appts -> Appointment]
             /\ Referring'
             /\ \A a \in Appts \ {r} : appt'[a] = appt[a]
             /\ appt[r].stage = "unborn"
  <2> DEFINE new == [stage |-> "live", public |-> public, prof |-> job[r].prof,
                     svc |-> job[r].svc, client |-> job[r].client, rev |-> 1]
  <2>1. new \in Appointment
    BY <1>t, AppointmentSet
  <2>2. /\ new.prof \in Professionals
        /\ new.svc \in Services
        /\ new.client \in Users
    BY <1>2, <1>r DEF CarriedBy
  <2>3. appt' = [appt EXCEPT ![r] = new]
    BY <1>2
  <2> HIDE DEF new
  <2> QED BY <1>2, <1>t, <1>r, <2>1, <2>2, <2>3 DEF Referring
<1>3. ASSUME NEW a \in Appts, appt[a].stage # "unborn",
             NEW new \in {[appt[a] EXCEPT !.rev = @ + 1],
                          [appt[a] EXCEPT !.stage = "gone"]},
             appt' = [appt EXCEPT ![a] = new]
      PROVE  /\ appt' \in [Appts -> Appointment]
             /\ Referring'
             /\ \A b \in Appts \ {a} : appt'[b] = appt[b]
             /\ appt'[a].stage # "unborn"
             /\ appt'[a].public = appt[a].public
             /\ appt'[a].prof = appt[a].prof
             /\ appt'[a].svc = appt[a].svc
             /\ appt'[a].client = appt[a].client
             /\ appt'[a].rev >= appt[a].rev
  <2>0. appt[a] \in Appointment
    BY <1>t
  <2>1. new \in Appointment
    BY <1>3, <2>0, AppointmentSet
  <2>2. /\ new.stage # "unborn"
        /\ new.public = appt[a].public
        /\ new.prof = appt[a].prof
        /\ new.svc = appt[a].svc
        /\ new.client = appt[a].client
        /\ new.rev >= appt[a].rev
    BY <1>3, <2>0 DEF Appointment
  <2> QED BY <1>3, <1>t, <1>r, <2>1, <2>2 DEF Referring
<1>4. CASE \E public \in BOOLEAN :
             /\ pc[r] = "insert"
             /\ appt' = [appt EXCEPT ![r] =
                  [stage |-> "live", public |-> public, prof |-> job[r].prof,
                   svc |-> job[r].svc, client |-> job[r].client, rev |-> 1]]
  <2>1. /\ pc[r] = "insert"
        /\ appt' \in [Appts -> Appointment]
        /\ Referring'
        /\ \A a \in Appts \ {r} : appt'[a] = appt[a]
        /\ appt[r].stage = "unborn"
    BY <1>4, <1>2
  <2> QED BY <1>t, <2>1
<1>5. CASE \E a \in Appts :
             /\ appt[a].stage # "unborn"
             /\ \/ appt' = [appt EXCEPT ![a] = [appt[a] EXCEPT !.rev = @ + 1]]
                \/ appt' = [appt EXCEPT ![a] = [appt[a] EXCEPT !.stage = "gone"]]
  BY <1>t, <1>5, <1>3
<1> QED BY EachKeeps, <1>1, <1>4, <1>5 DEF Keeps

----------------------------------------------------------------------------
(* The invariant of the types.                                               *)

\* The appointment of a request is not there before the request wrote anything.
Early == Steps \ {"written", "done"}

Unbooked == \A r \in Requests : pc[r] \in Early => appt[r].stage = "unborn"

LEMMA EachLeaves ==
  ASSUME TypeInv, NEW r \in Requests, Act(r), pc'[r] \in Early
  PROVE  pc[r] \in Early /\ UNCHANGED appt
<1>t. DOMAIN pc = Requests
  BY Typed
<1>1. CASE EditCatalogue(r)
  BY <1>1, <1>t DEF EditCatalogue, SetServices, CreateProfessional,
     RemoveProfessional, RemoveAccount, RemoveService, CreateService, Pull,
     RemoveUser, Edit,
     Refuse, Reply, Goto, Early, Steps
<1>2. CASE Book(r)
  BY <1>2, <1>t DEF Book, BookPublic, BookAdmin, Names, Offers, Client, Insert,
     Refuse, Reply, Goto, Early, Steps
<1>3. CASE Change(r)
  BY <1>3, <1>t DEF Change, Confirm, NoShow, Read, Check, Delete, Save, Knows,
     Wrote, Refuse, Reply, Goto, Early, Steps
<1>4. CASE Answer(r) \/ Fail(r)
  BY <1>4, <1>t DEF Answer, Fail, Reply, Goto, Early, Steps
<1> QED BY <1>1, <1>2, <1>3, <1>4 DEF Act

LEMMA InitUnbooked == Init => Unbooked
  BY CatalogAssumption DEF Init, Unbooked, Early, NoAppt, Appts

LEMMA StepType ==
  ASSUME TypeInv, Unbooked, [Next]_vars
  PROVE  TypeInv' /\ Unbooked'
<1>1. CASE UNCHANGED vars
  BY <1>1 DEF vars, catalog, history, TypeInv, TypeOK, Carried, CarriedBy,
     Unbooked
<1>2. ASSUME NEW r \in Requests, Act(r) PROVE TypeInv' /\ Unbooked'
  <2>a. /\ pc \in [Requests -> Steps]
        /\ job \in [Requests -> Job]
        /\ resp \in [Requests -> Answers]
        /\ lost \in [Requests -> Lost]
    BY Typed
  <2>b. \A x \in Requests : pc[x] = "insert" => appt[x].stage = "unborn"
    BY DEF Unbooked, Early, Steps
  <2>1. PICK step \in Steps, answer \in Answers, j \in Job :
          /\ pc' = [pc EXCEPT ![r] = step]
          /\ resp' = [resp EXCEPT ![r] = answer]
          /\ job' = [job EXCEPT ![r] = j]
    BY <1>2, EachMoves DEF Moves
  <2>2. /\ appt' \in [Appts -> Appointment]
        /\ Referring'
        /\ \A a \in Appts : appt[a].stage # "unborn" =>
             appt'[a].stage # "unborn"
        /\ \A a \in Appts \ {r} : appt[a].stage = "unborn" =>
             appt'[a] = appt[a]
    BY <1>2, <2>b, ApptsStay
  <2>3. lost' \in [Requests -> Lost]
    BY <1>2, <2>a, EachHistory DEF Asks
  <2>4. TypeOK'
    BY <1>2, <2>a, <2>1, <2>2, <2>3, EachHistory, EachCatalog
       DEF TypeOK, CatalogTypes, Professional, Appointment, Steps, Answers,
           Lost, Referring
  <2>5. ASSUME NEW x \in Requests, x # r PROVE CarriedBy(x)'
    <3>1. CarriedBy(x) /\ job[x].appt \in Appts
      BY <2>a DEF TypeInv, Carried, Job
    <3>2. pc'[x] = pc[x] /\ job'[x] = job[x]
      BY <2>a, <2>1, <2>5
    <3> QED BY <2>2, <3>1, <3>2 DEF CarriedBy
  <2>6. Carried'
    BY <1>2, <2>5, EachCarries DEF Carried
  <2>7. ASSUME NEW x \in Requests, pc'[x] \in Early
        PROVE  appt'[x].stage = "unborn"
    <3>1. CASE x = r
      BY <1>2, <2>7, <3>1, EachLeaves DEF Unbooked
    <3>2. CASE x # r
      BY <2>a, <2>1, <2>2, <2>7, <3>2 DEF Unbooked, Appts
    <3> QED BY <3>1, <3>2
  <2> QED BY <2>4, <2>6, <2>7 DEF TypeInv, Unbooked
<1> QED BY <1>1, <1>2 DEF Next, Act

\* Every reference a step follows is one: the state has its types, whatever
\* ProfessionalsService, ServicesService, UsersService.remove and
\* AppointmentsService do to it in between each other's writes.
THEOREM TypeCorrect == Spec => []TypeOK
<1>1. Init => TypeInv /\ Unbooked
  BY InitType, InitUnbooked
<1>2. TypeInv /\ Unbooked /\ [Next]_vars => (TypeInv /\ Unbooked)'
  BY StepType
<1>3. TypeInv /\ Unbooked => TypeOK
  BY DEF TypeInv
<1> QED BY <1>1, <1>2, <1>3, PTL DEF Spec

----------------------------------------------------------------------------
(* A service that is gone and still offered.                                 *)

\* A removal that is under way stays so while another request takes its step.
LEMMA PullsGoOn ==
  ASSUME TypeInv, NEW r \in Requests, Act(r),
         NEW x \in Requests, pc[x] = "pull", x # r
  PROVE  pc'[x] = "pull" /\ job'[x].svc = job[x].svc
<1>1. PICK step \in Steps, j \in Job :
        pc' = [pc EXCEPT ![r] = step] /\ job' = [job EXCEPT ![r] = j]
  BY EachMoves DEF Moves
<1>2. pc \in [Requests -> Steps] /\ job \in [Requests -> Job]
  BY Typed
<1> QED BY <1>1, <1>2

\* What makes an offer p has after the step one that may be there: it was there
\* before, of a service that was gone before.
LEMMA OfferStays ==
  ASSUME TypeInv, BlindOffersOnly, NEW r \in Requests, Act(r), pc[r] # "pull",
         NEW p \in Professionals, professional[p].stage = "live",
         NEW s \in professional[p].offers \cap GoneServices,
         blind[p] \subseteq blind'[p], halted \subseteq halted'
  PROVE  \/ s \in blind'[p] \cup halted'
         \/ \E x \in Requests : pc'[x] = "pull" /\ job'[x].svc = s
  BY PullsGoOn DEF BlindOffersOnly

LEMMA StepBlind ==
  ASSUME TypeInv, BlindOffersOnly, NEW r \in Requests, Act(r)
  PROVE  BlindOffersOnly'
<1> DEFINE Fine(p, s) ==
      \/ s \in blind'[p] \cup halted'
      \/ \E x \in Requests : pc'[x] = "pull" /\ job'[x].svc = s
<1> SUFFICES ASSUME NEW p \in Professionals, professional'[p].stage = "live",
                    NEW s \in professional'[p].offers,
                    s \in Services, service'[s] = "gone"
             PROVE  Fine(p, s)
  BY EachCatalog DEF BlindOffersOnly, GoneServices, CatalogTypes, Professional
<1>t. /\ professional \in [Professionals -> Professional]
      /\ service \in [Services -> Stage]
      /\ blind \in [Professionals -> SUBSET Services]
      /\ pc \in [Requests -> Steps]
      /\ job \in [Requests -> Job]
  BY Typed
<1>o. ASSUME professional[p].stage = "live", s \in professional[p].offers,
             service[s] = "gone", pc[r] # "pull",
             blind[p] \subseteq blind'[p], halted \subseteq halted'
      PROVE  Fine(p, s)
  BY <1>o, OfferStays DEF GoneServices
<1>1. ASSUME NEW q \in Professionals, NEW u \in Users,
             NEW S \in SUBSET Services, CreateProfessional(r, q, u, S)
      PROVE  Fine(p, s)
  <2>1. pc[r] = "idle" /\ UNCHANGED <<service, halted>>
    BY <1>1 DEF CreateProfessional, Edit
  <2>2. CASE professional'[p] = professional[p] /\ blind'[p] = blind[p]
    BY <1>o, <2>1, <2>2
  <2>3. CASE /\ q = p
             /\ professional' = [professional EXCEPT ![p] =
                   [stage |-> "live", user |-> u, offers |-> S]]
             /\ blind' = [blind EXCEPT ![p] = S \cap GoneServices]
    BY <1>t, <2>1, <2>3 DEF GoneServices
  <2> QED BY <1>1, <1>t, <2>2, <2>3 DEF CreateProfessional
<1>2. ASSUME NEW q \in Professionals, NEW S \in SUBSET Services,
             SetServices(r, q, S)
      PROVE  Fine(p, s)
  <2>1. pc[r] = "idle" /\ UNCHANGED <<service, halted>>
    BY <1>2 DEF SetServices, Edit
  <2>2. CASE professional'[p] = professional[p] /\ blind'[p] = blind[p]
    BY <1>o, <2>1, <2>2
  <2>3. CASE q = p /\ Give(p, S) /\ professional[p].stage = "live"
    <3>1. /\ professional'[p].offers = S
          /\ blind'[p] = (blind[p] \cap S)
                           \cup ((S \ professional[p].offers) \cap GoneServices)
      BY <1>t, <2>3 DEF Give, Professional
    <3>2. CASE s \notin professional[p].offers
      BY <2>1, <3>1, <3>2 DEF GoneServices
    <3>3. CASE s \in professional[p].offers
      <4>1. \/ s \in blind[p] \cup halted
            \/ \E x \in Requests : pc[x] = "pull" /\ job[x].svc = s
        BY <2>1, <2>3, <3>3 DEF BlindOffersOnly, GoneServices
      <4> QED BY <2>1, <3>1, <4>1, PullsGoOn
    <3> QED BY <3>2, <3>3
  <2> QED BY <1>2, <1>t, <2>2, <2>3 DEF SetServices, Give
<1>3. CASE Pull(r)
  <2>1. /\ professional[p].stage = "live"
        /\ s \in professional[p].offers /\ s # job[r].svc
        /\ blind'[p] = blind[p] \ {job[r].svc}
        /\ UNCHANGED <<service, halted>>
    BY <1>3, <1>t DEF Pull, Professional
  <2>2. \/ s \in blind[p] \cup halted
        \/ \E x \in Requests : pc[x] = "pull" /\ job[x].svc = s
    BY <2>1 DEF BlindOffersOnly, GoneServices
  <2> QED BY <2>1, <2>2, PullsGoOn
<1>4. CASE Fail(r)
  <2>1. /\ UNCHANGED <<professional, service, blind>>
        /\ halted' = IF pc[r] = "pull" THEN halted \cup {job[r].svc} ELSE halted
    BY <1>4 DEF Fail, catalog
  <2>2. \/ s \in blind[p] \cup halted
        \/ \E x \in Requests : pc[x] = "pull" /\ job[x].svc = s
    BY <2>1 DEF BlindOffersOnly, GoneServices
  <2> QED BY <2>1, <2>2, PullsGoOn
<1>5. ASSUME NEW z \in Services, RemoveService(r, z) PROVE Fine(p, s)
  <2>1. pc[r] = "idle" /\ UNCHANGED <<professional, blind, halted>>
    BY <1>5 DEF RemoveService, history
  <2>2. CASE service[s] = "gone"
    BY <1>o, <2>1, <2>2
  <2>3. CASE service[s] # "gone"
    <3>1. /\ z = s
          /\ job' = [job EXCEPT ![r].svc = s]
          /\ pc' = [pc EXCEPT ![r] = "pull"]
      BY <1>5, <1>t, <2>3 DEF RemoveService, Goto
    <3>2. pc'[r] = "pull" /\ job'[r].svc = s
      BY <1>t, <3>1 DEF Job
    <3> QED BY <3>2
  <2> QED BY <2>2, <2>3
<1>6. ASSUME NEW z \in Services, CreateService(r, z) PROVE Fine(p, s)
  <2>1. /\ pc[r] = "idle" /\ service[s] = "gone"
        /\ UNCHANGED <<professional, blind, halted>>
    BY <1>6, <1>t DEF CreateService, Edit
  <2> QED BY <1>o, <2>1
<1>7. ASSUME NEW q \in Professionals, RemoveProfessional(r, q)
      PROVE  Fine(p, s)
  <2>1. /\ pc[r] = "idle" /\ UNCHANGED <<service, blind, halted>>
        /\ professional'[p] = professional[p]
    BY <1>7, <1>t DEF RemoveProfessional, history, Professional
  <2> QED BY <1>o, <2>1
<1>8. ASSUME \/ RemoveAccount(r)
             \/ \E u \in Users : RemoveUser(r, u)
             \/ Book(r) \/ Change(r) \/ Answer(r)
      PROVE  Fine(p, s)
  <2>1. UNCHANGED <<professional, service, blind, halted>>
    BY <1>8 DEF RemoveAccount, RemoveUser, Edit, Book, BookPublic, BookAdmin,
       Offers, Client, Insert, Change, Confirm, NoShow, Read, Check, Delete,
       Save, Answer, catalog, history
  <2>2. pc[r] # "pull"
    BY <1>8 DEF RemoveAccount, RemoveUser, Edit, Book, BookPublic, BookAdmin,
       Names, Offers, Client, Insert, Change, Confirm, NoShow, Knows, Read,
       Check, Delete, Save, Answer
  <2> QED BY <1>o, <2>1, <2>2
<1> QED
  BY <1>1, <1>2, <1>3, <1>4, <1>5, <1>6, <1>7, <1>8 DEF Act, EditCatalogue

\* ServicesService.remove deletes a service before it takes it out of the
\* professionals, and nobody locks anything: yet a professional offers a service
\* that is gone only while its removal is under way or after it broke off, or
\* because ProfessionalsService gave it to him when it was gone already.
THEOREM BlindOffersOnlyHolds == Spec => []BlindOffersOnly
<1>1. Init => BlindOffersOnly
  BY DEF Init, BlindOffersOnly, GoneServices
<1>2. TypeInv /\ BlindOffersOnly /\ [Next]_vars => BlindOffersOnly'
  <2>1. ASSUME BlindOffersOnly, UNCHANGED vars PROVE BlindOffersOnly'
    BY <2>1 DEF vars, catalog, history, BlindOffersOnly, GoneServices
  <2> QED BY <2>1, StepBlind DEF Next, Act
<1>3. Init => TypeInv /\ Unbooked
  BY InitType, InitUnbooked
<1>4. TypeInv /\ Unbooked /\ [Next]_vars => (TypeInv /\ Unbooked)'
  BY StepType
<1> QED BY <1>1, <1>2, <1>3, <1>4, PTL DEF Spec

----------------------------------------------------------------------------
(* What a guest booked was there when he asked for it.                       *)

\* On the way to the insert, what a request was found to be about had not been
\* gone when it began.
AskedFor(r) ==
  /\ lost[r].users \subseteq GoneUsers
  /\ pc[r] \in {"offers", "client", "insert"} =>
       /\ job[r].svc \notin lost[r].svcs
       /\ job[r].kind = "public" => job[r].prof \notin lost[r].profs
  /\ pc[r] = "insert" /\ job[r].kind = "public" =>
       job[r].client \notin lost[r].users

Asked == \A r \in Requests : AskedFor(r)

LEMMA EachAsked ==
  ASSUME TypeInv, Asked, NEW r \in Requests, Act(r)
  PROVE  AskedFor(r)'
<1>a. AskedFor(r)
  BY DEF Asked
<1>t. /\ pc \in [Requests -> Steps]
      /\ job \in [Requests -> Job]
      /\ lost \in [Requests -> Lost]
      /\ user \in [Users -> Stage]
  BY Typed
<1>u. GoneUsers \subseteq GoneUsers'
  BY EachCatalog DEF GoneStays, GoneUsers
<1>0. ASSUME pc'[r] \notin {"offers", "client", "insert"},
             UNCHANGED lost
      PROVE  AskedFor(r)'
  BY <1>0, <1>a, <1>u DEF AskedFor
<1>1. ASSUME NEW p \in Professionals, NEW s \in Services, BookPublic(r, p, s)
      PROVE  AskedFor(r)'
  <2>1. CASE Refuse(r) /\ UNCHANGED lost
    BY <1>0, <1>t, <2>1 DEF Refuse, Reply, Goto
  <2>2. CASE Ask(r, "public", p, s, None) /\ Goto(r, "offers")
               /\ p \notin GoneProfessionals /\ s \notin GoneServices
    <3>1. /\ pc'[r] = "offers"
          /\ job'[r].svc = s /\ job'[r].prof = p
          /\ lost'[r].profs = {p} \cap GoneProfessionals
          /\ lost'[r].svcs = {s} \cap GoneServices
          /\ lost'[r].users = Clients \cap GoneUsers
      BY <1>t, <2>2 DEF Ask, Goto
    <3> QED BY <1>u, <2>2, <3>1 DEF AskedFor
  <2> QED BY <1>1, <2>1, <2>2 DEF BookPublic, GoneProfessionals, GoneServices
<1>2. ASSUME NEW p \in Professionals, NEW s \in Services, NEW u \in Users,
             BookAdmin(r, p, s, u)
      PROVE  AskedFor(r)'
  <2>1. CASE Refuse(r) /\ UNCHANGED lost
    BY <1>0, <1>t, <2>1 DEF Refuse, Reply, Goto
  <2>2. CASE Ask(r, "admin", p, s, u) /\ Goto(r, "insert")
               /\ s \notin GoneServices
    <3>1. /\ pc'[r] = "insert"
          /\ job'[r].svc = s /\ job'[r].kind = "admin"
          /\ lost'[r].svcs = {s} \cap GoneServices
          /\ lost'[r].users = Clients \cap GoneUsers
      BY <1>t, <2>2 DEF Ask, Goto
    <3> QED BY <1>u, <2>2, <3>1 DEF AskedFor
  <2> QED BY <1>2, <2>1, <2>2 DEF BookAdmin, GoneServices
<1>3. CASE Offers(r)
  <2>1. UNCHANGED lost
    BY <1>3 DEF Offers, history
  <2>2. CASE Refuse(r)
    BY <1>0, <1>t, <2>1, <2>2 DEF Refuse, Reply, Goto
  <2>3. CASE pc[r] = "offers" /\ Goto(r, "client") /\ UNCHANGED job
    BY <1>a, <1>t, <1>u, <2>1, <2>3 DEF Goto, AskedFor
  <2> QED BY <1>3, <2>2, <2>3 DEF Offers
<1>4. CASE Client(r)
  <2>1. UNCHANGED lost /\ pc[r] = "client"
    BY <1>4 DEF Client, history
  <2>2. CASE Refuse(r)
    BY <1>0, <1>t, <2>1, <2>2 DEF Refuse, Reply, Goto
  <2>3. ASSUME NEW u \in Clients, user[u] # "gone", Goto(r, "insert"),
               job' = [job EXCEPT ![r].client = u]
        PROVE  AskedFor(r)'
    <3>1. /\ pc'[r] = "insert"
          /\ job'[r].client = u /\ job'[r].kind = job[r].kind
          /\ job'[r].prof = job[r].prof /\ job'[r].svc = job[r].svc
      BY <1>t, <2>3 DEF Goto, Job
    <3>2. u \notin lost[r].users
      BY <1>a, <2>3 DEF AskedFor, GoneUsers
    <3> QED BY <1>a, <1>u, <2>1, <3>1, <3>2 DEF AskedFor
  <2> QED BY <1>4, <2>2, <2>3 DEF Client
<1>5. CASE EditCatalogue(r)
  BY <1>0, <1>5, <1>t DEF EditCatalogue, SetServices, CreateProfessional,
     RemoveProfessional, RemoveAccount, RemoveService, CreateService, Pull,
     RemoveUser, Edit, Refuse, Reply, Goto, history
<1>6. CASE Insert(r) \/ Change(r) \/ Answer(r) \/ Fail(r)
  BY <1>0, <1>6, <1>t DEF Insert, Change, Confirm, NoShow, Read, Check, Delete,
     Save, Wrote, Answer, Fail, Refuse, Reply, Goto, history
<1> QED BY <1>1, <1>2, <1>3, <1>4, <1>5, <1>6 DEF Act, Book

LEMMA StepBooked ==
  ASSUME TypeInv, Unbooked, Asked, BookedWasThere, NEW r \in Requests, Act(r)
  PROVE  Asked' /\ BookedWasThere'
<1>t. /\ pc \in [Requests -> Steps]
      /\ job \in [Requests -> Job]
      /\ lost \in [Requests -> Lost]
  BY Typed
<1>1. ASSUME NEW x \in Requests, x # r
      PROVE  /\ pc'[x] = pc[x] /\ job'[x] = job[x] /\ lost'[x] = lost[x]
             /\ x \in Appts
  <2>1. PICK step \in Steps, j \in Job :
          pc' = [pc EXCEPT ![r] = step] /\ job' = [job EXCEPT ![r] = j]
    BY EachMoves DEF Moves
  <2>2. \/ UNCHANGED lost
        \/ \E l \in Lost : lost' = [lost EXCEPT ![r] = l]
    BY EachHistory DEF Asks
  <2> QED BY <1>1, <1>t, <2>1, <2>2 DEF Appts
<1>2. Asked'
  <2>1. GoneUsers \subseteq GoneUsers'
    BY EachCatalog DEF GoneStays, GoneUsers
  <2>2. ASSUME NEW x \in Requests, x # r PROVE AskedFor(x)'
    BY <1>1, <2>1, <2>2 DEF Asked, AskedFor
  <2> QED BY <2>2, EachAsked DEF Asked
<1>3. /\ \A a \in Appts : appt[a].stage # "unborn" =>
           /\ appt'[a].prof = appt[a].prof
           /\ appt'[a].svc = appt[a].svc
           /\ appt'[a].client = appt[a].client
      /\ \A a \in Appts : appt[a].stage = "unborn" =>
           \/ appt'[a] = appt[a]
           \/ a = r /\ pc[r] = "insert"
  <2>1. \A x \in Requests : pc[x] = "insert" => appt[x].stage = "unborn"
    BY DEF Unbooked, Early, Steps
  <2> QED BY <2>1, ApptsStay
<1>4. r \in Appts
  BY DEF Appts
<1> DEFINE There(x) == /\ appt[x].svc \notin lost[x].svcs
                       /\ job[x].kind = "public" =>
                            /\ appt[x].prof \notin lost[x].profs
                            /\ appt[x].client \notin lost[x].users
<1>5. ASSUME NEW x \in Requests, x # r, appt'[x].stage # "unborn"
      PROVE  There(x)'
  BY <1>1, <1>3, <1>5 DEF BookedWasThere
<1>6. ASSUME appt[r].stage # "unborn" PROVE There(r)'
  <2>1. pc[r] \in {"written", "done"}
    BY <1>6, <1>t DEF Unbooked, Early
  <2>2. Answer(r) \/ Fail(r)
    BY <2>1 DEF Act, EditCatalogue, SetServices, CreateProfessional,
       RemoveProfessional, RemoveAccount, RemoveService, CreateService, Pull,
       RemoveUser, Edit, Book, BookPublic, BookAdmin, Names, Offers, Client,
       Insert, Change, Confirm, NoShow, Knows, Read, Check, Delete, Save
  <2>3. UNCHANGED <<appt, job, lost>>
    BY <2>1, <2>2 DEF Answer, Fail, history
  <2> QED BY <1>6, <2>3 DEF BookedWasThere
<1>7. ASSUME appt[r].stage = "unborn", appt'[r].stage # "unborn"
      PROVE  There(r)'
  <2>1. pc[r] = "insert"
    BY <1>3, <1>4, <1>7
  <2>2. Insert(r)
    BY <1>7, <2>1 DEF Act, EditCatalogue, SetServices, CreateProfessional,
       RemoveProfessional, RemoveAccount, RemoveService, CreateService, Pull,
       RemoveUser, Edit, Book, BookPublic, BookAdmin, Names, Offers, Client,
       Change, Confirm, NoShow, Knows, Read, Check, Delete, Save, Answer, Fail
  <2>3. /\ UNCHANGED <<job, lost>>
        /\ appt'[r].prof = job[r].prof
        /\ appt'[r].svc = job[r].svc
        /\ appt'[r].client = job[r].client
    BY <1>4, <1>7, <2>2, Typed DEF Insert, history
  <2> QED BY <2>1, <2>3 DEF Asked, AskedFor
<1> QED BY <1>2, <1>5, <1>6, <1>7 DEF BookedWasThere

\* AppointmentsService.createPublic looks the professional, the service, the offer
\* and the client up one after the other, and anything may be removed in between:
\* still, what a guest booked had not been gone when he asked, for any number of
\* removals under way; and so for the service of what the staff booked.
THEOREM BookedWasThereHolds == Spec => []BookedWasThere
<1> DEFINE IInv == TypeInv /\ Unbooked /\ Asked /\ BookedWasThere
<1>1. Init => IInv
  <2>1. Init => Asked
    BY DEF Init, Asked, AskedFor
  <2>2. Init => BookedWasThere
    BY InitUnbooked DEF Init, BookedWasThere, Unbooked, Early, Steps
  <2> QED BY <2>1, <2>2, InitType, InitUnbooked
<1>2. IInv /\ [Next]_vars => IInv'
  <2>1. ASSUME Asked, BookedWasThere, UNCHANGED vars
        PROVE  Asked' /\ BookedWasThere'
    BY <2>1 DEF vars, catalog, history, Asked, AskedFor, BookedWasThere,
                GoneUsers
  <2> QED BY <2>1, StepBooked, StepType DEF Next, Act
<1>3. IInv => BookedWasThere
  OBVIOUS
<1> QED BY <1>1, <1>2, <1>3, PTL DEF Spec
============================================================================
