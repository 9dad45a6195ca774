------------------------ MODULE AnnouncementsProofs ------------------------
(* Proofs about Announcements, for any number of requests, people and        *)
(* appointments.  They stand on those about Catalog, of which Announcements  *)
(* is a refinement.                                                          *)
EXTENDS Announcements, CatalogProofs

Mail == [by: Requests, as: Roles, user: Users, links: BOOLEAN, rev: Nat]

Text == [by: Requests, to: Users, rev: Nat]

\* How far request r is with telling, and that it tells of something.
Telling(r) == pc[r] = "written" \/ mail[r] # "none" \/ text[r] # "none"

\* What a request was about when it wrote is what it tells of: job[r] and the
\* appointment stay, but for the version, which only grows.
News(r) ==
  /\ pc[r] \in {"offers", "client", "insert"} => job[r].appt = r
  /\ pc[r] \notin {"written", "done"} => mail[r] = "none"
  /\ mail[r] \in {"none", "read", "send"} => text[r] = "none"
  /\ mail[r] # "told" => \A m \in mails : m.by # r
  /\ text[r] # "end" => \A t \in texts : t.by # r
  /\ mail[r] \in {"read", "send"} => copy[r] >= wrote[r]
  /\ Telling(r) => Of(r).stage # "unborn" /\ Of(r).rev >= wrote[r]
  /\ removed[r] \subseteq GoneUsers

NewsInv == NewsTypeOK /\ \A r \in Requests : News(r)

CatalogInv == TypeInv /\ Unbooked

----------------------------------------------------------------------------
(* The steps of Announcements and those of Catalog.                          *)

\* The queries that follow the one for the appointment.
Gather(r) ==
  LookupClient(r) \/ LookupProfessional(r) \/ LookupStaff(r) \/ FindAdmins(r)

Tell(r) ==
  MailRead(r) \/ Gather(r) \/ MailSend(r) \/ MailFails(r) \/ TextSend(r)

LEMMA TellLeavesCatalog ==
  ASSUME NEW r \in Requests, Tell(r)
  PROVE  UNCHANGED vars
  BY DEF Tell, MailRead, Gather, LookupClient, LookupProfessional, LookupStaff,
     Lookup, FindAdmins, MailSend, MailFails, TextSend

LEMMA NewsIsNext == [NewsNext]_allVars => [Next]_vars
<1>1. ASSUME NEW r \in Requests, Work(r) PROVE Next
  BY <1>1 DEF Work, Next
<1>2. ASSUME NEW r \in Requests, AnswerTold(r) \/ FailSilently(r) PROVE Next
  BY <1>2 DEF AnswerTold, FailSilently, Next
<1>3. UNCHANGED allVars => UNCHANGED vars
  BY DEF allVars
<1> QED BY <1>1, <1>2, <1>3, TellLeavesCatalog
        DEF NewsNext, Tell, Gather

\* Telling of what happened is a refinement: leave it out, and what is left is
\* the catalogue and the appointments of Catalog.
THEOREM NewsRefinesCatalog == NewsSpec => Spec
  BY NewsIsNext, PTL DEF NewsSpec, Spec, NewsInit

LEMMA CatalogStays ==
  ASSUME CatalogInv, [NewsNext]_allVars
  PROVE  CatalogInv'
  BY NewsIsNext, StepType DEF CatalogInv

LEMMA OthersStay ==
  ASSUME CatalogInv, NEW r \in Requests, Act(r), NEW x \in Requests, x # r
  PROVE  pc'[x] = pc[x] /\ job'[x] = job[x]
<1>1. PICK step \in Steps, j \in Job :
        pc' = [pc EXCEPT ![r] = step] /\ job' = [job EXCEPT ![r] = j]
  BY EachMoves DEF Moves, CatalogInv
<1>2. pc \in [Requests -> Steps] /\ job \in [Requests -> Job]
  BY Typed DEF CatalogInv
<1> QED BY <1>1, <1>2

LEMMA ApptsKeep ==
  ASSUME CatalogInv, NEW r \in Requests, Act(r), NEW a \in Appts,
         appt[a].stage # "unborn"
  PROVE  /\ appt'[a].stage # "unborn"
         /\ appt'[a].public = appt[a].public
         /\ appt'[a].prof = appt[a].prof
         /\ appt'[a].client = appt[a].client
         /\ appt'[a].rev >= appt[a].rev
         /\ appt[a].rev \in Nat /\ appt'[a].rev \in Nat
<1>1. \A x \in Requests : pc[x] = "insert" => appt[x].stage = "unborn"
  BY DEF CatalogInv, Unbooked, Early, Steps
<1>2. appt \in [Appts -> Appointment]
  BY Typed DEF CatalogInv
<1>3. appt' \in [Appts -> Appointment]
  BY <1>1, ApptsStay DEF CatalogInv
<1> QED BY <1>1, <1>2, <1>3, ApptsStay DEF CatalogInv, Appointment

LEMMA GoneKeeps ==
  ASSUME CatalogInv, NEW r \in Requests, Act(r)
  PROVE  /\ GoneUsers \subseteq GoneUsers'
         /\ \A p \in Professionals : professional[p].stage # "unborn" =>
              professional'[p].user = professional[p].user
  BY EachCatalog DEF CatalogInv, GoneStays, GoneUsers

\* A request that has just written did so to an appointment that is there.
LEMMA WorkWrites ==
  ASSUME CatalogInv, NEW r \in Requests, Work(r),
         pc[r] = "insert" => job[r].appt = r
  PROVE  /\ pc[r] \notin {"written", "done"}
         /\ pc'[r] = "written" => appt'[job'[r].appt].stage # "unborn"
         /\ pc'[r] \in {"offers", "client", "insert"} =>
              \/ job'[r].appt = r
              \/ pc[r] \in {"offers", "client"} /\ job'[r].appt = job[r].appt
<1> DEFINE Goal ==
      /\ pc[r] \notin {"written", "done"}
      /\ pc'[r] = "written" => appt'[job'[r].appt].stage # "unborn"
      /\ pc'[r] \in {"offers", "client", "insert"} =>
           \/ job'[r].appt = r
           \/ pc[r] \in {"offers", "client"} /\ job'[r].appt = job[r].appt
<1>t. /\ pc \in [Requests -> Steps]
      /\ job \in [Requests -> Job]
      /\ appt \in [Appts -> Appointment]
  BY Typed DEF CatalogInv
<1>0. ASSUME pc[r] \notin {"written", "done"},
             pc'[r] \notin {"written", "offers", "client", "insert"}
      PROVE  Goal
  BY <1>0
<1>1. CASE EditCatalogue(r)
  BY <1>0, <1>1, <1>t DEF EditCatalogue, SetServices, CreateProfessional,
     RemoveProfessional, RemoveAccount, RemoveService, CreateService, Pull,
     RemoveUser, Edit, Refuse, Reply, Goto
<1>2. ASSUME NEW p \in Professionals, NEW s \in Services,
             \/ BookPublic(r, p, s)
             \/ \E u \in Users : BookAdmin(r, p, s, u)
      PROVE  Goal
  BY <1>2, <1>t DEF BookPublic, BookAdmin, Names, Ask, Refuse, Reply, Goto
<1>3. CASE Offers(r)
  BY <1>3, <1>t DEF Offers, Refuse, Reply, Goto
<1>4. CASE Client(r)
  <2>1. CASE Refuse(r)
    BY <1>4, <2>1, <1>t DEF Client, Refuse, Reply, Goto
  <2>2. ASSUME NEW u \in Clients, Goto(r, "insert"),
               job' = [job EXCEPT ![r].client = u]
        PROVE  Goal
    <3>1. pc'[r] = "insert" /\ job'[r].appt = job[r].appt
      BY <2>2, <1>t DEF Goto, Job
    <3>2. pc[r] = "client"
      BY <1>4 DEF Client
    <3> QED BY <3>1, <3>2
  <2> QED BY <1>4, <2>1, <2>2 DEF Client
<1>5. CASE Insert(r)
  <2>1. CASE Refuse(r)
    BY <1>5, <2>1, <1>t DEF Insert, Refuse, Reply, Goto
  <2>2. CASE ~Refuse(r)
    <3>1. /\ pc[r] = "insert" /\ pc'[r] = "written" /\ job'[r].appt = r
          /\ appt'[r].stage = "live"
      BY <1>5, <2>2, <1>t DEF Insert, Goto, Appts
    <3> QED BY <3>1
  <2> QED BY <2>1, <2>2
<1>6. ASSUME NEW a \in Appts, Confirm(r, a) PROVE Goal
  <2>1. CASE Refuse(r)
    BY <1>6, <2>1, <1>t DEF Confirm, Knows, Refuse, Reply, Goto
  <2>2. CASE About(r, "confirm", a) /\ Wrote(r, a) /\ appt[a].stage = "live"
    <3>1. /\ pc[r] = "idle" /\ pc'[r] = "written" /\ job'[r].appt = a
          /\ appt'[a].stage = "live"
      BY <1>6, <2>2, <1>t DEF Confirm, Knows, About, Wrote, Goto, Job,
         Appointment
    <3> QED BY <3>1
  <2> QED BY <1>6, <2>1, <2>2 DEF Confirm
<1>7. ASSUME \/ \E a \in Appts :
                  \/ NoShow(r, a)
                  \/ \E kind \in {"cancel", "reschedule", "remove"} :
                       Read(r, kind, a)
             \/ Check(r) \/ Delete(r)
      PROVE  Goal
  BY <1>0, <1>7, <1>t DEF NoShow, Read, Knows, Check, Delete, Refuse, Reply, Goto
<1>8. CASE Save(r)
  <2>1. job[r].appt \in Appts /\ pc[r] = "save"
    BY <1>8, <1>t DEF Save, Job
  <2>2. appt[job[r].appt].stage # "unborn"
    BY <2>1 DEF CatalogInv, TypeInv, Carried, CarriedBy
  <2>3. CASE pc'[r] = "written"
    <3>1. Act(r)
      BY <1>8 DEF Act, Change
    <3>2. UNCHANGED job
      BY <1>8, <2>3, <1>t DEF Save, Reply, Goto
    <3>3. appt'[job[r].appt].stage # "unborn"
      BY <2>1, <2>2, <3>1, ApptsKeep
    <3> QED BY <2>1, <2>3, <3>2, <3>3
  <2>4. CASE pc'[r] # "written"
    BY <1>0, <1>8, <2>1, <2>4, <1>t DEF Save, Wrote, Reply, Goto
  <2> QED BY <2>3, <2>4
<1> QED
  BY <1>1, <1>2, <1>3, <1>4, <1>5, <1>6, <1>7, <1>8 DEF Work, Book, Change

\* What does not concern the telling of x leaves it as it is.
LEMMA UntouchedNews ==
  ASSUME CatalogInv, NewsTypeOK, NEW r \in Requests, Act(r),
         NEW x \in Requests, News(x),
         pc'[x] = pc[x], job'[x] = job[x],
         UNCHANGED <<mail, text, copy, asking, found, mails, texts>>,
         wrote'[x] = wrote[x], removed'[x] = removed[x]
  PROVE  News(x)'
<1>1. job[x].appt \in Appts
  BY Typed DEF CatalogInv, Job
<1>2. Telling(x)' = Telling(x)
  BY DEF Telling
<1>3. wrote[x] \in Nat /\ GoneUsers \subseteq GoneUsers'
  BY GoneKeeps DEF NewsTypeOK
<1>4. Telling(x) => Of(x)'.stage # "unborn" /\ Of(x)'.rev >= wrote[x]
  <2>1. ASSUME Telling(x)
        PROVE  appt'[job[x].appt].stage # "unborn"
                 /\ appt'[job[x].appt].rev >= wrote[x]
    BY <1>1, <1>3, <2>1, ApptsKeep DEF News, Of
  <2> QED BY <2>1 DEF Of
<1> QED BY <1>2, <1>3, <1>4 DEF News

LEMMA WorkNews ==
  ASSUME CatalogInv, NewsInv, NEW r \in Requests, Work(r)
  PROVE  NewsInv'
<1>a. Act(r) /\ UNCHANGED <<mail, text, copy, asking, found, mails, texts>>
  BY DEF Work, Act
<1>n. News(r) /\ NewsTypeOK
  BY DEF NewsInv
<1>w. /\ pc[r] \notin {"written", "done"}
      /\ pc'[r] = "written" => appt'[job'[r].appt].stage # "unborn"
      /\ pc'[r] \in {"offers", "client", "insert"} =>
           \/ job'[r].appt = r
           \/ pc[r] \in {"offers", "client"} /\ job'[r].appt = job[r].appt
  BY <1>n, WorkWrites DEF News
<1>t. CatalogInv'
  <2>1. NewsNext
    BY DEF NewsNext
  <2> QED BY <2>1, CatalogStays
<1>g. GoneUsers \subseteq GoneUsers' /\ GoneUsers \subseteq Users
  BY <1>a, GoneKeeps DEF GoneUsers
<1>1. CASE pc'[r] = "written"
  <2>0. /\ job' \in [Requests -> Job]
        /\ appt' \in [Appts -> Appointment]
    BY <1>t DEF CatalogInv, TypeInv, TypeOK, Appointment
  <2>1. Of(r)'.rev \in Nat
    BY <2>0 DEF Of, Job, Appointment
  <2>2. /\ wrote' = [wrote EXCEPT ![r] = Of(r)'.rev]
        /\ removed' = [removed EXCEPT ![r] = GoneUsers]
    BY <1>1 DEF Work, Of
  <2>3. NewsTypeOK'
    BY <1>a, <1>n, <1>g, <2>1, <2>2 DEF NewsTypeOK
  <2>4. ASSUME NEW x \in Requests, x # r PROVE News(x)'
    <3>1. /\ pc'[x] = pc[x] /\ job'[x] = job[x]
          /\ wrote'[x] = wrote[x] /\ removed'[x] = removed[x]
      BY <1>a, <1>n, <2>2, <2>4, OthersStay DEF NewsTypeOK
    <3> QED BY <1>a, <1>n, <3>1, UntouchedNews DEF NewsInv
  <2>5. News(r)'
    <3>1. /\ mail[r] = "none" /\ text[r] = "none"
          /\ \A m \in mails : m.by # r
          /\ \A t \in texts : t.by # r
      BY <1>n, <1>w DEF News
    <3>2. wrote'[r] = Of(r)'.rev /\ removed'[r] = GoneUsers
      BY <1>n, <2>2 DEF NewsTypeOK
    <3>3. Of(r)'.stage # "unborn"
      BY <1>1, <1>w DEF Of
    <3> QED BY <1>1, <1>a, <1>g, <2>1, <3>1, <3>2, <3>3 DEF News
  <2> QED BY <2>3, <2>4, <2>5 DEF NewsInv
<1>2. CASE pc'[r] # "written"
  <2>1. UNCHANGED <<wrote, removed>>
    BY <1>2 DEF Work
  <2>2. NewsTypeOK'
    BY <1>a, <1>n, <2>1 DEF NewsTypeOK
  <2>3. ASSUME NEW x \in Requests, x # r PROVE News(x)'
    BY <1>a, <1>n, <2>1, <2>3, OthersStay, UntouchedNews DEF NewsInv
  <2>4. News(r)'
    <3>1. ~Telling(r)'
      BY <1>2, <1>a, <1>n, <1>w DEF Telling, News
    <3> QED BY <1>a, <1>g, <1>n, <1>w, <2>1, <3>1 DEF News
  <2> QED BY <2>2, <2>3, <2>4 DEF NewsInv
<1> QED BY <1>1, <1>2

\* A request that is answered or fails is done, and what it told of stays.
LEMMA EndNews ==
  ASSUME CatalogInv, NewsInv, NEW r \in Requests,
         AnswerTold(r) \/ FailSilently(r)
  PROVE  NewsInv'
<1>a. Act(r) /\ UNCHANGED news
  BY DEF AnswerTold, FailSilently, Act
<1>n. News(r) /\ NewsTypeOK
  BY DEF NewsInv
<1>1. NewsTypeOK'
  BY <1>a, <1>n DEF news, NewsTypeOK
<1>2. ASSUME NEW x \in Requests, x # r PROVE News(x)'
  BY <1>a, <1>n, <1>2, OthersStay, UntouchedNews DEF NewsInv, news
<1>3. News(r)'
  <2>1. pc'[r] = "done" /\ pc[r] # "done"
    BY Typed DEF AnswerTold, FailSilently, Answer, Fail, Reply, Goto, CatalogInv
  <2>2. CASE pc[r] = "written"
    <3>1. UNCHANGED job
      BY <2>2 DEF AnswerTold, FailSilently, Answer, Fail
    <3>2. UNCHANGED <<appt, user>>
      BY DEF AnswerTold, FailSilently, Answer, Fail, catalog
    <3> QED BY <1>a, <1>n, <2>1, <2>2, <3>1, <3>2
            DEF News, Telling, Of, GoneUsers, news
  <2>3. CASE pc[r] # "written"
    <3>1. /\ ~Telling(r)'
          /\ mail[r] = "none" /\ text[r] = "none"
      BY <1>a, <1>n, <2>1, <2>3 DEF News, Telling, news
    <3>2. UNCHANGED user
      BY DEF AnswerTold, FailSilently, Answer, Fail, catalog
    <3> QED BY <1>a, <1>n, <2>1, <3>1, <3>2 DEF News, GoneUsers, news
  <2> QED BY <2>2, <2>3
<1> QED BY <1>1, <1>2, <1>3 DEF NewsInv

\* What an appointment that is there refers to.
LEMMA ConcernedAreUsers ==
  ASSUME CatalogInv, NEW r \in Requests, Of(r).stage # "unborn"
  PROVE  /\ Of(r).client \in Users /\ Of(r).prof \in Professionals
         /\ professional[Of(r).prof].user \in Users
         /\ Of(r).public \in BOOLEAN /\ Of(r).rev \in Nat
<1>1. job[r].appt \in Appts /\ appt \in [Appts -> Appointment]
  BY Typed DEF CatalogInv, Job
<1>2. Of(r).client \in Users /\ Of(r).prof \in Professionals
  BY <1>1 DEF CatalogInv, TypeInv, TypeOK, Of
<1>3. professional[Of(r).prof].user \in Users
  BY <1>2, Typed DEF CatalogInv, Professional
<1>4. Of(r).public \in BOOLEAN /\ Of(r).rev \in Nat
  BY <1>1 DEF Of, Appointment
<1> QED BY <1>2, <1>3, <1>4

LEMMA FindMoves ==
  ASSUME NEW r \in Requests, NEW k \in Roles, NEW U \in SUBSET Users,
         Find(r, k, U), found \in [Requests -> SUBSET Entry]
  PROVE  /\ found' \in [Requests -> SUBSET Entry]
         /\ \A x \in Requests \ {r} : found'[x] = found[x]
         /\ \A e : e \in found'[r] <=>
              \/ e \in found[r]
              \/ \E u \in U : IsLive(u) /\ e = [as |-> k, user |-> u]
<1> DEFINE new == {[as |-> k, user |-> u] : u \in {v \in U : IsLive(v)}}
<1>1. new \subseteq Entry
  BY DEF Entry
<1>2. found' = [found EXCEPT ![r] = found[r] \cup new]
  BY DEF Find
<1>3. \A e : e \in new <=> \E u \in U : IsLive(u) /\ e = [as |-> k, user |-> u]
  OBVIOUS
<1> HIDE DEF new
<1> QED BY <1>1, <1>2, <1>3

LEMMA AskingMoves ==
  ASSUME NEW r \in Requests, NEW q \in References, NEW A \in SUBSET References,
         LookedUp(r, q, A), asking \in [Requests -> SUBSET References]
  PROVE  /\ asking' \in [Requests -> SUBSET References]
         /\ asking'[r] = (asking[r] \ {q}) \cup A
         /\ \A x \in Requests \ {r} : asking'[x] = asking[x]
<1>1. asking' = [asking EXCEPT ![r] = (asking[r] \ {q}) \cup A]
  BY DEF LookedUp
<1> QED BY <1>1

\* A query adds people to those found, and other queries to those under way.
LEMMA GatherMoves ==
  ASSUME CatalogInv, NewsTypeOK, NEW r \in Requests, Gather(r),
         Of(r).stage # "unborn"
  PROVE  /\ pc[r] = "written" /\ mail[r] = "read"
         /\ UNCHANGED <<text, copy, mails, texts>>
         /\ mail' = mail \/ mail' = [mail EXCEPT ![r] = "send"]
         /\ asking' \in [Requests -> SUBSET References]
         /\ found' \in [Requests -> SUBSET Entry]
         /\ \A x \in Requests \ {r} :
              asking'[x] = asking[x] /\ found'[x] = found[x]
<1>d. /\ asking \in [Requests -> SUBSET References]
      /\ found \in [Requests -> SUBSET Entry]
  BY DEF NewsTypeOK
<1>u. /\ Of(r).client \in Users /\ professional[Of(r).prof].user \in Users
      /\ Admins \subseteq Users
  BY ConcernedAreUsers, AnnouncementsAssumption
<1>f. \A k \in Roles, U \in SUBSET Users : Find(r, k, U) =>
        /\ found' \in [Requests -> SUBSET Entry]
        /\ \A x \in Requests \ {r} : found'[x] = found[x]
  BY <1>d, FindMoves
<1>a. \A q \in References, A \in SUBSET References : LookedUp(r, q, A) =>
        /\ asking' \in [Requests -> SUBSET References]
        /\ \A x \in Requests \ {r} : asking'[x] = asking[x]
  BY <1>d, AskingMoves
<1>1. CASE LookupClient(r)
  <2>1. Find(r, "client", {Of(r).client}) /\ LookedUp(r, "client", {})
    BY <1>1 DEF LookupClient
  <2>2. {Of(r).client} \in SUBSET Users /\ "client" \in Roles
          /\ {} \in SUBSET References
    BY <1>u DEF Roles
  <2>3. /\ found' \in [Requests -> SUBSET Entry]
        /\ \A x \in Requests \ {r} : found'[x] = found[x]
    BY <1>f, <2>1, <2>2
  <2>4. /\ asking' \in [Requests -> SUBSET References]
        /\ \A x \in Requests \ {r} : asking'[x] = asking[x]
    BY <1>a, <2>1, <2>2 DEF References
  <2> QED BY <1>1, <2>3, <2>4 DEF LookupClient, Lookup, Mailing
<1>2. CASE LookupProfessional(r)
  <2>1. \E next \in SUBSET References : LookedUp(r, "professional", next)
    BY <1>2 DEF LookupProfessional, References
  <2> QED BY <1>2, <1>a, <1>d, <2>1 DEF LookupProfessional, Lookup, Mailing
<1>3. CASE LookupStaff(r)
  <2>1. Find(r, "staff", {professional[Of(r).prof].user}) /\ LookedUp(r, "staff", {})
    BY <1>3 DEF LookupStaff
  <2>2. {professional[Of(r).prof].user} \in SUBSET Users /\ "staff" \in Roles
          /\ {} \in SUBSET References
    BY <1>u DEF Roles
  <2>3. /\ found' \in [Requests -> SUBSET Entry]
        /\ \A x \in Requests \ {r} : found'[x] = found[x]
    BY <1>f, <2>1, <2>2
  <2>4. /\ asking' \in [Requests -> SUBSET References]
        /\ \A x \in Requests \ {r} : asking'[x] = asking[x]
    BY <1>a, <2>1, <2>2 DEF References
  <2> QED BY <1>3, <2>3, <2>4 DEF LookupStaff, Lookup, Mailing
<1>4. CASE FindAdmins(r)
  <2>1. Find(r, "admin", Admins) /\ "admin" \in Roles
    BY <1>4 DEF FindAdmins, Roles
  <2> QED BY <1>4, <1>d, <1>f, <1>u, <2>1 DEF FindAdmins, Mailing
<1> QED BY <1>1, <1>2, <1>3, <1>4 DEF Gather

\* What a step that tells does to the messages of its own request.
LEMMA TellNews ==
  ASSUME CatalogInv, NewsInv, NEW r \in Requests, Tell(r)
  PROVE  /\ NewsInv'
         /\ UNCHANGED <<wrote, removed, vars>>
         /\ mails' # mails => /\ MailSend(r) /\ Of(r).stage # "unborn"
                              /\ \A m \in mails : m.by # r
         /\ texts' # texts => Of(r).stage # "unborn"
<1>v. UNCHANGED vars /\ UNCHANGED <<wrote, removed>>
  BY TellLeavesCatalog
     DEF Tell, MailRead, Gather, LookupClient, LookupProfessional, LookupStaff,
         Lookup, FindAdmins, MailSend, MailFails, TextSend
<1>u. UNCHANGED <<pc, job, appt, user, professional>>
  BY <1>v DEF vars, catalog
<1>n. NewsTypeOK /\ News(r)
  BY DEF NewsInv
<1>d. /\ mail \in [Requests -> {"none", "read", "send", "told", "failed"}]
      /\ text \in [Requests -> {"none", "started", "end"}]
      /\ copy \in [Requests -> Nat]
      /\ wrote \in [Requests -> Nat]
      /\ asking \in [Requests -> SUBSET References]
      /\ found \in [Requests -> SUBSET Entry]
  BY <1>n DEF NewsTypeOK
<1>t. Telling(r)
  BY DEF Tell, MailRead, Gather, LookupClient, LookupProfessional, LookupStaff,
     Lookup, FindAdmins, Mailing, MailSend, MailFails, TextSend, Telling
<1>o. Of(r).stage # "unborn" /\ Of(r).rev >= wrote[r] /\ Of(r).rev \in Nat
  BY <1>n, <1>t, ConcernedAreUsers DEF News
<1>f. Of(r)' = Of(r) /\ GoneUsers' = GoneUsers
  BY <1>u DEF Of, GoneUsers
<1>e. ASSUME NEW step \in {"told", "failed"}, EndMail(r, step),
             pc[r] = "written", mail[r] \in {"none", "read", "send"},
             mails' \subseteq Mail, UNCHANGED texts, mails \subseteq mails',
             \A m \in mails' \ mails : m.by = r,
             step = "failed" => mails' = mails
      PROVE  NewsInv'
  <2>1. /\ mail' = [mail EXCEPT ![r] = step]
        /\ text' = [text EXCEPT ![r] = "started"]
        /\ copy' = [copy EXCEPT ![r] = 0]
        /\ asking' = [asking EXCEPT ![r] = {}]
        /\ found' = [found EXCEPT ![r] = {}]
    BY <1>e DEF EndMail
  <2>2. NewsTypeOK'
    BY <1>d, <1>e, <1>n, <1>v, <2>1 DEF NewsTypeOK, Mail
  <2>3. ASSUME NEW x \in Requests, x # r PROVE News(x)'
    <3>1. News(x)
      BY DEF NewsInv
    <3>2. /\ mail'[x] = mail[x] /\ text'[x] = text[x] /\ copy'[x] = copy[x]
          /\ asking'[x] = asking[x] /\ found'[x] = found[x]
      BY <1>d, <2>1, <2>3
    <3> QED BY <1>e, <1>u, <1>v, <2>3, <3>1, <3>2
            DEF News, Telling, Of, GoneUsers
  <2>4. text[r] = "none" /\ \A t \in texts : t.by # r
    BY <1>e, <1>n DEF News
  <2>5. mail'[r] = step /\ text'[r] = "started"
    BY <1>d, <2>1
  <2>6. step # "told" => \A m \in mails' : m.by # r
    BY <1>e, <1>n DEF News
  <2>7. News(r)'
    BY <1>e, <1>f, <1>n, <1>o, <1>u, <1>v, <2>1, <2>4, <2>5, <2>6
       DEF News, Telling
  <2> QED BY <2>2, <2>3, <2>7 DEF NewsInv
<1>m. mails \subseteq Mail
  BY <1>n DEF NewsTypeOK, Mail
<1>1. CASE MailRead(r)
  <2>0. Mailing(r, "none") /\ UNCHANGED <<mails, texts>>
    BY <1>1 DEF MailRead
  <2>1. CASE EndMail(r, "told")
    BY <1>e, <1>m, <1>v, <2>0, <2>1 DEF Mailing
  <2>2. CASE StartMail(r, Of(r).rev) /\ UNCHANGED found
    <3>1. /\ pc[r] = "written" /\ mail[r] = "none"
          /\ mail' = [mail EXCEPT ![r] = "read"]
          /\ copy' = [copy EXCEPT ![r] = Of(r).rev]
          /\ asking' = [asking EXCEPT ![r] = {"client", "professional"}]
          /\ UNCHANGED <<text, mails, texts>>
      BY <2>0, <2>2 DEF StartMail, Mailing
    <3>2. NewsTypeOK'
      BY <1>n, <1>o, <1>v, <2>2, <3>1 DEF NewsTypeOK, References
    <3>3. ASSUME NEW x \in Requests, x # r PROVE News(x)'
      <4>1. News(x)
        BY DEF NewsInv
      <4>2. mail'[x] = mail[x] /\ copy'[x] = copy[x]
        BY <1>d, <3>1, <3>3
      <4> QED BY <1>u, <1>v, <3>1, <4>1, <4>2 DEF News, Telling, Of, GoneUsers
    <3>4. mail'[r] = "read" /\ copy'[r] = Of(r).rev /\ text[r] = "none"
      BY <1>d, <1>n, <3>1 DEF News
    <3>5. News(r)'
      BY <1>f, <1>n, <1>o, <1>u, <1>v, <3>1, <3>4 DEF News, Telling
    <3> QED BY <1>v, <2>0, <3>2, <3>3, <3>5 DEF NewsInv
  <2> QED BY <1>1, <1>v, <2>0, <2>1, <2>2 DEF MailRead
<1>2. CASE Gather(r)
  <2>1. /\ pc[r] = "written" /\ mail[r] = "read"
        /\ UNCHANGED <<text, copy, mails, texts>>
        /\ mail' = mail \/ mail' = [mail EXCEPT ![r] = "send"]
        /\ asking' \in [Requests -> SUBSET References]
        /\ found' \in [Requests -> SUBSET Entry]
    BY <1>2, <1>n, <1>o, GatherMoves
  <2>2. NewsTypeOK'
    BY <1>d, <1>n, <1>v, <2>1 DEF NewsTypeOK
  <2>3. ASSUME NEW x \in Requests, x # r PROVE News(x)'
    <3>1. News(x) /\ mail'[x] = mail[x]
      BY <1>d, <2>1, <2>3 DEF NewsInv
    <3> QED BY <1>u, <1>v, <2>1, <3>1 DEF News, Telling, Of, GoneUsers
  <2>4. mail'[r] \in {"read", "send"}
    BY <1>d, <2>1
  <2>5. News(r)'
    BY <1>f, <1>n, <1>o, <1>u, <1>v, <2>1, <2>4 DEF News, Telling
  <2> QED BY <1>v, <2>1, <2>2, <2>3, <2>5 DEF NewsInv
<1>3. CASE MailSend(r)
  <2>1. PICK S \in SUBSET found[r] : mails' = mails \cup {Email(r, e) : e \in S}
    BY <1>3 DEF MailSend
  <2>2. \A e \in S : Email(r, e) \in Mail /\ Email(r, e).by = r
    <3>1. ASSUME NEW e \in S PROVE Email(r, e) \in Mail /\ Email(r, e).by = r
      <4>1. e \in Entry
        BY <1>d, <3>1
      <4>2. Linked(r, e) \in BOOLEAN
        BY <1>o, ConcernedAreUsers DEF Linked
      <4> QED BY <1>d, <4>1, <4>2 DEF Email, Mail, Entry
    <3> QED BY <3>1
  <2>3. mails' \subseteq Mail /\ \A m \in mails' \ mails : m.by = r
    BY <1>m, <2>1, <2>2
  <2>4. /\ EndMail(r, "told") /\ pc[r] = "written" /\ mail[r] = "send"
        /\ UNCHANGED texts
    BY <1>3 DEF MailSend, Mailing
  <2>5. NewsInv'
    BY <1>e, <2>1, <2>3, <2>4
  <2>6. \A m \in mails : m.by # r
    BY <1>n, <2>4 DEF News
  <2> QED BY <1>3, <1>o, <1>v, <2>4, <2>5, <2>6
<1>4. CASE MailFails(r)
  <2>1. /\ EndMail(r, "failed") /\ pc[r] = "written"
        /\ mail[r] \in {"none", "read", "send"}
        /\ UNCHANGED <<mails, texts>>
    BY <1>4 DEF MailFails
  <2> QED BY <1>e, <1>m, <1>v, <2>1
<1>5. CASE TextSend(r)
  <2>1. /\ text[r] = "started"
        /\ UNCHANGED <<mail, copy, asking, found, mails>>
        /\ text' = [text EXCEPT ![r] = "end"]
        /\ \A t \in texts' \ texts :
             t = [by |-> r, to |-> Of(r).client, rev |-> Of(r).rev]
        /\ texts \subseteq texts'
    BY <1>5 DEF TextSend
  <2>2. [by |-> r, to |-> Of(r).client, rev |-> Of(r).rev] \in Text
    BY <1>o, ConcernedAreUsers DEF Text
  <2>3. NewsTypeOK'
    BY <1>n, <1>v, <2>1, <2>2 DEF NewsTypeOK, Text
  <2>4. \A t \in texts' \ texts : t.by = r
    BY <2>1
  <2>5. ASSUME NEW x \in Requests, x # r PROVE News(x)'
    BY <1>d, <1>u, <1>v, <2>1, <2>4, <2>5
       DEF NewsInv, News, Telling, Of, GoneUsers
  <2>6. News(r)'
    <3>1. text'[r] = "end" /\ mail[r] \notin {"none", "read", "send"}
      BY <1>d, <1>n, <2>1 DEF News
    <3> QED BY <1>n, <1>o, <1>f, <1>u, <1>v, <2>1, <3>1 DEF News, Telling
  <2> QED BY <1>o, <1>v, <2>1, <2>3, <2>5, <2>6 DEF NewsInv
<1> QED BY <1>1, <1>2, <1>3, <1>4, <1>5 DEF Tell

LEMMA InitNews == NewsInit => CatalogInv /\ NewsInv
<1>1. Init => CatalogInv
  BY InitType, InitUnbooked DEF CatalogInv
<1>2. NewsInit => NewsInv
  BY DEF NewsInit, Init, NewsInv, NewsTypeOK, News, Telling
<1> QED BY <1>1, <1>2 DEF NewsInit

LEMMA StepNews ==
  ASSUME CatalogInv, NewsInv, [NewsNext]_allVars
  PROVE  NewsInv'
<1>1. CASE UNCHANGED allVars
  BY <1>1 DEF allVars, vars, catalog, news, NewsInv, NewsTypeOK, News, Telling,
     Of, GoneUsers
<1>2. CASE NewsNext
  BY <1>2, WorkNews, TellNews, EndNews DEF NewsNext, Tell, Gather
<1> QED BY <1>1, <1>2

\* Whatever is removed while NotificationsService runs its queries, every message
\* goes to an account or a mailbox of one: no step follows a missing reference.
THEOREM AllTypeCorrect == NewsSpec => []AllTypeOK
<1>1. CatalogInv /\ NewsInv => AllTypeOK
  BY DEF CatalogInv, TypeInv, NewsInv, AllTypeOK
<1> QED BY <1>1, InitNews, CatalogStays, StepNews, PTL DEF NewsSpec

----------------------------------------------------------------------------
(* What the messages say, and to whom.                                       *)

\* Who an appointment refers to, and one that is being booked, has been there.
Real ==
  /\ \A a \in Appts : appt[a].stage # "unborn" =>
       professional[appt[a].prof].stage # "unborn"
  /\ \A r \in Requests : pc[r] \in {"offers", "client", "insert"} =>
       professional[job[r].prof].stage # "unborn"

LEMMA InitReal == Init => Real
  BY DEF Init, Real, NoAppt

LEMMA ActReal ==
  ASSUME CatalogInv, Real, NEW r \in Requests, Act(r)
  PROVE  Real'
<1>t. /\ pc \in [Requests -> Steps]
      /\ job \in [Requests -> Job]
      /\ appt \in [Appts -> Appointment]
  BY Typed DEF CatalogInv
<1>s. \A p \in Professionals : professional[p].stage # "unborn" =>
        professional'[p].stage # "unborn"
  BY EachCatalog DEF CatalogInv, GoneStays
<1>c. pc[r] \in {"offers", "client", "insert"} => job[r].prof \in Professionals
  BY DEF CatalogInv, TypeInv, Carried, CarriedBy
<1>a. \A a \in Appts : appt[a].stage # "unborn" => appt[a].prof \in Professionals
  BY DEF CatalogInv, TypeInv, TypeOK
<1>1. ASSUME NEW x \in Requests, pc'[x] \in {"offers", "client", "insert"}
      PROVE  professional'[job'[x].prof].stage # "unborn"
  <2>1. CASE x # r
    <3>1. pc'[x] = pc[x] /\ job'[x] = job[x]
      BY <2>1, OthersStay
    <3>2. job[x].prof \in Professionals
      BY <1>1, <3>1 DEF CatalogInv, TypeInv, Carried, CarriedBy
    <3> QED BY <1>1, <1>s, <3>1, <3>2 DEF Real
  <2>2. CASE x = r
    <3>1. CASE EditCatalogue(r)
      BY <1>1, <1>t, <2>2, <3>1 DEF EditCatalogue, SetServices,
         CreateProfessional, RemoveProfessional, RemoveAccount, RemoveService,
         CreateService, Pull, RemoveUser, Edit, Refuse, Reply, Goto
    <3>2. ASSUME NEW p \in Professionals, NEW s \in Services,
                 \/ BookPublic(r, p, s)
                 \/ \E u \in Users : BookAdmin(r, p, s, u)
          PROVE  professional'[job'[x].prof].stage # "unborn"
      BY <1>1, <1>s, <1>t, <2>2, <3>2
         DEF BookPublic, BookAdmin, Names, Ask, Refuse, Reply, Goto
    <3>3. CASE Offers(r) \/ Client(r)
      <4>1. pc[r] \in {"offers", "client"}
        BY <3>3 DEF Offers, Client
      <4>2. job'[r].prof = job[r].prof
        BY <1>1, <1>t, <2>2, <3>3 DEF Offers, Client, Refuse, Reply, Goto, Job
      <4> QED BY <1>c, <1>s, <2>2, <4>1, <4>2 DEF Real
    <3>4. CASE Insert(r) \/ Change(r) \/ Answer(r) \/ Fail(r)
      BY <1>1, <1>t, <2>2, <3>4 DEF Insert, Change, Confirm, NoShow, Read,
         Check, Delete, Save, Wrote, Answer, Fail, Refuse, Reply, Goto
    <3> QED BY <3>1, <3>2, <3>3, <3>4 DEF Act, Book
  <2> QED BY <2>1, <2>2
<1>2. ASSUME NEW a \in Appts, appt'[a].stage # "unborn"
      PROVE  professional'[appt'[a].prof].stage # "unborn"
  <2>1. CASE appt[a].stage # "unborn"
    BY <1>a, <1>s, <2>1, ApptsKeep DEF Real
  <2>2. CASE appt[a].stage = "unborn"
    <3>1. a = r /\ pc[r] = "insert"
      <4>1. \A x \in Requests : pc[x] = "insert" => appt[x].stage = "unborn"
        BY DEF CatalogInv, Unbooked, Early, Steps
      <4>2. CatalogInv => TypeInv
        BY DEF CatalogInv
      <4> QED BY <1>2, <2>2, <4>1, <4>2, ApptsStay
    <3>2. Keeps(r)
      BY EachKeeps DEF CatalogInv
    <3>3. appt'[r].prof = job[r].prof
      BY <1>2, <1>t, <2>2, <3>1, <3>2 DEF Keeps, Appointment
    <3> QED BY <1>c, <1>s, <3>1, <3>3 DEF Real
  <2> QED BY <2>1, <2>2
<1> QED BY <1>1, <1>2 DEF Real

LEMMA StepReal ==
  ASSUME CatalogInv, Real, [NewsNext]_allVars
  PROVE  Real'
<1>1. CASE UNCHANGED vars
  BY <1>1 DEF vars, catalog, Real
<1>2. CASE Next
  BY <1>2, ActReal DEF Next, Act
<1> QED BY NewsIsNext, <1>1, <1>2

Moved(r) == Work(r) \/ AnswerTold(r) \/ FailSilently(r)

LEMMA MovedActs ==
  ASSUME NEW r \in Requests, Moved(r)
  PROVE  Act(r) /\ UNCHANGED <<mail, asking, found, mails, texts>>
  BY DEF Moved, Work, AnswerTold, FailSilently, Act, news

\* What a request tells stays true of what it tells about.
LEMMA ToldStays ==
  ASSUME CatalogInv, NewsInv, Real, NEW r \in Requests, Moved(r),
         NEW y \in Requests, mail[y] # "none" \/ text[y] = "end"
  PROVE  /\ Of(y)'.client = Of(y).client
         /\ Of(y)'.public = Of(y).public
         /\ Of(y)'.prof = Of(y).prof
         /\ professional'[Of(y).prof].user = professional[Of(y).prof].user
         /\ wrote'[y] = wrote[y] /\ removed'[y] = removed[y]
         /\ job'[y] = job[y]
<1>n. News(y) /\ NewsTypeOK
  BY DEF NewsInv
<1>o. /\ Of(y).stage # "unborn" /\ job[y].appt \in Appts
      /\ pc[y] \in {"written", "done"}
  BY <1>n, Typed DEF News, Telling, CatalogInv, Job, Steps
<1>1. CASE y = r
  <2>1. ~Work(r)
    BY <1>n, <1>o, <1>1, WorkWrites DEF News
  <2>2. AnswerTold(r) \/ FailSilently(r)
    BY <2>1 DEF Moved
  <2>3. pc[r] = "written"
    BY <1>o, <1>1, <2>2 DEF AnswerTold, FailSilently, Answer, Fail
  <2>4. UNCHANGED <<job, appt, professional, wrote, removed>>
    BY <2>2, <2>3 DEF AnswerTold, FailSilently, Answer, Fail, catalog, news
  <2> QED BY <2>4 DEF Of
<1>2. CASE y # r
  <2>1. Act(r) /\ job'[y] = job[y]
    BY <1>2, MovedActs, OthersStay
  <2>2. /\ Of(y)'.client = Of(y).client
        /\ Of(y)'.public = Of(y).public
        /\ Of(y)'.prof = Of(y).prof
    BY <1>o, <2>1, ApptsKeep DEF Of
  <2>3. Of(y).prof \in Professionals
    BY <1>o, ConcernedAreUsers
  <2>4. professional[Of(y).prof].stage # "unborn"
    BY <1>o DEF Real, Of
  <2>5. wrote'[y] = wrote[y] /\ removed'[y] = removed[y]
    BY <1>2, <1>n DEF Moved, Work, AnswerTold, FailSilently, news, NewsTypeOK
  <2> QED BY <2>1, <2>2, <2>3, <2>4, <2>5, GoneKeeps
<1> QED BY <1>1, <1>2

\* Whose message it is has told it.
LEMMA Tellers ==
  ASSUME NewsInv
  PROVE  /\ \A m \in mails : m.by \in Requests /\ mail[m.by] = "told"
         /\ \A t \in texts : t.by \in Requests /\ text[t.by] = "end"
  BY DEF NewsInv, NewsTypeOK, News

LEMMA StepCurrent ==
  ASSUME CatalogInv, NewsInv, Real, NewsIsCurrent, NewsNext
  PROVE  NewsIsCurrent'
<1>1. ASSUME NEW r \in Requests, Moved(r) PROVE NewsIsCurrent'
  BY <1>1, MovedActs, Tellers, ToldStays DEF NewsIsCurrent
<1>2. ASSUME NEW r \in Requests, Tell(r) PROVE NewsIsCurrent'
  <2>1. UNCHANGED wrote
    BY <1>2, TellNews
  <2>2. \A m \in mails' \ mails : m.by = r /\ m.rev >= wrote[r]
    <3>1. ASSUME MailSend(r)
          PROVE  /\ mail[r] = "send"
                 /\ \A m \in mails' \ mails : m.by = r /\ m.rev = copy[r]
      BY <3>1 DEF MailSend, Mailing, Email
    <3>2. mail[r] = "send" => copy[r] >= wrote[r]
      BY DEF NewsInv, News
    <3>3. mails' = mails \/ MailSend(r)
      BY <1>2, TellNews
    <3> QED BY <3>1, <3>2, <3>3
  <2>3. \A t \in texts' \ texts : t.by = r /\ t.rev >= wrote[r]
    <3>1. ASSUME texts' # texts
          PROVE  /\ text[r] = "started"
                 /\ \A t \in texts' \ texts : t.by = r /\ t.rev = Of(r).rev
      BY <1>2, <3>1 DEF Tell, MailRead, Gather, LookupClient,
         LookupProfessional, LookupStaff, Lookup, FindAdmins, MailSend,
         MailFails, TextSend
    <3>2. text[r] = "started" => Of(r).rev >= wrote[r]
      BY DEF NewsInv, News, Telling
    <3> QED BY <3>1, <3>2
  <2> QED BY <2>1, <2>2, <2>3 DEF NewsIsCurrent
<1> QED BY <1>1, <1>2 DEF NewsNext, Moved, Tell, Gather

NewsIInv == CatalogInv /\ NewsInv /\ Real

LEMMA InitNewsIInv == NewsInit => NewsIInv
  BY InitNews, InitReal DEF NewsInit, NewsIInv

LEMMA StepNewsIInv == NewsIInv /\ [NewsNext]_allVars => NewsIInv'
  BY CatalogStays, StepNews, StepReal DEF NewsIInv

\* NotificationsService reads the appointment after the request wrote it, with any
\* number of other requests at work on it: no email and no WhatsApp message tells
\* of the time before that write.
THEOREM NewsIsCurrentHolds == NewsSpec => []NewsIsCurrent
<1>1. NewsInit => NewsIsCurrent
  BY DEF NewsInit, NewsIsCurrent
<1>2. NewsIInv /\ NewsIsCurrent /\ [NewsNext]_allVars => NewsIsCurrent'
  <2>1. ASSUME NewsIsCurrent, UNCHANGED allVars PROVE NewsIsCurrent'
    BY <2>1 DEF allVars, news, NewsIsCurrent
  <2> QED BY <2>1, StepCurrent DEF NewsIInv
<1> QED BY <1>1, <1>2, InitNewsIInv, StepNewsIInv, PTL DEF NewsSpec

\* Who was found is there still to be told, or went since, and was not gone when
\* r wrote.
Known(r) ==
  /\ found[r] # {} => mail[r] # "none"
  /\ \A e \in found[r] :
       /\ e.user \in Users \ removed[r]
       /\ e.as = "admin" => e.user \in Admins
       /\ e.as = "staff" => e.user = professional[Of(r).prof].user
       /\ e.as = "client" => e.user = Of(r).client

AllKnown == \A r \in Requests : Known(r)

LEMMA MovedKnown ==
  ASSUME NewsIInv, AllKnown, NEW r \in Requests, Moved(r)
  PROVE  AllKnown'
<1> SUFFICES ASSUME NEW y \in Requests PROVE Known(y)'
  BY DEF AllKnown
<1>m. UNCHANGED <<mail, found>> /\ Known(y)
  BY MovedActs DEF AllKnown
<1>1. CASE mail[y] = "none"
  BY <1>m, <1>1 DEF Known
<1>2. CASE mail[y] # "none"
  <2>1. /\ Of(y)'.client = Of(y).client /\ Of(y)'.prof = Of(y).prof
        /\ professional'[Of(y).prof].user = professional[Of(y).prof].user
        /\ removed'[y] = removed[y]
    BY <1>2, ToldStays DEF NewsIInv
  <2> QED BY <1>m, <1>2, <2>1 DEF Known
<1> QED BY <1>1, <1>2

LEMMA TellKnown ==
  ASSUME NewsIInv, AllKnown, NEW r \in Requests, Tell(r)
  PROVE  AllKnown'
<1>u. UNCHANGED <<removed, appt, job, user, professional>>
  BY TellNews DEF NewsIInv, vars, catalog
<1>n. NewsTypeOK /\ News(r) /\ CatalogInv
  BY DEF NewsIInv, NewsInv
<1>d. /\ mail \in [Requests -> {"none", "read", "send", "told", "failed"}]
      /\ found \in [Requests -> SUBSET Entry]
  BY <1>n DEF NewsTypeOK
<1>o. Gather(r) => Of(r).stage # "unborn"
  BY <1>n DEF Gather, LookupClient, LookupProfessional, LookupStaff, Lookup,
     FindAdmins, Mailing, News, Telling
<1>k. \A x \in Requests : Known(x)
  BY DEF AllKnown
<1>w. \A u \in Users : IsLive(u) => u \in Users \ removed[r]
  BY <1>n DEF News, IsLive, GoneUsers
<1>s. ASSUME \A x \in Requests : \/ found'[x] = {}
                                 \/ found'[x] = found[x] /\ mail'[x] # "none"
                                 \/ found'[x] = found[x] /\ mail'[x] = mail[x]
      PROVE  AllKnown'
  <2>1. ASSUME NEW x \in Requests PROVE Known(x)'
    BY <1>k, <1>s, <1>u DEF Known, Of
  <2> QED BY <2>1 DEF AllKnown
<1>f. ASSUME NEW k \in Roles, NEW U \in SUBSET Users, Find(r, k, U),
             mail[r] = "read", mail'[r] # "none",
             \A x \in Requests \ {r} : mail'[x] = mail[x],
             k = "admin" => U \subseteq Admins,
             k = "staff" => U \subseteq {professional[Of(r).prof].user},
             k = "client" => U \subseteq {Of(r).client}
      PROVE  AllKnown'
  <2>1. \A e \in found'[r] \ found[r] :
          e.as = k /\ e.user \in U /\ IsLive(e.user)
    BY <1>d, <1>f, FindMoves
  <2>2. \A x \in Requests \ {r} : found'[x] = found[x]
    BY <1>d, <1>f, FindMoves
  <2>3. Known(r)'
    BY <1>f, <1>k, <1>u, <1>w, <2>1 DEF Known, Of
  <2>4. ASSUME NEW x \in Requests \ {r} PROVE Known(x)'
    BY <1>f, <1>k, <1>u, <2>2 DEF Known, Of
  <2> QED BY <2>3, <2>4 DEF AllKnown
<1>e. ASSUME NEW step \in {"told", "failed"}, EndMail(r, step) PROVE AllKnown'
  BY <1>d, <1>e, <1>s DEF EndMail
<1>1. CASE MailRead(r)
  BY <1>1, <1>d, <1>e, <1>s DEF MailRead, StartMail
<1>2. CASE LookupClient(r)
  <2>1. {Of(r).client} \in SUBSET Users /\ "client" \in Roles
    BY <1>2, <1>n, <1>o, ConcernedAreUsers DEF Gather, Roles
  <2> QED BY <1>2, <1>d, <1>f, <2>1 DEF LookupClient, Lookup, Mailing
<1>3. CASE LookupProfessional(r)
  BY <1>3, <1>s DEF LookupProfessional, Lookup
<1>4. CASE LookupStaff(r)
  <2>1. {professional[Of(r).prof].user} \in SUBSET Users /\ "staff" \in Roles
    BY <1>4, <1>n, <1>o, ConcernedAreUsers DEF Gather, Roles
  <2> QED BY <1>4, <1>d, <1>f, <2>1 DEF LookupStaff, Lookup, Mailing
<1>5. CASE FindAdmins(r)
  <2>1. Admins \in SUBSET Users /\ "admin" \in Roles
    BY AnnouncementsAssumption DEF Roles
  <2> QED BY <1>5, <1>d, <1>f, <2>1 DEF FindAdmins, Mailing
<1>6. CASE MailSend(r) \/ MailFails(r)
  BY <1>6, <1>e DEF MailSend, MailFails
<1>7. CASE TextSend(r)
  BY <1>7, <1>s DEF TextSend
<1> QED BY <1>1, <1>2, <1>3, <1>4, <1>5, <1>6, <1>7 DEF Tell, Gather

LEMMA StepKnown == NewsIInv /\ AllKnown /\ [NewsNext]_allVars => AllKnown'
<1>1. AllKnown /\ UNCHANGED allVars => AllKnown'
  BY DEF allVars, vars, catalog, news, AllKnown, Known, Of
<1> QED BY <1>1, MovedKnown, TellKnown DEF NewsNext, Moved, Tell, Gather

\* The three parts of OnlyTheConcernedAreTold, for one message each.
GoesTo(m, kind, a, there) ==
  /\ m.user \in there \cap (Admins \cup {a.client, professional[a.prof].user})
  /\ m.links => /\ a.public /\ kind # "cancel"
                /\ a.client \in there
                /\ Mailbox[m.user] = Mailbox[a.client]

OneEach == \A m, n \in mails : m.by = n.by /\ SameMailbox(m, n) => m = n

TextGoesTo(t) == t.to = Of(t.by).client /\ t.to \notin removed[t.by]

LEMMA InParts ==
  OnlyTheConcernedAreTold <=>
    /\ \A m \in mails :
         GoesTo(m, job[m.by].kind, Of(m.by), Users \ removed[m.by])
    /\ OneEach
    /\ \A t \in texts : TextGoesTo(t)
  BY DEF OnlyTheConcernedAreTold, GoesTo, OneEach, TextGoesTo, Of

LEMMA MovedTold ==
  ASSUME NewsIInv, OnlyTheConcernedAreTold, NEW r \in Requests, Moved(r)
  PROVE  OnlyTheConcernedAreTold'
<1>m. UNCHANGED <<mails, texts>>
  BY MovedActs
<1>1. ASSUME NEW m \in mails
      PROVE  GoesTo(m, job[m.by].kind, Of(m.by), Users \ removed[m.by])'
  <2>1. GoesTo(m, job[m.by].kind, Of(m.by), Users \ removed[m.by])
    BY InParts
  <2>2. /\ Of(m.by)'.client = Of(m.by).client
        /\ Of(m.by)'.public = Of(m.by).public
        /\ Of(m.by)'.prof = Of(m.by).prof
        /\ professional'[Of(m.by).prof].user = professional[Of(m.by).prof].user
        /\ removed'[m.by] = removed[m.by] /\ job'[m.by] = job[m.by]
    BY Tellers, ToldStays DEF NewsIInv
  <2> QED BY <2>1, <2>2 DEF GoesTo
<1>2. ASSUME NEW t \in texts PROVE TextGoesTo(t)'
  <2>1. TextGoesTo(t)
    BY InParts
  <2>2. /\ Of(t.by)'.client = Of(t.by).client
        /\ removed'[t.by] = removed[t.by]
    BY Tellers, ToldStays DEF NewsIInv
  <2> QED BY <2>1, <2>2 DEF TextGoesTo
<1>3. OneEach'
  BY <1>m, InParts DEF OneEach, SameMailbox
<1>4. /\ \A m \in mails' :
           GoesTo(m, job[m.by].kind, Of(m.by), Users \ removed[m.by])'
      /\ \A t \in texts' : TextGoesTo(t)'
  BY <1>m, <1>1, <1>2
<1> QED BY <1>3, <1>4
        DEF OnlyTheConcernedAreTold, GoesTo, OneEach, TextGoesTo, Of

LEMMA TellTold ==
  ASSUME NewsIInv, AllKnown, OnlyTheConcernedAreTold,
         NEW r \in Requests, Tell(r)
  PROVE  OnlyTheConcernedAreTold'
<1>u. UNCHANGED <<removed, vars>>
  BY TellNews DEF NewsIInv
<1>v. UNCHANGED <<removed, appt, job, user, professional>>
  BY <1>u DEF vars, catalog
<1>n. NewsTypeOK /\ News(r) /\ Known(r)
  BY DEF NewsIInv, NewsInv, AllKnown
<1>s. ASSUME MailSend(r)
      PROVE  \E S \in SUBSET found[r] :
               LastSet(S, found[r]) /\ mails' = mails \cup {Email(r, e) : e \in S}
  BY <1>s DEF MailSend
<1>1. ASSUME NEW m \in mails'
      PROVE  GoesTo(m, job[m.by].kind, Of(m.by), Users \ removed[m.by])
  <2>1. CASE m \in mails
    BY <2>1, InParts
  <2>2. CASE m \notin mails
    <3>1. MailSend(r)
      BY <2>2, TellNews DEF NewsIInv
    <3>2. PICK e \in found[r] : m = Email(r, e)
      BY <1>s, <2>2, <3>1
    <3>3. /\ m.by = r /\ m.as = e.as /\ m.user = e.user
          /\ m.links = Linked(r, e)
      BY <3>2 DEF Email
    <3>4. e \in Entry
      BY <1>n DEF NewsTypeOK
    <3>5. m.user \in (Users \ removed[r])
             \cap (Admins \cup {Of(r).client, professional[Of(r).prof].user})
      BY <1>n, <3>3, <3>4 DEF Known, Entry, Roles
    <3>6. m.links => /\ Of(r).public /\ job[r].kind # "cancel"
                     /\ Of(r).client \in Users \ removed[r]
                     /\ Mailbox[m.user] = Mailbox[Of(r).client]
      BY <1>n, <3>3 DEF Linked, Known, SameMailbox
    <3> QED BY <3>3, <3>5, <3>6 DEF GoesTo
  <2> QED BY <2>1, <2>2
<1>2. ASSUME NEW t \in texts' PROVE TextGoesTo(t)
  <2>1. CASE t \in texts
    BY <2>1, InParts
  <2>2. CASE t \notin texts
    <3>1. TextSend(r)
      BY <2>2 DEF Tell, MailRead, Gather, LookupClient, LookupProfessional,
         LookupStaff, Lookup, FindAdmins, MailSend, MailFails
    <3>2. IsLive(Of(r).client) /\ t.by = r /\ t.to = Of(r).client
      BY <2>2, <3>1 DEF TextSend
    <3>3. Of(r).client \notin removed[r]
      BY <1>n, <3>2 DEF News, IsLive, GoneUsers
    <3> QED BY <3>2, <3>3 DEF TextGoesTo
  <2> QED BY <2>1, <2>2
<1>3. OneEach'
  <2>0. OneEach
    BY InParts
  <2>1. CASE UNCHANGED mails
    BY <2>0, <2>1 DEF OneEach, SameMailbox
  <2>2. CASE MailSend(r) /\ \A m \in mails : m.by # r
    <3>1. PICK S \in SUBSET found[r] :
            LastSet(S, found[r]) /\ mails' = mails \cup {Email(r, e) : e \in S}
      BY <1>s, <2>2
    <3>2. ASSUME NEW e \in S, NEW f \in S, SameMailbox(Email(r, e), Email(r, f))
          PROVE  Email(r, e) = Email(r, f)
      BY <3>1, <3>2 DEF LastSet, SameMailbox, Email
    <3>3. \A e \in S : Email(r, e).by = r
      BY DEF Email
    <3>4. ASSUME NEW m \in mails', NEW n \in mails', m.by = n.by,
                 SameMailbox(m, n)
          PROVE  m = n
      <4>1. CASE m \in mails /\ n \in mails
        BY <2>0, <3>4, <4>1 DEF OneEach
      <4>2. CASE m \notin mails /\ n \notin mails
        BY <3>1, <3>2, <3>4, <4>2
      <4> QED BY <2>2, <3>1, <3>3, <3>4, <4>1, <4>2
    <3> QED BY <3>4 DEF OneEach, SameMailbox
  <2> QED BY <2>1, <2>2, TellNews DEF NewsIInv
<1>4. /\ \A m \in mails' :
           GoesTo(m, job[m.by].kind, Of(m.by), Users \ removed[m.by])'
      /\ \A t \in texts' : TextGoesTo(t)'
  BY <1>v, <1>1, <1>2 DEF GoesTo, TextGoesTo, Of
<1> QED BY <1>3, <1>4
        DEF OnlyTheConcernedAreTold, GoesTo, OneEach, TextGoesTo, Of

\* The recipients come from queries of their own, while accounts, professionals
\* and the appointment change and go: still nobody but the administrators, the
\* professional's account and the client is told, none who was gone when the
\* appointment was written; the links reach the client's mailbox alone, and no
\* mailbox gets two emails of an event, whoever shares it.
THEOREM OnlyTheConcernedAreToldHolds == NewsSpec => []OnlyTheConcernedAreTold
<1>1. NewsInit => OnlyTheConcernedAreTold /\ AllKnown
  BY DEF NewsInit, OnlyTheConcernedAreTold, AllKnown, Known
<1>2. NewsIInv /\ AllKnown /\ OnlyTheConcernedAreTold /\ [NewsNext]_allVars
        => OnlyTheConcernedAreTold'
  <2>1. ASSUME OnlyTheConcernedAreTold, UNCHANGED allVars
        PROVE  OnlyTheConcernedAreTold'
    BY <2>1 DEF allVars, vars, catalog, news, OnlyTheConcernedAreTold, SameMailbox
  <2> QED BY <2>1, MovedTold, TellTold DEF NewsNext, Moved, Tell, Gather
<1> QED
  BY <1>1, <1>2, InitNewsIInv, StepNewsIInv, StepKnown, PTL DEF NewsSpec

----------------------------------------------------------------------------
(* Everybody who is to be told.                                              *)

\* Accounts that somebody refers to have been there.
Accounted ==
  /\ \A u \in Admins : user[u] # "unborn"
  /\ \A p \in Professionals : user[professional[p].user] # "unborn"
  /\ \A a \in Appts : appt[a].stage # "unborn" =>
       user[appt[a].client] # "unborn"
  /\ \A r \in Requests : pc[r] = "insert" => user[job[r].client] # "unborn"

\* So who is there later was there when the emails were handed in.
LEMMA NobodyComesBack ==
  ASSUME CatalogInv, NEW r \in Requests, Act(r)
  PROVE  /\ \A u \in Users : user[u] # "unborn" =>
              user'[u] # "unborn" /\ (user'[u] = "live" => user[u] = "live")
         /\ \A p \in Professionals : professional[p].stage # "unborn" =>
              (professional'[p].stage = "live" => professional[p].stage = "live")
         /\ \A a \in Appts : appt[a].stage # "unborn" =>
              (appt'[a].stage = "live" => appt[a].stage = "live")
<1>t. /\ user \in [Users -> Stage] /\ professional \in [Professionals -> Professional]
      /\ appt \in [Appts -> Appointment] /\ job \in [Requests -> Job]
  BY Typed DEF CatalogInv
<1>1. \A u \in Users : user[u] # "unborn" =>
        user'[u] # "unborn" /\ (user'[u] = "live" => user[u] = "live")
  <2>1. \A u \in Users : user[u] = "gone" => user'[u] = "gone"
    BY EachCatalog DEF CatalogInv, GoneStays
  <2>2. \A u \in Users : user'[u] = "unborn" => user[u] = "unborn"
    BY <1>t DEF Act, EditCatalogue, SetServices, CreateProfessional,
       RemoveProfessional, RemoveAccount, RemoveService, CreateService, Pull,
       RemoveUser, Book, BookPublic, BookAdmin, Offers, Client, Insert, Change,
       Confirm, NoShow, Read, Check, Delete, Save, Answer, Fail, catalog
  <2> QED BY <1>t, <2>1, <2>2 DEF Stage
<1>2. \A p \in Professionals : professional[p].stage # "unborn" =>
        (professional'[p].stage = "live" => professional[p].stage = "live")
  BY <1>t, EachCatalog DEF CatalogInv, GoneStays, Professional, Stage
<1>3. \A a \in Appts : appt[a].stage # "unborn" =>
        (appt'[a].stage = "live" => appt[a].stage = "live")
  <2>1. Keeps(r)
    BY EachKeeps DEF CatalogInv
  <2>2. pc[r] = "insert" => appt[r].stage = "unborn"
    BY DEF CatalogInv, Unbooked, Early, Steps
  <2> QED BY <1>t, <2>1, <2>2 DEF Keeps, Appointment
<1> QED BY <1>1, <1>2, <1>3

LEMMA InitAccounted == Init => Accounted
<1>1. \A a \in Appts : NoAppt.stage = "unborn"
  BY DEF NoAppt
<1> QED BY <1>1, AnnouncementsAssumption DEF Init, Accounted

LEMMA ActAccounted ==
  ASSUME CatalogInv, Accounted, NEW r \in Requests, Act(r)
  PROVE  Accounted'
<1>t. /\ pc \in [Requests -> Steps]
      /\ job \in [Requests -> Job]
      /\ appt \in [Appts -> Appointment]
      /\ user \in [Users -> Stage]
      /\ professional \in [Professionals -> Professional]
  BY Typed DEF CatalogInv
<1>u. \A u \in Users : user[u] # "unborn" => user'[u] # "unborn"
  BY NobodyComesBack
<1>1. \A u \in Admins : user'[u] # "unborn"
  BY <1>u, AnnouncementsAssumption DEF Accounted
<1>2. ASSUME NEW p \in Professionals
      PROVE  user'[professional'[p].user] # "unborn"
  <2>1. CASE professional'[p].user = professional[p].user
    BY <1>t, <1>u, <2>1 DEF Accounted, Professional
  <2>2. ASSUME NEW q \in Professionals, NEW u \in Users,
               NEW S \in SUBSET Services, CreateProfessional(r, q, u, S)
        PROVE  \/ professional'[p].user = professional[p].user
               \/ user[professional'[p].user] # "unborn"
                    /\ professional'[p].user \in Users
    BY <1>t, <2>2 DEF CreateProfessional
  <2>3. \/ professional'[p].user = professional[p].user
        \/ \E q \in Professionals, u \in Users, S \in SUBSET Services :
             CreateProfessional(r, q, u, S)
    BY <1>t DEF Act, EditCatalogue, SetServices, Give, RemoveProfessional,
       RemoveAccount, RemoveService, CreateService, Pull, RemoveUser, Book,
       BookPublic, BookAdmin, Offers, Client, Insert, Change, Confirm, NoShow,
       Read, Check, Delete, Save, Answer, Fail, catalog, Professional
  <2> QED BY <1>u, <2>1, <2>2, <2>3
<1>3. ASSUME NEW x \in Requests, pc'[x] = "insert"
      PROVE  user'[job'[x].client] # "unborn"
  <2>1. CASE x # r
    <3>1. pc[x] = "insert" /\ job'[x] = job[x]
      BY <1>3, <2>1, OthersStay
    <3>2. job[x].client \in Users
      BY <3>1 DEF CatalogInv, TypeInv, Carried, CarriedBy
    <3> QED BY <1>u, <3>1, <3>2 DEF Accounted
  <2>2. CASE x = r
    <3>1. CASE EditCatalogue(r)
      BY <1>3, <1>t, <2>2, <3>1 DEF EditCatalogue, SetServices,
         CreateProfessional, RemoveProfessional, RemoveAccount, RemoveService,
         CreateService, Pull, RemoveUser, Edit, Refuse, Reply, Goto
    <3>2. ASSUME NEW p \in Professionals, NEW s \in Services,
                 \/ BookPublic(r, p, s)
                 \/ \E u \in Users : BookAdmin(r, p, s, u)
          PROVE  user'[job'[x].client] # "unborn"
      BY <1>3, <1>u, <1>t, <2>2, <3>2
         DEF BookPublic, BookAdmin, Ask, Refuse, Reply, Goto
    <3>3. CASE Offers(r)
      BY <1>3, <1>t, <2>2, <3>3 DEF Offers, Refuse, Reply, Goto
    <3>4. CASE Client(r)
      <4>1. ~Refuse(r)
        BY <1>3, <1>t, <2>2 DEF Refuse, Reply, Goto
      <4>2. PICK u \in Clients : /\ user' = [user EXCEPT ![u] = "live"]
                                 /\ job' = [job EXCEPT ![r].client = u]
        BY <3>4, <4>1 DEF Client
      <4> QED BY <1>t, <2>2, <4>2, CatalogAssumption DEF Job
    <3>5. CASE Insert(r) \/ Change(r) \/ Answer(r) \/ Fail(r)
      BY <1>3, <1>t, <2>2, <3>5 DEF Insert, Change, Confirm, NoShow, Read,
         Check, Delete, Save, Wrote, Answer, Fail, Refuse, Reply, Goto
    <3> QED BY <3>1, <3>2, <3>3, <3>4, <3>5 DEF Act, Book
  <2> QED BY <2>1, <2>2
<1>4. ASSUME NEW a \in Appts, appt'[a].stage # "unborn"
      PROVE  user'[appt'[a].client] # "unborn"
  <2>1. CASE appt[a].stage # "unborn"
    <3>1. appt'[a].client = appt[a].client /\ appt[a].client \in Users
      BY <2>1, ApptsKeep DEF CatalogInv, TypeInv, TypeOK
    <3> QED BY <1>u, <2>1, <3>1 DEF Accounted
  <2>2. CASE appt[a].stage = "unborn"
    <3>1. a = r /\ pc[r] = "insert" /\ appt'[r].client = job[r].client
      <4>1. Keeps(r)
        BY EachKeeps DEF CatalogInv
      <4> QED BY <1>4, <1>t, <2>2, <4>1 DEF Keeps, Appointment
    <3>2. job[r].client \in Users
      BY <3>1 DEF CatalogInv, TypeInv, Carried, CarriedBy
    <3> QED BY <1>u, <3>1, <3>2 DEF Accounted
  <2> QED BY <2>1, <2>2
<1> QED BY <1>1, <1>2, <1>3, <1>4 DEF Accounted

LEMMA StepAccounted ==
  ASSUME CatalogInv, Accounted, [NewsNext]_allVars
  PROVE  Accounted'
<1>1. CASE UNCHANGED vars
  BY <1>1 DEF vars, catalog, Accounted
<1>2. CASE Next
  BY <1>2, ActAccounted DEF Next, Act
<1> QED BY NewsIsNext, <1>1, <1>2

\* Who is to be told of what r did: what EverybodyIsTold asks for.
Due(r) ==
  {u \in Users : /\ user[u] = "live"
                 /\ \/ u \in Admins \/ u = Of(r).client
                    \/ LET p == professional[Of(r).prof] IN
                         u = p.user /\ p.stage = "live"}

\* An email of r reached u, with the links when they are for u.
Heard(r, u) ==
  \E m \in mails :
    /\ m.by = r /\ Mailbox[m.user] = Mailbox[u]
    /\ Of(r).public /\ job[r].kind # "cancel" /\ u = Of(r).client => m.links

Told(r) ==
  mail[r] = "told" /\ Of(r).stage = "live" => \A u \in Due(r) : Heard(r, u)

\* Who is still there to be told was found, or is still being looked up.
Unmissed(r) ==
  LET p == professional[Of(r).prof] IN
    mail[r] \in {"read", "send"} =>
      /\ IsLive(Of(r).client) =>
           "client" \in asking[r] \/ [as |-> "client", user |-> Of(r).client] \in found[r]
      /\ p.stage = "live" /\ IsLive(p.user) =>
           \/ asking[r] \cap {"professional", "staff"} # {}
           \/ [as |-> "staff", user |-> p.user] \in found[r]
      /\ mail[r] = "send" =>
           /\ asking[r] = {}
           /\ \A u \in Admins : IsLive(u) => [as |-> "admin", user |-> u] \in found[r]

\* Who is answered with success has dealt with the emails, or was not about an
\* appointment that somebody is told of.
Settled(r) ==
  /\ pc[r] = "idle" => job[r].kind = "none"
  /\ resp[r] = "ok" => /\ pc[r] = "done"
                       /\ job[r].kind = "none" \/ mail[r] \in {"told", "failed"}

EverybodyInv ==
  Accounted /\ \A r \in Requests : Told(r) /\ Unmissed(r) /\ Settled(r)

\* The answers that are given before anything was written of an appointment.
LEMMA WorkAnswers ==
  ASSUME CatalogInv, NEW r \in Requests, Work(r),
         pc[r] = "idle" => job[r].kind = "none", resp[r] # "ok"
  PROVE  /\ pc'[r] # "idle"
         /\ resp'[r] = "ok" => pc'[r] = "done" /\ job'[r].kind = "none"
<1>t. /\ pc \in [Requests -> Steps]
      /\ job \in [Requests -> Job]
      /\ resp \in [Requests -> Answers]
  BY Typed DEF CatalogInv
<1>1. CASE EditCatalogue(r)
  <2>1. CASE RemoveAccount(r) \/ Pull(r)
    BY <1>t, <2>1 DEF RemoveAccount, Pull, Reply, Goto, Forget, NoJob
  <2>2. ASSUME NEW p \in Professionals, RemoveProfessional(r, p)
        PROVE  pc'[r] # "idle" /\ resp'[r] # "ok"
    BY <1>t, <2>2 DEF RemoveProfessional, Refuse, Reply, Goto
  <2>3. ASSUME NEW s \in Services, RemoveService(r, s)
        PROVE  pc'[r] # "idle" /\ resp'[r] # "ok"
    BY <1>t, <2>3 DEF RemoveService, Refuse, Reply, Goto
  <2>4. ASSUME \/ \E p \in Professionals, S \in SUBSET Services :
                    \/ SetServices(r, p, S)
                    \/ \E u \in Users : CreateProfessional(r, p, u, S)
               \/ \E s \in Services : CreateService(r, s)
               \/ \E u \in Users : RemoveUser(r, u)
        PROVE  pc[r] = "idle" /\ pc'[r] = "done" /\ UNCHANGED job
    BY <1>t, <2>4 DEF SetServices, CreateProfessional, CreateService,
       RemoveUser, Edit, Reply, Goto
  <2> QED BY <1>1, <2>1, <2>2, <2>3, <2>4 DEF EditCatalogue
<1>2. CASE Book(r)
  <2>1. ASSUME NEW p \in Professionals, NEW s \in Services,
               \/ BookPublic(r, p, s)
               \/ \E u \in Users : BookAdmin(r, p, s, u)
        PROVE  pc'[r] # "idle" /\ resp'[r] # "ok"
    BY <1>t, <2>1 DEF BookPublic, BookAdmin, Ask, Refuse, Reply, Goto
  <2>2. CASE Offers(r) \/ Client(r) \/ Insert(r)
    BY <1>t, <2>2 DEF Offers, Client, Insert, Refuse, Reply, Goto
  <2> QED BY <1>2, <2>1, <2>2 DEF Book
<1>3. CASE Change(r)
  <2>1. ASSUME NEW a \in Appts,
               \/ Confirm(r, a)
               \/ \E kind \in {"cancel", "reschedule", "remove"} :
                    Read(r, kind, a)
        PROVE  pc'[r] # "idle" /\ resp'[r] # "ok"
    BY <1>t, <2>1 DEF Confirm, Wrote, Read, Refuse, Reply, Goto
  <2>2. ASSUME NEW a \in Appts, NoShow(r, a)
        PROVE  pc'[r] = "done" /\ job'[r].kind = "none"
    BY <1>t, <2>2 DEF NoShow, Refuse, Reply, Goto, Forget, NoJob
  <2>3. CASE Delete(r)
    BY <1>t, <2>3 DEF Delete, Reply, Goto, Forget, NoJob
  <2>4. CASE Check(r) \/ Save(r)
    BY <1>t, <2>4 DEF Check, Save, Wrote, Refuse, Reply, Goto
  <2> QED BY <1>3, <2>1, <2>2, <2>3, <2>4 DEF Change
<1> QED BY <1>1, <1>2, <1>3 DEF Work

LEMMA MovedSettled ==
  ASSUME NewsIInv, EverybodyInv, NEW r \in Requests, Moved(r)
  PROVE  \A x \in Requests : Settled(x)'
<1>t. /\ pc \in [Requests -> Steps] /\ resp \in [Requests -> Answers]
  BY Typed DEF NewsIInv, CatalogInv
<1>m. UNCHANGED mail
  BY DEF Moved, Work, AnswerTold, FailSilently, news
<1>s. Settled(r)
  BY DEF EverybodyInv
<1>1. ASSUME NEW x \in Requests, x # r PROVE Settled(x)'
  <2>1. pc'[x] = pc[x] /\ job'[x] = job[x]
    BY <1>1, MovedActs, OthersStay DEF NewsIInv
  <2>2. resp'[x] = resp[x]
    <3>1. Moves(r)
      BY MovedActs, EachMoves DEF NewsIInv, CatalogInv
    <3> QED BY <1>1, <1>t, <3>1 DEF Moves
  <2> QED BY <1>m, <2>1, <2>2 DEF EverybodyInv, Settled
<1>2. CASE Work(r)
  <2>1. pc[r] # "done"
    BY <1>2, WorkWrites DEF NewsIInv, NewsInv, News
  <2> QED BY <1>1, <1>2, <1>s, <2>1, WorkAnswers DEF NewsIInv, Settled
<1>3. CASE AnswerTold(r)
  <2>1. pc'[r] = "done" /\ mail[r] \in {"told", "failed"}
    BY <1>3, <1>t DEF AnswerTold, Answer, Reply, Goto
  <2> QED BY <1>1, <1>m, <2>1 DEF Settled
<1>4. CASE FailSilently(r)
  <2>1. pc'[r] = "done" /\ resp'[r] = "failed"
    BY <1>4, <1>t DEF FailSilently, Fail, Reply, Goto
  <2> QED BY <1>1, <2>1 DEF Settled
<1> QED BY <1>2, <1>3, <1>4 DEF Moved

\* Nobody becomes due while the catalogue changes: what a request that tells of
\* an appointment depends on only goes.
LEMMA OnlyGoes ==
  ASSUME NewsIInv, EverybodyInv, NEW r \in Requests, Moved(r),
         NEW y \in Requests, mail[y] # "none"
  PROVE  /\ Of(y)'.client = Of(y).client /\ Of(y)'.prof = Of(y).prof
         /\ Of(y)'.public = Of(y).public /\ job'[y] = job[y]
         /\ professional'[Of(y).prof].user = professional[Of(y).prof].user
         /\ professional'[Of(y).prof].stage = "live" =>
              professional[Of(y).prof].stage = "live"
         /\ Of(y)'.stage = "live" => Of(y).stage = "live"
         /\ \A u \in Admins \cup {Of(y).client, professional[Of(y).prof].user} :
              u \in Users /\ (user'[u] = "live" => user[u] = "live")
<1>a. Act(r)
  BY MovedActs
<1>k. /\ Of(y)'.client = Of(y).client
      /\ Of(y)'.prof = Of(y).prof
      /\ Of(y)'.public = Of(y).public
      /\ professional'[Of(y).prof].user = professional[Of(y).prof].user
      /\ job'[y] = job[y]
  BY ToldStays DEF NewsIInv
<1>o. /\ Of(y).stage # "unborn" /\ job[y].appt \in Appts
      /\ Of(y).client \in Users /\ Of(y).prof \in Professionals
      /\ professional[Of(y).prof].user \in Users
      /\ professional[Of(y).prof].stage # "unborn"
  <2>1. Of(y).stage # "unborn"
    BY DEF NewsIInv, NewsInv, News, Telling
  <2>2. job[y].appt \in Appts
    BY Typed DEF NewsIInv, CatalogInv, Job
  <2> QED BY <2>1, <2>2, ConcernedAreUsers DEF NewsIInv, Real, Of
<1>1. Of(y)'.stage = "live" => Of(y).stage = "live"
  BY <1>a, <1>k, <1>o, NobodyComesBack DEF NewsIInv, Of
<1>2. professional'[Of(y).prof].stage = "live" =>
        professional[Of(y).prof].stage = "live"
  BY <1>a, <1>o, NobodyComesBack DEF NewsIInv
<1>3. \A u \in Admins \cup {Of(y).client, professional[Of(y).prof].user} :
        u \in Users /\ user[u] # "unborn"
  BY <1>o, AnnouncementsAssumption DEF EverybodyInv, Accounted, Of
<1>4. \A u \in Admins \cup {Of(y).client, professional[Of(y).prof].user} :
        user'[u] = "live" => user[u] = "live"
  BY <1>3, <1>a, NobodyComesBack DEF NewsIInv
<1> QED BY <1>k, <1>1, <1>2, <1>3, <1>4

LEMMA MovedEverybody ==
  ASSUME NewsIInv, EverybodyInv, NEW r \in Requests, Moved(r)
  PROVE  \A y \in Requests : Told(y)' /\ Unmissed(y)'
<1> SUFFICES ASSUME NEW y \in Requests PROVE Told(y)' /\ Unmissed(y)'
  OBVIOUS
<1>m. UNCHANGED <<mail, asking, found, mails>> /\ Told(y) /\ Unmissed(y)
  BY MovedActs DEF EverybodyInv
<1>1. CASE mail[y] = "none"
  BY <1>m, <1>1 DEF Told, Unmissed
<1>2. CASE mail[y] # "none"
  <2>k. /\ Of(y)'.client = Of(y).client /\ Of(y)'.prof = Of(y).prof
        /\ Of(y)'.public = Of(y).public /\ job'[y] = job[y]
        /\ professional'[Of(y).prof].user = professional[Of(y).prof].user
        /\ professional'[Of(y).prof].stage = "live" =>
             professional[Of(y).prof].stage = "live"
        /\ Of(y)'.stage = "live" => Of(y).stage = "live"
        /\ \A u \in Admins \cup {Of(y).client, professional[Of(y).prof].user} :
             u \in Users /\ (user'[u] = "live" => user[u] = "live")
    BY <1>2, OnlyGoes
  <2>1. Due(y)' \subseteq Due(y)
    BY <2>k DEF Due
  <2>2. \A u : Heard(y, u) => Heard(y, u)'
    BY <1>m, <2>k DEF Heard
  <2>3. Told(y)'
    BY <1>m, <2>1, <2>2, <2>k DEF Told
  <2>4. Unmissed(y)'
    BY <1>m, <2>k DEF Unmissed, IsLive
  <2> QED BY <2>3, <2>4
<1> QED BY <1>1, <1>2

\* The emails of r reach everybody who is due.
LEMMA SendTells ==
  ASSUME NewsIInv, NEW r \in Requests, Unmissed(r), MailSend(r),
         NEW u \in Due(r)
  PROVE  \E m \in mails' :
           /\ m.by = r /\ Mailbox[m.user] = Mailbox[u]
           /\ Of(r).public /\ job[r].kind # "cancel" /\ u = Of(r).client => m.links
<1> DEFINE client == [as |-> "client", user |-> Of(r).client]
<1>1. PICK S \in SUBSET found[r] :
        LastSet(S, found[r]) /\ mails' = mails \cup {Email(r, e) : e \in S}
  BY DEF MailSend
<1>2. mail[r] = "send" /\ asking[r] = {} /\ IsLive(u)
  BY DEF MailSend, Mailing, Unmissed, Due, IsLive
<1>3. u = Of(r).client => client \in found[r]
  BY <1>2 DEF Unmissed
<1>4. \E as \in Roles : [as |-> as, user |-> u] \in found[r]
  <2>1. CASE u \in Admins
    BY <1>2, <2>1 DEF Unmissed, Roles
  <2>2. CASE u = Of(r).client
    BY <1>3, <2>2 DEF Roles
  <2>3. CASE /\ u = professional[Of(r).prof].user
             /\ professional[Of(r).prof].stage = "live"
    BY <1>2, <2>3 DEF Unmissed, Roles
  <2> QED BY <2>1, <2>2, <2>3 DEF Due
<1>5. PICK as \in Roles : [as |-> as, user |-> u] \in found[r]
  BY <1>4
<1>6. PICK s \in S : SameMailbox([as |-> as, user |-> u], s)
  BY <1>1, <1>5 DEF LastSet
<1>7. /\ Email(r, s) \in mails' /\ Email(r, s).by = r
      /\ Mailbox[Email(r, s).user] = Mailbox[u]
      /\ Email(r, s).links = Linked(r, s)
  BY <1>1, <1>6 DEF Email, SameMailbox
<1>8. Of(r).public /\ job[r].kind # "cancel" /\ u = Of(r).client => Linked(r, s)
  <2>1. job[r].kind \in Kinds
    BY Typed DEF NewsIInv, CatalogInv, Job
  <2>2. u = Of(r).client => client.as = "client" /\ SameMailbox(client, s)
    BY <1>6 DEF SameMailbox
  <2> QED BY <1>3, <2>1, <2>2 DEF Linked
<1> QED BY <1>7, <1>8

\* A query leaves nobody out.
LEMMA GatherUnmissed ==
  ASSUME NewsIInv, NEW r \in Requests, Unmissed(r), Gather(r)
  PROVE  Unmissed(r)'
<1>n. CatalogInv /\ NewsTypeOK /\ News(r)
  BY DEF NewsIInv, NewsInv
<1>d. /\ asking \in [Requests -> SUBSET References]
      /\ found \in [Requests -> SUBSET Entry]
      /\ mail \in [Requests -> {"none", "read", "send", "told", "failed"}]
  BY <1>n DEF NewsTypeOK
<1>r. mail[r] = "read" /\ UNCHANGED <<job, appt, user, professional>>
  BY DEF Gather, LookupClient, LookupProfessional, LookupStaff, Lookup,
     FindAdmins, Mailing, vars, catalog
<1>f. ASSUME NEW as, NEW U, Find(r, as, U)
      PROVE  /\ found[r] \subseteq found'[r]
             /\ \A u \in U : IsLive(u) => [as |-> as, user |-> u] \in found'[r]
  BY <1>d, <1>f DEF Find
<1>1. CASE LookupClient(r)
  <2>1. asking'[r] = asking[r] \ {"client"} /\ UNCHANGED mail
    BY <1>1, <1>d DEF LookupClient, Lookup, LookedUp
  <2>2. Find(r, "client", {Of(r).client})
    BY <1>1 DEF LookupClient
  <2>3. /\ found[r] \subseteq found'[r]
        /\ IsLive(Of(r).client) =>
             [as |-> "client", user |-> Of(r).client] \in found'[r]
    BY <1>f, <2>2
  <2> QED BY <1>r, <2>1, <2>3 DEF Unmissed, IsLive, Of
<1>2. CASE LookupProfessional(r)
  <2>1. /\ asking'[r] = (asking[r] \ {"professional"})
             \cup (IF professional[Of(r).prof].stage = "live" THEN {"staff"} ELSE {})
        /\ UNCHANGED <<mail, found>>
    BY <1>2, <1>d DEF LookupProfessional, Lookup, LookedUp
  <2> QED BY <1>r, <2>1 DEF Unmissed, IsLive, Of
<1>3. CASE LookupStaff(r)
  <2>1. asking'[r] = asking[r] \ {"staff"} /\ UNCHANGED mail
    BY <1>3, <1>d DEF LookupStaff, Lookup, LookedUp
  <2>2. Find(r, "staff", {professional[Of(r).prof].user})
    BY <1>3 DEF LookupStaff
  <2>3. /\ found[r] \subseteq found'[r]
        /\ IsLive(professional[Of(r).prof].user) =>
             [as |-> "staff", user |-> professional[Of(r).prof].user] \in found'[r]
    BY <1>f, <2>2
  <2> QED BY <1>r, <2>1, <2>3 DEF Unmissed, IsLive, Of
<1>4. CASE FindAdmins(r)
  <2>1. asking[r] = {} /\ UNCHANGED asking /\ Find(r, "admin", Admins)
    BY <1>4 DEF FindAdmins
  <2>2. /\ found[r] \subseteq found'[r]
        /\ \A u \in Admins : IsLive(u) => [as |-> "admin", user |-> u] \in found'[r]
    BY <1>f, <2>1
  <2> QED BY <1>r, <2>1, <2>2 DEF Unmissed, IsLive, Of
<1> QED BY <1>1, <1>2, <1>3, <1>4 DEF Gather

LEMMA TellEverybody ==
  ASSUME NewsIInv, EverybodyInv, NEW r \in Requests, Tell(r)
  PROVE  EverybodyInv'
<1>v. UNCHANGED vars
  BY TellLeavesCatalog
<1>u. UNCHANGED <<pc, job, resp, appt, user, professional>>
  BY <1>v DEF vars, catalog
<1>n. CatalogInv /\ NewsTypeOK /\ News(r)
  BY DEF NewsIInv, NewsInv
<1>t. /\ mail \in [Requests -> {"none", "read", "send", "told", "failed"}]
      /\ asking \in [Requests -> SUBSET References]
      /\ found \in [Requests -> SUBSET Entry]
  BY <1>n DEF NewsTypeOK
<1>q. Gather(r) => Of(r).stage # "unborn"
  BY <1>n DEF Gather, LookupClient, LookupProfessional, LookupStaff, Lookup,
     FindAdmins, Mailing, News, Telling
<1>g. mails \subseteq mails'
  BY <1>n, <1>q, GatherMoves DEF Tell, MailRead, MailSend, MailFails, TextSend
<1>o. \A x \in Requests \ {r} :
        mail'[x] = mail[x] /\ asking'[x] = asking[x] /\ found'[x] = found[x]
  BY <1>n, <1>q, <1>t, GatherMoves
     DEF Tell, MailRead, StartMail, EndMail, MailSend, MailFails, TextSend
<1>1. Accounted'
  BY <1>u DEF EverybodyInv, Accounted
<1>2. mail'[r] = mail[r]
         \/ (mail[r] \in {"none", "read", "send"} /\ pc[r] = "written")
  BY <1>n, <1>q, GatherMoves
     DEF Tell, MailRead, MailSend, MailFails, TextSend, Mailing
<1>3. ASSUME NEW x \in Requests PROVE Settled(x)'
  <2>0. Settled(x)
    BY DEF EverybodyInv
  <2>1. CASE mail'[x] = mail[x]
    BY <1>u, <2>0, <2>1 DEF Settled
  <2>2. CASE mail'[x] # mail[x]
    <3>1. x = r /\ pc[r] = "written"
      BY <1>2, <1>o, <2>2
    <3> QED BY <1>u, <2>0, <3>1 DEF Settled
  <2> QED BY <2>1, <2>2
<1>h. \A x \in Requests : \A u : Heard(x, u) => Heard(x, u)'
  BY <1>g, <1>u DEF Heard, Of
<1>4. ASSUME NEW x \in Requests PROVE Told(x)'
  <2>0. Due(x)' = Due(x) /\ Of(x)' = Of(x) /\ Told(x)
    BY <1>u DEF Due, Of, EverybodyInv
  <2>1. CASE mail'[x] = mail[x]
    BY <1>h, <2>0, <2>1 DEF Told
  <2>2. CASE MailSend(r) /\ x = r
    <3>1. Unmissed(r)
      BY DEF EverybodyInv
    <3>2. \A u \in Due(r) : Heard(r, u)'
      BY <1>u, <2>2, <3>1, SendTells DEF Heard, Of
    <3> QED BY <2>0, <2>2, <3>2 DEF Told
  <2>3. CASE ~MailSend(r) /\ mail'[x] # mail[x]
    <3>1. x = r
      BY <1>o, <2>3
    <3>2. CASE Gather(r)
      <4>1. mail'[r] # "told"
        BY <1>n, <1>q, <1>t, <3>2, GatherMoves
      <4> QED BY <3>1, <4>1 DEF Told
    <3>3. CASE MailRead(r) \/ MailFails(r) \/ TextSend(r)
      <4>1. mail'[r] = "told" => Of(r).stage # "live"
        BY <1>t, <2>3, <3>1, <3>3
           DEF MailRead, StartMail, EndMail, MailFails, TextSend
      <4> QED BY <2>0, <3>1, <4>1 DEF Told
    <3> QED BY <2>3, <3>2, <3>3 DEF Tell
  <2> QED BY <1>o, <2>1, <2>2, <2>3
<1>5. ASSUME NEW x \in Requests PROVE Unmissed(x)'
  <2>0. Unmissed(x)
    BY DEF EverybodyInv
  <2>1. CASE x # r
    BY <1>o, <1>u, <2>0, <2>1 DEF Unmissed, IsLive, Of
  <2>2. CASE x = r /\ Gather(r)
    BY <2>0, <2>2, GatherUnmissed
  <2>3. CASE x = r /\ TextSend(r)
    BY <1>u, <2>0, <2>3 DEF TextSend, Unmissed, IsLive, Of
  <2>4. CASE x = r /\ (MailRead(r) \/ MailSend(r) \/ MailFails(r))
    <3>1. CASE mail'[r] \in {"told", "failed"}
      BY <2>4, <3>1 DEF Unmissed
    <3>2. CASE StartMail(r, Of(r).rev)
      <4>1. mail'[r] = "read" /\ asking'[r] = {"client", "professional"}
        BY <1>t, <3>2 DEF StartMail
      <4> QED BY <2>4, <4>1 DEF Unmissed
    <3> QED BY <1>t, <2>4, <3>1, <3>2 DEF MailRead, MailSend, MailFails, EndMail
  <2> QED BY <2>1, <2>2, <2>3, <2>4 DEF Tell
<1> QED BY <1>1, <1>3, <1>4, <1>5 DEF EverybodyInv

LEMMA StepEverybody ==
  ASSUME NewsIInv, EverybodyInv, [NewsNext]_allVars
  PROVE  EverybodyInv'
<1>1. CASE UNCHANGED allVars
  <2>1. UNCHANGED <<user, professional, appt, pc, job, resp, mail, asking, found,
                    mails>>
    BY <1>1 DEF allVars, vars, catalog, news
  <2>2. Accounted'
    BY <2>1 DEF EverybodyInv, Accounted
  <2>3. ASSUME NEW r \in Requests PROVE Told(r)' /\ Unmissed(r)' /\ Settled(r)'
    <3>1. Told(r) /\ Unmissed(r) /\ Settled(r)
      BY DEF EverybodyInv
    <3>2. Of(r)' = Of(r) /\ Due(r)' = Due(r)
      BY <2>1 DEF Of, Due
    <3>3. Told(r)'
      BY <2>1, <3>1, <3>2 DEF Told, Heard
    <3>4. Unmissed(r)'
      BY <2>1, <3>1, <3>2 DEF Unmissed, IsLive
    <3>5. Settled(r)'
      BY <2>1, <3>1 DEF Settled
    <3> QED BY <3>3, <3>4, <3>5
  <2> QED BY <2>2, <2>3 DEF EverybodyInv
<1>2. ASSUME NEW r \in Requests, Moved(r) PROVE EverybodyInv'
  BY <1>2, StepAccounted, MovedSettled, MovedEverybody
     DEF NewsIInv, EverybodyInv
<1> QED BY <1>1, <1>2, TellEverybody DEF NewsNext, Moved, Tell, Gather

\* The request awaits its emails, whose recipients come from queries made while
\* everything changes: when none of these failed and the request is answered,
\* an email was handed in for everybody who is there to be told, and that of a
\* client who asked for the appointment holds the links.
THEOREM EverybodyIsToldHolds == NewsSpec => []EverybodyIsTold
<1>1. NewsInit => EverybodyInv
  BY InitAccounted DEF NewsInit, Init, NoJob, EverybodyInv, Told,
     Unmissed, Settled
<1>2. EverybodyInv /\ NewsInv => EverybodyIsTold
  <2> SUFFICES ASSUME EverybodyInv, NewsInv, NEW r \in Requests, resp[r] = "ok",
                      job[r].kind \in Kinds \ {"none", "remove"},
                      mail[r] # "failed", Of(r).stage = "live"
               PROVE  \A u \in Due(r) : Heard(r, u)
    BY DEF EverybodyIsTold, Due, Heard
  <2>1. Settled(r) /\ Told(r)
    BY DEF EverybodyInv
  <2>2. mail[r] = "told"
    BY <2>1 DEF Settled
  <2> QED BY <2>1, <2>2 DEF Told
<1>3. NewsIInv /\ EverybodyInv /\ [NewsNext]_allVars => EverybodyInv'
  BY StepEverybody, StepAccounted DEF NewsIInv
<1>4. NewsIInv => NewsInv
  BY DEF NewsIInv
<1> QED BY <1>1, <1>2, <1>3, <1>4, InitNewsIInv, StepNewsIInv, PTL DEF NewsSpec
============================================================================
