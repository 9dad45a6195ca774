--------------------------- MODULE Announcements ---------------------------
(***************************************************************************)
(* Who is told of an appointment that was booked, confirmed, cancelled or  *)
(* moved: NotificationsService.sendAppointmentEventEmails, which the       *)
(* request awaits, and sendAppointmentEventWhatsApp, which it does not, on *)
(* top of Catalog.                                                         *)
(*                                                                         *)
(* Both get an id and read the appointment, the people it refers to and    *)
(* the tenant's administrators afresh, a query at a time, while all of     *)
(* them change and go.  A message is who it goes to and as what, which     *)
(* version of the appointment it describes and whether it holds the links  *)
(* that cancel and move the appointment without a login.                   *)
(***************************************************************************)
EXTENDS Catalog

CONSTANTS
  Admins,     \* the active users with role ADMIN
  Mailboxes,
  Mailbox,    \* Mailbox[u]: where mail to u arrives, however it is spelled
  Phones      \* the users with a phone

\* A user has one role.
ASSUME AnnouncementsAssumption ==
  /\ Admins \subseteq Users \ Clients
  /\ Mailbox \in [Users -> Mailboxes]
  /\ Phones \subseteq Users

VARIABLES
  mail,       \* mail[r]: how far the emails of request r are
  text,       \* text[r]: how far its WhatsApp message is
  copy,       \* copy[r]: version of the appointment that the emails describe
  asking,     \* asking[r]: references of the appointment still to be looked up
  found,      \* found[r]: who was found so far, and as what
  mails,      \* emails handed in to EmailService
  texts,      \* WhatsApp messages handed to sendText: [by, to, rev]
  \* --- history ---
  wrote,      \* wrote[r]: version of the appointment after r had written it
  removed     \* removed[r]: the users that were gone by then

news == <<mail, text, copy, asking, found, mails, texts, wrote, removed>>
allVars == <<vars, news>>

\* As what somebody is told.
Roles == {"admin", "staff", "client"}
Entry == [as: Roles, user: Users]

References == {"client", "professional", "staff"}

NewsTypeOK ==
  /\ mail \in [Requests -> {"none", "read", "send", "told", "failed"}]
  /\ text \in [Requests -> {"none", "started", "end"}]
  /\ copy \in [Requests -> Nat]
  /\ asking \in [Requests -> SUBSET References]
  /\ found \in [Requests -> SUBSET Entry]
  /\ mails \subseteq [by: Requests, as: Roles, user: Users, links: BOOLEAN,
                      rev: Nat]
  /\ texts \subseteq [by: Requests, to: Users, rev: Nat]
  /\ wrote \in [Requests -> Nat]
  /\ removed \in [Requests -> SUBSET Users]

AllTypeOK == TypeOK /\ NewsTypeOK

NewsInit ==
  /\ Init
  /\ mail = [r \in Requests |-> "none"]
  /\ text = [r \in Requests |-> "none"]
  /\ copy = [r \in Requests |-> 0]
  /\ asking = [r \in Requests |-> {}]
  /\ found = [r \in Requests |-> {}]
  /\ mails = {}
  /\ texts = {}
  /\ wrote = [r \in Requests |-> 0]
  /\ removed = [r \in Requests |-> {}]

Of(r) == appt[job[r].appt]

----------------------------------------------------------------------------
(* The request writes.                                                     *)

\* A step of the catalogue or of an appointment; the version and the users are
\* remembered when the request comes to tell of it.
Work(r) ==
  /\ EditCatalogue(r) \/ Book(r) \/ Change(r)
  /\ IF pc'[r] = "written"
     THEN /\ wrote' = [wrote EXCEPT ![r] = appt'[job'[r].appt].rev]
          /\ removed' = [removed EXCEPT ![r] = GoneUsers]
     ELSE UNCHANGED <<wrote, removed>>
  /\ UNCHANGED <<mail, text, copy, asking, found, mails, texts>>

----------------------------------------------------------------------------
(* sendAppointmentEventEmails.                                             *)

Mailing(r, step) == pc[r] = "written" /\ mail[r] = step

\* populate looks up the client and the professional at the same time.
StartMail(r, rev) ==
  /\ mail' = [mail EXCEPT ![r] = "read"]
  /\ copy' = [copy EXCEPT ![r] = rev]
  /\ asking' = [asking EXCEPT ![r] = {"client", "professional"}]
  /\ UNCHANGED text

\* The emails are dealt with and what they needed is dropped; the void call of
\* sendAppointmentEventWhatsApp follows.
EndMail(r, step) ==
  /\ mail' = [mail EXCEPT ![r] = step]
  /\ text' = [text EXCEPT ![r] = "started"]
  /\ copy' = [copy EXCEPT ![r] = 0]
  /\ asking' = [asking EXCEPT ![r] = {}]
  /\ found' = [found EXCEPT ![r] = {}]

\* Seeded fault: the emails describe the appointment the request has in hand,
\* which cancel and reschedule read before they wrote.
MailReadStale(r) ==
  /\ Mailing(r, "none")
  /\ Of(r).stage = "live"
  /\ StartMail(r, IF job[r].kind \in {"cancel", "reschedule"} THEN wrote[r] - 1
                  ELSE wrote[r])
  /\ UNCHANGED <<vars, found, mails, texts, wrote, removed>>

\* The appointment is read anew; when it is gone nobody gets an email.
MailRead(r) ==
  /\ Mailing(r, "none")
  /\ IF Of(r).stage = "live"
     THEN StartMail(r, Of(r).rev) /\ UNCHANGED found
     ELSE EndMail(r, "told")
  /\ UNCHANGED <<vars, mails, texts, wrote, removed>>

IsLive(u) == user[u] = "live"

\* Who of U is there is found; populate and find leave out what is gone.
Find(r, as, U) ==
  found' = [found EXCEPT ![r] =
              @ \cup {[as |-> as, user |-> u] : u \in {v \in U : IsLive(v)}}]

\* One of the lookups of populate: the others wait, or are under way.
Lookup(r, ref) ==
  /\ Mailing(r, "read") /\ ref \in asking[r]
  /\ UNCHANGED <<vars, mail, text, copy, mails, texts, wrote, removed>>

LookedUp(r, ref, next) ==
  asking' = [asking EXCEPT ![r] = (asking[r] \ {ref}) \cup next]

LookupClient(r) ==
  /\ Lookup(r, "client")
  /\ Find(r, "client", {Of(r).client})
  /\ LookedUp(r, "client", {})

\* Seeded fault: the account of the professional is not populated.
LookupProfessionalOnly(r) ==
  /\ Lookup(r, "professional")
  /\ LookedUp(r, "professional", {})
  /\ UNCHANGED found

\* The professional is there, and then his account is looked up.
LookupProfessional(r) ==
  /\ Lookup(r, "professional")
  /\ LookedUp(r, "professional",
           IF professional[Of(r).prof].stage = "live" THEN {"staff"} ELSE {})
  /\ UNCHANGED found

LookupStaff(r) ==
  /\ Lookup(r, "staff")
  /\ Find(r, "staff", {professional[Of(r).prof].user})
  /\ LookedUp(r, "staff", {})

\* The administrators are asked for when the appointment is there as a whole.
FindAdmins(r) ==
  /\ Mailing(r, "read") /\ asking[r] = {}
  /\ Find(r, "admin", Admins)
  /\ mail' = [mail EXCEPT ![r] = "send"]
  /\ UNCHANGED <<vars, text, copy, asking, mails, texts, wrote, removed>>

SameMailbox(e, f) == Mailbox[e.user] = Mailbox[f.user]

Rank == [admin |-> 1, staff |-> 2, client |-> 3]

\* Seeded fault: the recipients are a list of everybody who was found.
Listed(S, E) == S = E

\* S is what a map by mailbox holds when first the administrators of E were set,
\* in any order, then the staff, then the client.
LastSet(S, E) ==
  /\ S \subseteq E
  /\ \A e \in E : \E s \in S : SameMailbox(e, s)
  /\ \A s, t \in S : SameMailbox(s, t) => s = t
  /\ \A s \in S, e \in E : SameMailbox(e, s) => Rank[e.as] <= Rank[s.as]

\* Seeded fault: every copy of the email holds the links.
LinkedForAll(r, e) ==
  Of(r).public /\ job[r].kind \in Kinds \ {"cancel"}

\* The links go to the client of an appointment that came from a client, unless
\* it was cancelled; he is known by his address.
Linked(r, e) ==
  /\ Of(r).public
  /\ job[r].kind \in Kinds \ {"cancel"}
  /\ \E c \in found[r] : c.as = "client" /\ SameMailbox(c, e)

Email(r, e) == [by |-> r, as |-> e.as, user |-> e.user, links |-> Linked(r, e),
                rev |-> copy[r]]

\* All emails are handed in at once.  EmailService looks up the tenant and calls
\* the provider for each; what fails there is logged and holds up no other.
MailSend(r) ==
  /\ Mailing(r, "send")
  /\ \E S \in SUBSET found[r] :
       /\ LastSet(S, found[r])
       /\ mails' = mails \cup {Email(r, e) : e \in S}
  /\ EndMail(r, "told")
  /\ UNCHANGED <<vars, texts, wrote, removed>>

\* A query fails: the error is caught and logged, and the request goes on.
MailFails(r) ==
  /\ pc[r] = "written" /\ mail[r] \in {"none", "read", "send"}
  /\ EndMail(r, "failed")
  /\ UNCHANGED <<vars, mails, texts, wrote, removed>>

\* The request is answered when its emails are dealt with.
AnswerTold(r) ==
  /\ mail[r] \in {"told", "failed"}
  /\ Answer(r)
  /\ UNCHANGED news

\* Reminders that cannot be scheduled or called off end the request before it
\* tells anybody, and reschedule reads the appointment again after it did.  The
\* end of the process is a request that goes no further.
FailSilently(r) ==
  /\ pc[r] = "written" =>
       \/ mail[r] = "none" /\ job[r].kind \in {"public", "admin", "cancel"}
       \/ mail[r] \in {"told", "failed"} /\ job[r].kind = "reschedule"
  /\ Fail(r)
  /\ UNCHANGED news

----------------------------------------------------------------------------
(* sendAppointmentEventWhatsApp runs beside the request and outlives it.   *)

\* A client who is gone or has no phone gets nothing, and a message that fails
\* is one that is never sent: the error is logged and nobody waits.  Nothing
\* else is found of the two queries, so that they are one step: who is there
\* when the client is looked up was there when the appointment was read.
TextSend(r) ==
  /\ text[r] = "started"
  /\ texts' =
       IF Of(r).stage = "live"
       THEN texts \cup {[by |-> r, to |-> u, rev |-> Of(r).rev] :
                          u \in {v \in {Of(r).client} \cap Phones : IsLive(v)}}
       ELSE texts
  /\ text' = [text EXCEPT ![r] = "end"]
  /\ UNCHANGED <<vars, mail, copy, asking, found, mails, wrote, removed>>

NewsNext ==
  \E r \in Requests :
    \/ Work(r)
    \/ MailRead(r) \/ LookupClient(r) \/ LookupProfessional(r) \/ LookupStaff(r)
    \/ FindAdmins(r) \/ MailSend(r) \/ MailFails(r)
    \/ AnswerTold(r) \/ FailSilently(r)
    \/ TextSend(r)

NewsSpec == NewsInit /\ [][NewsNext]_allVars

----------------------------------------------------------------------------
(* Properties.                                                             *)

\* The emails and the message of a request are written from queries made after
\* its write, while other requests change the same appointment.  What they say
\* is at least as new as that write: nobody is told of the time before.
NewsIsCurrent ==
  \A m \in mails \cup texts : m.rev >= wrote[m.by]

\* News go to administrators, to the account of the professional and to the
\* client, and not to an account that was gone when the appointment was
\* written.  The links, which need no login, reach no mailbox but that of the
\* client of an appointment that came from a client and was not cancelled.  Of
\* the emails of one event no two arrive in one mailbox, although it may belong
\* to several of these people, or to one of them twice over.
OnlyTheConcernedAreTold ==
  /\ \A m \in mails :
       LET a == appt[job[m.by].appt]
           there == Users \ removed[m.by] IN
         /\ m.user \in there \cap (Admins \cup {a.client, professional[a.prof].user})
         /\ m.links => /\ a.public /\ job[m.by].kind # "cancel"
                       /\ a.client \in there
                       /\ Mailbox[m.user] = Mailbox[a.client]
  /\ \A m, n \in mails : m.by = n.by /\ SameMailbox(m, n) => m = n
  /\ \A t \in texts : t.to = appt[job[t.by].appt].client /\ t.to \notin removed[t.by]

\* An email that fails is logged and forgotten, and the recipients come from
\* five queries.  Unless one of the queries failed, a request that changed an
\* appointment and was answered has handed in an email for everybody concerned
\* who is still there, when the appointment is.  The email of the client who
\* asked for the appointment holds the links, whoever else reads his mailbox.
EverybodyIsTold ==
  \A r \in Requests :
    /\ resp[r] = "ok" /\ job[r].kind \in Kinds \ {"none", "remove"}
    /\ mail[r] # "failed" /\ Of(r).stage = "live"
    => \A u \in Users :
         /\ user[u] = "live"
         /\ \/ u \in Admins \/ u = Of(r).client
            \/ LET p == professional[Of(r).prof] IN
                 u = p.user /\ p.stage = "live"
         => \E m \in mails :
              /\ m.by = r /\ Mailbox[m.user] = Mailbox[u]
              /\ Of(r).public /\ job[r].kind # "cancel" /\ u = Of(r).client
                   => m.links
============================================================================
