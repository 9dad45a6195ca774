------------------------------ MODULE Accounts ------------------------------
(***************************************************************************)
(* The accounts of all tenants (UsersService): who creates them, under     *)
(* which spelling of the address, and what the unique index on tenantId    *)
(* and email does about the requests that race for one.                    *)
(*                                                                         *)
(* Every creator reads, hashes a password (an await of a few hundred       *)
(* milliseconds) and inserts.  register and create keep the address as it  *)
(* was typed; public bookings, forgotPassword and the seed's first look    *)
(* normalize it.                                                           *)
(***************************************************************************)
EXTENDS FiniteSets

CONSTANTS
  Requests,
  Tenants,
  Mailboxes,
  NoTenant,   \* the tenantId of a super admin, who has none
  Null        \* no account

\* Nothing here tells ADMIN from STAFF, which stands for both.
Roles == {"SUPER_ADMIN", "STAFF", "CLIENT"}

\* An address is a mailbox and whether it is spelled in normal form.
Email == [box: Mailboxes, normal: BOOLEAN]

normalizeEmail(e) == [e EXCEPT !.normal = TRUE]

\* by is the request whose name and phone the account carries.
Account == [tenant: Tenants \cup {NoTenant}, email: Email, role: Roles,
            isActive: BOOLEAN, by: Requests]

ASSUME AccountsAssumption ==
  /\ Mailboxes # {}
  /\ NoTenant \notin Tenants
  /\ Null \notin Requests \cup Account

VARIABLES
  users,   \* users[r]: the account request r inserted, Null before that
           \* and after it was removed
  pc,
  arg,     \* arg[r]: what request r was asked
  client,  \* client[r]: the account a public booking found or made, or Null
  resp,
  held     \* history: held[r] says that an active account had the address
           \* of request r when r looked

vars == <<users, pc, arg, client, resp, held>>

Argument == [kind: {"none", "create", "seed", "guest", "forgot", "admin"},
             tenant: Tenants \cup {NoTenant}, email: Email, role: Roles]

TypeOK ==
  /\ users \in [Requests -> Account \cup {Null}]
  /\ pc \in [Requests -> {"idle", "seed", "guest", "find", "insert", "update",
                          "done"}]
  /\ arg \in [Requests -> Argument]
  /\ client \in [Requests -> Requests \cup {Null}]
  /\ resp \in [Requests -> {"none", "ok", "conflict", "duplicate", "notFound",
                            "sent", "silent", "failed"}]
  /\ held \in [Requests -> BOOLEAN]

Live == {u \in Requests : users[u] # Null}

\* The accounts a query on tenant and email finds.
At(t, e) == {u \in Live : users[u].tenant = t /\ users[u].email = e}

Init ==
  /\ users = [r \in Requests |-> Null]
  /\ pc = [r \in Requests |-> "idle"]
  /\ arg = [r \in Requests |-> [kind |-> "none", tenant |-> NoTenant,
                                email |-> CHOOSE e \in Email : TRUE,
                                role |-> "CLIENT"]]
  /\ client = [r \in Requests |-> Null]
  /\ resp = [r \in Requests |-> "none"]
  /\ held = [r \in Requests |-> FALSE]

Goto(r, step) == pc' = [pc EXCEPT ![r] = step]

Reply(r, answer) ==
  /\ Goto(r, "done")
  /\ resp' = [resp EXCEPT ![r] = answer]

Ask(r, kind, t, e, role) ==
  arg' = [arg EXCEPT ![r] =
            [kind |-> kind, tenant |-> t, email |-> e, role |-> role]]

----------------------------------------------------------------------------
(* Creating accounts.                                                      *)

\* register makes a CLIENT; create, for an administrator, any role.
Create(r, t, e, role) ==
  /\ pc[r] = "idle"
  /\ Ask(r, "create", t, e, role)
  /\ Goto(r, "find")
  /\ UNCHANGED <<users, client, resp, held>>

\* Seeded fault: a role outside the enum.
SeedUnknownRole(r, e) ==
  /\ pc[r] = "idle"
  /\ Ask(r, "seed", NoTenant, e, "SUPERADMIN")
  /\ Goto(r, "seed")
  /\ UNCHANGED <<users, client, resp, held>>

\* The seed script starts.
Seed(r, e) ==
  /\ pc[r] = "idle"
  /\ Ask(r, "seed", NoTenant, e, "SUPER_ADMIN")
  /\ Goto(r, "seed")
  /\ UNCHANGED <<users, client, resp, held>>

\* findByEmailGlobal: any account of any tenant and role ends the seed.
SeedFind(r) ==
  /\ pc[r] = "seed"
  /\ IF \E u \in Live : users[u].email = normalizeEmail(arg[r].email)
     THEN Reply(r, "ok")
     ELSE Goto(r, "find") /\ UNCHANGED resp
  /\ UNCHANGED <<users, arg, client, held>>

\* What the query of create, or of createSuperAdmin, finds.
Taken(r) ==
  IF arg[r].kind = "seed"
  THEN {u \in Live : users[u].email = arg[r].email
                       /\ users[u].role = "SUPER_ADMIN"}
  ELSE At(arg[r].tenant, arg[r].email)

Find(r) ==
  /\ pc[r] = "find"
  /\ held' = [held EXCEPT ![r] = At(arg[r].tenant, arg[r].email) # {}]
  /\ IF Taken(r) # {}
     THEN Reply(r, "conflict")
     ELSE Goto(r, "insert") /\ UNCHANGED resp
  /\ UNCHANGED <<users, arg, client>>

\* Seeded fault: the index is not unique.
NoIndex(t, e) == {}

\* The entries of the unique index on tenantId and email that an insert would
\* meet.  A missing tenantId is indexed like a value.
Index(t, e) == At(t, e)

\* userModel.create after the hashing.  Nothing handles the duplicate-key
\* error: it becomes a 500.
Insert(r) ==
  /\ pc[r] = "insert"
  /\ IF Index(arg[r].tenant, arg[r].email) # {}
     THEN Reply(r, "duplicate") /\ UNCHANGED <<users, client>>
     ELSE /\ users' = [users EXCEPT ![r] =
                         [tenant |-> arg[r].tenant, email |-> arg[r].email,
                          role |-> arg[r].role, isActive |-> TRUE, by |-> r]]
          /\ client' = IF arg[r].kind = "guest"
                       THEN [client EXCEPT ![r] = r] ELSE client
          /\ \E answer \in {"ok", "failed"} : Reply(r, answer)
  /\ UNCHANGED <<arg, held>>

----------------------------------------------------------------------------
(* findOrCreateClientForTenant, for public bookings.                       *)

Guest(r, t, e) ==
  /\ pc[r] = "idle"
  /\ Ask(r, "guest", t, normalizeEmail(e), "CLIENT")
  /\ Goto(r, "guest")
  /\ UNCHANGED <<users, client, resp, held>>

\* Seeded fault: the lookup skips the deactivated accounts.
ClientsActive(t, e) == {u \in At(t, e) : users[u].isActive}

Clients(t, e) == At(t, e)

\* Seeded fault: any account will do as a client.
AnyRole(u) == TRUE

IsClient(u) == users[u].role = "CLIENT"

\* An account whose name and phone are the guest's is not written.
GuestFind(r) ==
  /\ pc[r] = "guest"
  /\ LET found == Clients(arg[r].tenant, arg[r].email) IN
     /\ held' = [held EXCEPT ![r] = At(arg[r].tenant, arg[r].email) # {}]
     /\ \/ /\ found = {}
           /\ Goto(r, "insert")
           /\ UNCHANGED <<client, resp>>
        \/ \E u \in found :
             /\ ~IsClient(u)
             /\ Reply(r, "conflict")
             /\ UNCHANGED client
        \/ \E u \in found :
             /\ IsClient(u)
             /\ client' = [client EXCEPT ![r] = u]
             /\ \/ Goto(r, "update") /\ UNCHANGED resp
                \/ Reply(r, "ok")
  /\ UNCHANGED <<users, arg>>

\* Seeded fault: the update looks for the address again.
TargetByAddress(r) == At(arg[r].tenant, arg[r].email)

\* The document that findByIdAndUpdate finds.
Target(r) == {client[r]} \cap Live

\* When the account was removed meanwhile the copy read before is returned.
GuestUpdate(r) ==
  /\ pc[r] = "update"
  /\ users' = [u \in Requests |->
                 IF u \in Target(r) THEN [users[u] EXCEPT !.by = r]
                 ELSE users[u]]
  /\ \E answer \in {"ok", "failed"} : Reply(r, answer)
  /\ UNCHANGED <<arg, client, held>>

----------------------------------------------------------------------------
(* Administration and forgotPassword.                                      *)

\* update sets name, phone and isActive, never address, tenant or role.
Update(r, u, active) ==
  /\ pc[r] = "idle"
  /\ Ask(r, "admin", NoTenant, arg[r].email, "CLIENT")
  /\ \/ /\ u \in Live
        /\ users' = [users EXCEPT ![u].isActive = active, ![u].by = r]
        /\ Reply(r, "ok")
     \/ /\ u \notin Live
        /\ Reply(r, "notFound")
        /\ UNCHANGED users
  /\ UNCHANGED <<client, held>>

Remove(r, u) ==
  /\ pc[r] = "idle"
  /\ Ask(r, "admin", NoTenant, arg[r].email, "CLIENT")
  /\ \/ /\ u \in Live
        /\ users' = [users EXCEPT ![u] = Null]
        /\ Reply(r, "ok")
     \/ /\ u \notin Live
        /\ Reply(r, "notFound")
        /\ UNCHANGED users
  /\ UNCHANGED <<client, held>>

\* forgotPassword looks the address up in normal form; the answer is the same
\* whether a link is sent or not.
Forgot(r, t, e) ==
  /\ pc[r] = "idle"
  /\ Ask(r, "forgot", t, e, "CLIENT")
  /\ held' = [held EXCEPT ![r] = \E u \in At(t, e) : users[u].isActive]
  /\ \/ /\ \E u \in At(t, normalizeEmail(e)) : users[u].isActive
        /\ Reply(r, "sent")
     \/ /\ ~ \E u \in At(t, normalizeEmail(e)) : users[u].isActive
        /\ Reply(r, "silent")
  /\ UNCHANGED <<users, client>>

\* A rejected database call, or the death of the process.  Either may also
\* hide from the caller a write that was made: Insert and GuestUpdate.
Fail(r) ==
  /\ pc[r] \in {"seed", "guest", "find", "insert", "update"}
  /\ Reply(r, "failed")
  /\ UNCHANGED <<users, arg, client, held>>

Step(r) ==
  \/ SeedFind(r) \/ Find(r) \/ Insert(r) \/ GuestFind(r) \/ GuestUpdate(r)
  \/ Fail(r)

Call(r) ==
  \/ \E e \in Email :
       \/ Seed(r, e)
       \/ \E t \in Tenants :
            \/ \E role \in Roles : Create(r, t, e, role)
            \/ Guest(r, t, e) \/ Forgot(r, t, e)
  \/ \E u \in Requests :
       Remove(r, u) \/ \E active \in BOOLEAN : Update(r, u, active)

Next == \E r \in Requests : Call(r) \/ Step(r)

Spec == Init /\ [][Next]_vars

----------------------------------------------------------------------------
(* Properties.                                                             *)

\* The accounts as a directory, without the names, phones and isActive that
\* update and public bookings write.
Listed ==
  {[id |-> u, tenant |-> users[u].tenant, email |-> users[u].email,
    role |-> users[u].role] : u \in Live}

Register == INSTANCE Directory WITH
  Emails <- Email,
  open   <- Listed,
  served <- {r \in Requests : pc[r] = "done"}

\* Whatever the requests read before they write, the collection behaves as a
\* directory in which accounts are opened at vacant addresses only, are never
\* given another tenant, address or role, and never come back when removed;
\* and no request opens or closes two (UsersService as a whole).
DirectorySpec == Register!Spec

\* "Los emails son unicos dentro de cada tenant": however the creators race
\* between their lookup and their insert, and whatever is removed and made
\* again, no two accounts of a tenant have the same address.
UniqueWithinTenant ==
  \A u, v \in Live :
    (users[u].tenant = users[v].tenant /\ users[u].email = users[v].email)
      => u = v

\* A public booking that is served is booked on a CLIENT of that tenant who
\* has the guest's address, or on one removed since it was found: never on an
\* administrator or on somebody of another tenant, whoever was removed and
\* created while the guest's request was under way.
ServedOnOwnAccount ==
  \A r \in Requests :
    (arg[r].kind = "guest" /\ resp[r] = "ok") =>
      /\ client[r] # Null
      /\ client[r] \in Live =>
           /\ users[client[r]].role = "CLIENT"
           /\ users[client[r]].tenant = arg[r].tenant
           /\ users[client[r]].email = arg[r].email

\* The late write of an anonymous guest changes nothing but the account of a
\* CLIENT of that tenant with the guest's own address: role and address were
\* looked at an await before the write, and meanwhile the account may have been
\* removed and the address given to a member of the staff.
GuestsWriteOnlyClients ==
  [][\A r, u \in Requests :
       (pc[r] = "update" /\ pc'[r] = "done" /\ users'[u] # users[u]) =>
         /\ users[u] # Null
         /\ users[u].role = "CLIENT"
         /\ users[u].tenant = arg[r].tenant
         /\ users[u].email = arg[r].email]_vars

\* The unhandled duplicate-key error is seen only by a request that lost a
\* race: when it looked, nobody had the address.
DuplicateOnlyByRace ==
  \A r \in Requests : resp[r] = "duplicate" => ~held[r]

\* "Si el email existe, te enviamos un link": when an active account has
\* exactly the address typed, forgotPassword sends a link.
LinkForExistingEmail ==
  \A r \in Requests : resp[r] = "silent" => ~held[r]
=============================================================================
