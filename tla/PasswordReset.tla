--------------------------- MODULE PasswordReset ---------------------------
(***************************************************************************)
(* Password reset links (AuthService.forgotPassword and resetPassword over *)
(* UsersService.resetPasswordWithVersion), together with the other         *)
(* operations that write a user: changePassword, the isActive flag of      *)
(* update, and remove.                                                     *)
(*                                                                         *)
(* A link is a signed token that carries the user's resetPasswordVersion   *)
(* at the time of issue and an expiry; nothing about it is stored.  To     *)
(* redeem it the handler reads the user, compares versions, hashes the new *)
(* password (an await of a few hundred milliseconds) and then updates the  *)
(* document under a filter on _id, isActive and version.                   *)
(***************************************************************************)
EXTENDS Integers, FiniteSets

CONSTANTS
  Users,
  Requests,
  Absent,     \* no value; resetPasswordVersion of a document older than the field
  TTL,        \* lifetime of a link
  MaxNow      \* bound of the clock

ASSUME ResetAssumption ==
  /\ Absent \notin Nat
  /\ TTL \in Nat \ {0}
  /\ MaxNow \in Nat

Token == [sub: Users, version: Nat, exp: Nat]

VARIABLES
  now,
  state,     \* state[u]: "active", "inactive" or "gone"
  version,   \* version[u]: resetPasswordVersion
  password,  \* password[u]: the request whose password is set
  mailed,    \* the links that reached a mailbox
  pc,
  link,      \* link[q]: the token request q presents (only .sub of a
             \* changePassword matters), or Absent
  resp,
  redeemed   \* history: who redeemed which version of which user

vars == <<now, state, version, password, mailed, pc, link, resp, redeemed>>

TypeOK ==
  /\ now \in 0..MaxNow
  /\ state \in [Users -> {"active", "inactive", "gone"}]
  /\ version \in [Users -> Nat \cup {Absent}]
  /\ password \in [Users -> Requests \cup {Absent}]
  /\ mailed \subseteq Token
  /\ pc \in [Requests -> {"idle", "read", "update", "set", "done"}]
  /\ link \in [Requests -> Token \cup {Absent}]
  /\ resp \in [Requests -> {"none", "ok", "refused", "notFound"}]
  /\ redeemed \subseteq [user: Users, version: Nat, by: Requests]

Init ==
  /\ now = 0
  /\ state = [u \in Users |-> "active"]
  /\ version \in [Users -> {0, Absent}]
  /\ password = [u \in Users |-> Absent]
  /\ mailed = {}
  /\ pc = [q \in Requests |-> "idle"]
  /\ link = [q \in Requests |-> Absent]
  /\ resp = [q \in Requests |-> "none"]
  /\ redeemed = {}

Goto(q, step) == pc' = [pc EXCEPT ![q] = step]

Reply(q, answer) ==
  /\ Goto(q, "done")
  /\ resp' = [resp EXCEPT ![q] = answer]

\* Seeded fault: the "|| 0" is missing.
VersionAsStored(u) == version[u]

\* user.resetPasswordVersion || 0
CurrentVersion(u) == IF version[u] = Absent THEN 0 ELSE version[u]

----------------------------------------------------------------------------
\* forgotPassword: the user is read and the token signed with no await in
\* between.  The answer is always the same, and sendResetPasswordEmail
\* swallows errors, so the mail may be lost.
ForgotPassword(q, u) ==
  /\ pc[q] = "idle"
  /\ \/ /\ state[u] = "active"
        /\ mailed' = mailed \cup {[sub |-> u, version |-> CurrentVersion(u),
                                   exp |-> now + TTL]}
     \/ UNCHANGED mailed
  /\ Reply(q, "ok")
  /\ UNCHANGED <<now, state, version, password, link, redeemed>>

\* verifyResetPasswordToken: an expired link is refused before anything is
\* read.
VerifyLink(q) ==
  /\ pc[q] = "idle"
  /\ \E t \in mailed :
       /\ link' = [link EXCEPT ![q] = t]
       /\ IF now >= t.exp
          THEN Reply(q, "refused")
          ELSE Goto(q, "read") /\ UNCHANGED resp
  /\ UNCHANGED <<now, state, version, password, mailed, redeemed>>

\* findByIdRaw and the checks on what it returned.
ReadUser(q) ==
  /\ pc[q] = "read"
  /\ LET t == link[q] IN
       IF state[t.sub] = "active" /\ CurrentVersion(t.sub) = t.version
       THEN Goto(q, "update") /\ UNCHANGED resp
       ELSE Reply(q, "refused")
  /\ UNCHANGED <<now, state, version, password, mailed, link, redeemed>>

\* Seeded fault: the update filters on the version but not on isActive.
GuardVersionOnly(q) ==
  /\ state[link[q].sub] # "gone"
  /\ CurrentVersion(link[q].sub) = link[q].version

\* Seeded fault: the update filters on the _id alone.
GuardIdOnly(q) == state[link[q].sub] # "gone"

\* Seeded fault: the filter forgets the documents without the field.
GuardFieldPresent(q) ==
  /\ state[link[q].sub] = "active"
  /\ version[link[q].sub] = link[q].version

\* The filter of the updateOne in resetPasswordWithVersion.
Guard(q) ==
  /\ state[link[q].sub] = "active"
  /\ IF link[q].version = 0
     THEN version[link[q].sub] \in {0, Absent}
     ELSE version[link[q].sub] = link[q].version

\* Seeded fault: the update sets the password and leaves the version.
BumpNothing(u) == version

\* $inc on a missing field starts from 0.
Bump(u) == [version EXCEPT ![u] = CurrentVersion(u) + 1]

UpdatePassword(q) ==
  /\ pc[q] = "update"
  /\ LET u == link[q].sub IN
     \/ /\ Guard(q)
        /\ password' = [password EXCEPT ![u] = q]
        /\ version' = Bump(u)
        /\ redeemed' = redeemed \cup
             {[user |-> u, version |-> link[q].version, by |-> q]}
        /\ Reply(q, "ok")
     \/ /\ ~Guard(q)
        /\ Reply(q, "refused")
        /\ UNCHANGED <<password, version, redeemed>>
  /\ UNCHANGED <<now, state, mailed, link>>

----------------------------------------------------------------------------
\* changePassword hashes first and then updates the document by _id alone;
\* the version is not touched.
ChangePassword(q, u) ==
  /\ pc[q] = "idle"
  /\ link' = [link EXCEPT ![q] = [sub |-> u, version |-> 0, exp |-> 0]]
  /\ Goto(q, "set")
  /\ UNCHANGED <<now, state, version, password, mailed, resp, redeemed>>

SetPassword(q) ==
  /\ pc[q] = "set"
  /\ LET u == link[q].sub IN
     \/ /\ state[u] # "gone"
        /\ password' = [password EXCEPT ![u] = q]
        /\ Reply(q, "ok")
     \/ /\ state[u] = "gone"
        /\ Reply(q, "notFound")
        /\ UNCHANGED password
  /\ UNCHANGED <<now, state, version, mailed, link, redeemed>>

\* update with isActive, and remove.
Administer(q, u, s) ==
  /\ pc[q] = "idle"
  /\ IF state[u] = "gone"
     THEN Reply(q, "notFound") /\ UNCHANGED state
     ELSE Reply(q, "ok") /\ state' = [state EXCEPT ![u] = s]
  /\ UNCHANGED <<now, version, password, mailed, link, redeemed>>

Tick ==
  /\ now < MaxNow
  /\ now' = now + 1
  /\ UNCHANGED <<state, version, password, mailed, pc, link, resp, redeemed>>

Next ==
  \/ \E q \in Requests :
       \/ VerifyLink(q) \/ ReadUser(q) \/ UpdatePassword(q) \/ SetPassword(q)
       \/ \E u \in Users :
            \/ ForgotPassword(q, u)
            \/ ChangePassword(q, u)
            \/ \E s \in {"active", "inactive", "gone"} : Administer(q, u, s)
  \/ Tick

Spec == Init /\ [][Next]_vars

----------------------------------------------------------------------------
(* Properties.                                                             *)

\* "Este link vence pronto y solo puede usarse una vez": of all the requests
\* that present links of one version of a user, however they interleave
\* around the hashing, one at most changes the password.
SingleUse ==
  \A d, e \in redeemed :
    (d.user = e.user /\ d.version = e.version) => d.by = e.by

\* A link that passed the checks of resetPassword is refused by the final
\* update only because another request redeemed the same version meanwhile,
\* or because the user was deactivated or removed.
RefusedOnlyForCause ==
  [][\A q \in Requests :
       (pc[q] = "update" /\ resp'[q] = "refused") =>
         \/ state[link[q].sub] # "active"
         \/ \E e \in redeemed :
              e.user = link[q].sub /\ e.version = link[q].version]_vars

\* While an account is deactivated or removed no link changes its password,
\* even one whose request had read the account as active; only an
\* authenticated changePassword does, and only while the account exists.
NoResetWhileInactive ==
  [][\A u \in Users :
       (state[u] # "active" /\ password'[u] # password[u]) =>
         state[u] = "inactive" /\ pc[password'[u]] = "set"]_vars

\* The ledger of redeemed links behaves as its abstract specification says:
\* only the links of a user's current version can be redeemed, each redemption
\* moves the version on by one, and nothing else touches it.
Ledger == INSTANCE ResetLedger
            WITH ledger <- redeemed,
                 next <- [u \in Users |-> CurrentVersion(u)]

LedgerSpec == Ledger!Spec
============================================================================
