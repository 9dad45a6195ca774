------------------------ MODULE PasswordResetProofs ------------------------
(* Proofs about PasswordReset for every set of users and requests.           *)
EXTENDS PasswordReset, TLAPS

(***************************************************************************)
(* Type correctness: the steps that use the presented link need to know    *)
(* that there is one.                                                      *)
(***************************************************************************)

HoldsLink == \A q \in Requests :
  pc[q] \in {"read", "update", "set"} => link[q] \in Token

TypeInv == TypeOK /\ HoldsLink

LEMMA CurrentVersionType ==
  ASSUME TypeOK, NEW u \in Users
  PROVE  CurrentVersion(u) \in Nat
  BY DEF TypeOK, CurrentVersion

LEMMA TypeInit == Init => TypeInv
  BY ResetAssumption DEF Init, TypeInv, TypeOK, HoldsLink

LEMMA TypeNext == TypeInv /\ [Next]_vars => TypeInv'
  <1> SUFFICES ASSUME TypeInv, [Next]_vars PROVE TypeInv'
    OBVIOUS
  <1> USE ResetAssumption DEF TypeInv, TypeOK, HoldsLink
  <1>1. ASSUME NEW q \in Requests, NEW u \in Users, ForgotPassword(q, u)
        PROVE  TypeInv'
    <2>1. [sub |-> u, version |-> CurrentVersion(u), exp |-> now + TTL] \in Token
      BY CurrentVersionType DEF Token
    <2> QED
      BY <1>1, <2>1 DEF ForgotPassword, Reply, Goto
  <1>2. ASSUME NEW q \in Requests, VerifyLink(q) PROVE TypeInv'
    BY <1>2 DEF VerifyLink, Reply, Goto
  <1>3. ASSUME NEW q \in Requests, ReadUser(q) PROVE TypeInv'
    BY <1>3 DEF ReadUser, Reply, Goto
  <1>4. ASSUME NEW q \in Requests, UpdatePassword(q) PROVE TypeInv'
    <2>1. link[q].sub \in Users /\ link[q].version \in Nat
      BY <1>4 DEF UpdatePassword, Token
    <2>2. Bump(link[q].sub) \in [Users -> Nat \cup {Absent}]
      BY <2>1, CurrentVersionType DEF Bump
    <2> QED
      BY <1>4, <2>1, <2>2 DEF UpdatePassword, Reply, Goto
  <1>5. ASSUME NEW q \in Requests, NEW u \in Users, ChangePassword(q, u)
        PROVE  TypeInv'
    BY <1>5 DEF ChangePassword, Goto, Token
  <1>6. ASSUME NEW q \in Requests, SetPassword(q) PROVE TypeInv'
    BY <1>6 DEF SetPassword, Reply, Goto
  <1>7. ASSUME NEW q \in Requests, NEW u \in Users,
               NEW s \in {"active", "inactive", "gone"}, Administer(q, u, s)
        PROVE  TypeInv'
    BY <1>7 DEF Administer, Reply, Goto
  <1>8. CASE Tick
    BY <1>8 DEF Tick
  <1>9. CASE UNCHANGED vars
    BY <1>9 DEF vars
  <1> QED
    BY <1>1, <1>2, <1>3, <1>4, <1>5, <1>6, <1>7, <1>8, <1>9 DEF Next

----------------------------------------------------------------------------
(***************************************************************************)
(* The ledger.  Every redemption moves the version of its user on, so what *)
(* is in the ledger lies strictly below the current version.               *)
(***************************************************************************)

LedgerInv ==
  /\ TypeInv
  /\ \A e \in redeemed : e.version < CurrentVersion(e.user)
  /\ \A e \in redeemed : pc[e.by] = "done"
  /\ SingleUse

LEMMA LedgerInit == Init => LedgerInv
  BY TypeInit DEF Init, LedgerInv, SingleUse

\* Everything but a successful UpdatePassword leaves the ledger alone.
LEMMA LedgerKept ==
  ASSUME LedgerInv, TypeInv', UNCHANGED <<redeemed, version>>,
         \A q \in Requests : pc[q] = "done" => pc'[q] = "done"
  PROVE  LedgerInv'
  <1>1. \A u : CurrentVersion(u)' = CurrentVersion(u)
    BY DEF CurrentVersion
  <1>2. \A e \in redeemed : e.by \in Requests
    BY DEF LedgerInv, TypeInv, TypeOK
  <1> QED
    BY <1>1, <1>2 DEF LedgerInv, SingleUse

\* What a successful UpdatePassword does to the ledger.
LEMMA Redemption ==
  ASSUME LedgerInv, TypeInv', NEW q \in Requests, UpdatePassword(q), Guard(q)
  PROVE  LedgerInv' /\ Ledger!Next
  <1> USE DEF LedgerInv
  <1>1. link[q] \in Token /\ pc[q] = "update"
    BY DEF UpdatePassword, TypeInv, HoldsLink
  <1>2. PICK u \in Users, n \in Nat : u = link[q].sub /\ n = link[q].version
    BY <1>1 DEF Token
  <1> DEFINE new == [user |-> u, version |-> n, by |-> q]
  <1>3. /\ redeemed' = redeemed \cup {new} /\ version' = Bump(u)
        /\ pc' = [pc EXCEPT ![q] = "done"]
    BY <1>2 DEF UpdatePassword, Reply, Goto
  <1>4. CurrentVersion(u) = n
    BY <1>2, ResetAssumption DEF Guard, CurrentVersion
  <1>5. version' = [version EXCEPT ![u] = n + 1]
    BY <1>3, <1>4 DEF Bump
  <1>6. /\ CurrentVersion(u)' = n + 1
        /\ \A v \in Users : v # u => CurrentVersion(v)' = CurrentVersion(v)
    BY <1>5, ResetAssumption DEF CurrentVersion, TypeInv, TypeOK
  <1>7. \A e \in redeemed : e.user \in Users /\ e.by \in Requests
                            /\ e.version \in Nat /\ e.by # q
    BY <1>1 DEF TypeInv, TypeOK
  <1>8. \A e \in redeemed' : e.version < CurrentVersion(e.user)'
    <2> SUFFICES ASSUME NEW e \in redeemed'
                 PROVE  e.version < CurrentVersion(e.user)'
      OBVIOUS
    <2>1. CASE e = new
      BY <1>6, <2>1
    <2>2. CASE e \in redeemed /\ e.user # u
      BY <1>6, <1>7, <2>2
    <2>3. CASE e \in redeemed /\ e.user = u
      BY <1>4, <1>6, <1>7, <2>3
    <2> QED
      BY <1>3, <2>1, <2>2, <2>3
  <1>9. \A e \in redeemed' : pc'[e.by] = "done"
    BY <1>3, <1>7 DEF TypeInv, TypeOK
  <1>10. SingleUse'
    <2>1. \A e \in redeemed : e.user = u => e.version # n
      BY <1>4, <1>7
    <2> QED
      BY <1>3, <2>1 DEF SingleUse
  <1>11. Ledger!Redeem(u, q)
    <2> DEFINE cv == [v \in Users |-> CurrentVersion(v)]
    <2>1. cv' = [cv EXCEPT ![u] = @ + 1]
      BY <1>4, <1>6
    <2>2. redeemed' = redeemed \cup
            {[user |-> u, version |-> cv[u], by |-> q]}
      BY <1>3, <1>4
    <2> QED
      BY <1>7, <2>1, <2>2 DEF Ledger!Redeem
  <1>12. Ledger!Next
    BY <1>11 DEF Ledger!Next
  <1> QED
    BY <1>8, <1>9, <1>10, <1>12

\* A step that keeps redeemed and version maps to a stutter of the ledger.
LEMMA LedgerStutter ==
  ASSUME UNCHANGED <<redeemed, version>>
  PROVE  UNCHANGED <<redeemed, [u \in Users |-> CurrentVersion(u)]>>
  BY DEF CurrentVersion

LEMMA LedgerNext ==
  ASSUME LedgerInv, [Next]_vars
  PROVE  /\ LedgerInv'
         /\ [Ledger!Next]_<<redeemed, [u \in Users |-> CurrentVersion(u)]>>
  <1>1. TypeInv /\ TypeInv'
    BY TypeNext DEF LedgerInv
  <1>2. CASE \E q \in Requests : UpdatePassword(q) /\ Guard(q)
    BY <1>1, <1>2, Redemption
  <1>3. CASE /\ UNCHANGED <<redeemed, version>>
             /\ \A q \in Requests : pc[q] = "done" => pc'[q] = "done"
    BY <1>1, <1>3, LedgerKept, LedgerStutter
  <1>4. ASSUME NEW q \in Requests, UpdatePassword(q), ~Guard(q)
        PROVE  /\ UNCHANGED <<redeemed, version>>
               /\ \A p \in Requests : pc[p] = "done" => pc'[p] = "done"
    BY <1>1, <1>4 DEF UpdatePassword, Reply, Goto, TypeInv, TypeOK
  <1>5. ASSUME NEW q \in Requests, NEW u \in Users,
               NEW s \in {"active", "inactive", "gone"},
               \/ VerifyLink(q) \/ ReadUser(q) \/ SetPassword(q)
               \/ ForgotPassword(q, u) \/ ChangePassword(q, u)
               \/ Administer(q, u, s)
        PROVE  /\ UNCHANGED <<redeemed, version>>
               /\ \A p \in Requests : pc[p] = "done" => pc'[p] = "done"
    BY <1>1, <1>5
       DEF VerifyLink, ReadUser, SetPassword, ForgotPassword, ChangePassword,
           Administer, Reply, Goto, TypeInv, TypeOK
  <1>6. CASE Tick
    BY <1>3, <1>6 DEF Tick
  <1>7. CASE UNCHANGED vars
    BY <1>3, <1>7 DEF vars
  <1>8. CASE \E q \in Requests : VerifyLink(q) \/ ReadUser(q) \/ SetPassword(q)
    <2>1. PICK q \in Requests : VerifyLink(q) \/ ReadUser(q) \/ SetPassword(q)
      BY <1>8
    <2>2. /\ UNCHANGED <<redeemed, version>>
          /\ \A p \in Requests : pc[p] = "done" => pc'[p] = "done"
      BY <1>1, <2>1
         DEF VerifyLink, ReadUser, SetPassword, Reply, Goto, TypeInv, TypeOK
    <2> QED
      BY <1>3, <2>2
  <1>9. CASE \E q \in Requests : UpdatePassword(q) /\ ~Guard(q)
    BY <1>3, <1>4, <1>9
  <1>10. CASE \E q \in Requests, u \in Users :
               \/ ForgotPassword(q, u) \/ ChangePassword(q, u)
               \/ \E s \in {"active", "inactive", "gone"} : Administer(q, u, s)
    BY <1>3, <1>5, <1>10
  <1> QED
    BY <1>2, <1>6, <1>7, <1>8, <1>9, <1>10 DEF Next

LEMMA LedgerAlways == Spec => []LedgerInv
  BY LedgerInit, LedgerNext, PTL DEF Spec

\* Every variable keeps its type.
THEOREM TypeCorrect == Spec => []TypeOK
  <1>1. LedgerInv => TypeOK
    BY DEF LedgerInv, TypeInv
  <1> QED
    BY <1>1, LedgerAlways, PTL

\* A reset link works once, however the requests that present it interleave.
THEOREM LinksWorkOnce == Spec => []SingleUse
  <1>1. LedgerInv => SingleUse
    BY DEF LedgerInv
  <1> QED
    BY <1>1, LedgerAlways, PTL

\* The handlers implement the abstract ledger.
THEOREM ImplementsLedger == Spec => LedgerSpec
  <1>1. Init => Ledger!Init
    BY DEF Init, Ledger!Init, CurrentVersion
  <1>2. LedgerInv /\ [Next]_vars =>
          [Ledger!Next]_<<redeemed, [u \in Users |-> CurrentVersion(u)]>>
    BY LedgerNext
  <1> QED
    BY <1>1, <1>2, LedgerAlways, PTL DEF Spec, LedgerSpec, Ledger!Spec

----------------------------------------------------------------------------
(***************************************************************************)
(* Causes.  Every version below the current one has been redeemed, and     *)
(* whoever waits for the update has read a version that is not ahead.      *)
(***************************************************************************)

Spent == \A u \in Users, n \in Nat :
  n < CurrentVersion(u) => \E e \in redeemed : e.user = u /\ e.version = n

NotAhead == \A q \in Requests :
  pc[q] = "update" => link[q].version <= CurrentVersion(link[q].sub)

Unanswered == \A q \in Requests : pc[q] # "done" => resp[q] = "none"

CauseInv == TypeInv /\ Spent /\ NotAhead

LEMMA AnswerLast ==
  ASSUME TypeInv, Unanswered, [Next]_vars
  PROVE  Unanswered'
  <1>t. TypeOK
    BY DEF TypeInv
  <1>1. CASE UNCHANGED vars \/ Tick
    BY <1>1 DEF vars, Tick, Unanswered
  <1>2. ASSUME NEW q \in Requests, VerifyLink(q) \/ ReadUser(q)
        PROVE  Unanswered'
    BY <1>2, <1>t DEF VerifyLink, ReadUser, Reply, Goto, TypeOK, Unanswered
  <1>3. ASSUME NEW q \in Requests, UpdatePassword(q) \/ SetPassword(q)
        PROVE  Unanswered'
    BY <1>3, <1>t DEF UpdatePassword, SetPassword, Reply, Goto, TypeOK, Unanswered
  <1>4. ASSUME NEW q \in Requests, NEW u \in Users,
               \/ ForgotPassword(q, u) \/ ChangePassword(q, u)
               \/ \E s \in {"active", "inactive", "gone"} : Administer(q, u, s)
        PROVE  Unanswered'
    BY <1>4, <1>t
       DEF ForgotPassword, ChangePassword, Administer, Reply, Goto, TypeOK,
           Unanswered
  <1> QED
    BY <1>1, <1>2, <1>3, <1>4 DEF Next

LEMMA CauseInit == Init => CauseInv
  <1>1. Init => \A u \in Users : CurrentVersion(u) = 0
    BY DEF Init, CurrentVersion
  <1> QED
    BY <1>1, TypeInit DEF CauseInv, Spent, NotAhead, Init

\* What a request presents stays as it is while it waits for the update.
LEMMA CauseKept ==
  ASSUME CauseInv, TypeInv', UNCHANGED <<redeemed, version>>,
         \A q \in Requests : pc'[q] = "update" =>
           /\ link'[q] = link[q]
           /\ pc[q] # "update" => link[q].version = CurrentVersion(link[q].sub)
  PROVE  CauseInv'
  <1>1. \A u : CurrentVersion(u)' = CurrentVersion(u)
    BY DEF CurrentVersion
  <1>2. Spent'
    BY <1>1 DEF CauseInv, Spent
  <1>3. ASSUME NEW q \in Requests, pc'[q] = "update"
        PROVE  (link[q].version <= CurrentVersion(link[q].sub))'
    <2>1. link'[q] \in Token /\ link'[q] = link[q]
      BY <1>3 DEF TypeInv, HoldsLink
    <2>2. CurrentVersion(link[q].sub) \in Nat
      BY <2>1, CurrentVersionType DEF CauseInv, TypeInv, Token
    <2>3. link[q].version <= CurrentVersion(link[q].sub)
      BY <1>3, <2>2 DEF CauseInv, NotAhead
    <2> QED
      BY <1>1, <2>1, <2>3
  <1> QED
    BY <1>2, <1>3 DEF CauseInv, NotAhead

LEMMA CauseRedeemed ==
  ASSUME CauseInv, TypeInv', NEW q \in Requests, UpdatePassword(q), Guard(q)
  PROVE  CauseInv'
  <1>1. link[q] \in Token /\ TypeOK
    BY DEF UpdatePassword, CauseInv, TypeInv, HoldsLink
  <1>2. PICK u \in Users, n \in Nat : u = link[q].sub /\ n = link[q].version
    BY <1>1 DEF Token
  <1>3. CurrentVersion(u) = n
    BY <1>2, ResetAssumption DEF Guard, CurrentVersion
  <1>4. /\ redeemed' = redeemed \cup {[user |-> u, version |-> n, by |-> q]}
        /\ version' = [version EXCEPT ![u] = n + 1]
        /\ pc' = [pc EXCEPT ![q] = "done"] /\ UNCHANGED link
    BY <1>2, <1>3 DEF UpdatePassword, Reply, Goto, Bump
  <1>5. /\ CurrentVersion(u)' = n + 1
        /\ \A v \in Users : v # u => CurrentVersion(v)' = CurrentVersion(v)
    BY <1>1, <1>4, ResetAssumption DEF CurrentVersion, TypeOK
  <1>6. Spent'
    <2> SUFFICES ASSUME NEW v \in Users, NEW k \in Nat, k < CurrentVersion(v)'
                 PROVE  \E e \in redeemed' : e.user = v /\ e.version = k
      BY DEF Spent
    <2>1. CASE v = u /\ k = n
      <3> DEFINE new == [user |-> u, version |-> n, by |-> q]
      <3>1. new \in redeemed' /\ new.user = v /\ new.version = k
        BY <1>4, <2>1
      <3> QED
        BY <3>1
    <2>2. CASE ~(v = u /\ k = n)
      <3>1. k < CurrentVersion(v)
        <4>1. CASE v = u
          BY <1>3, <1>5, <2>2, <4>1
        <4>2. CASE v # u
          BY <1>5, <4>2
        <4> QED
          BY <4>1, <4>2
      <3> QED
        BY <1>4, <3>1 DEF CauseInv, Spent
    <2> QED
      BY <2>1, <2>2
  <1>7. ASSUME NEW p \in Requests, pc'[p] = "update"
        PROVE  (link[p].version <= CurrentVersion(link[p].sub))'
    <2>1. pc[p] = "update" /\ link'[p] = link[p]
      BY <1>1, <1>4, <1>7 DEF TypeOK
    <2>2. link[p].sub \in Users /\ link[p].version \in Nat
      BY <2>1 DEF CauseInv, TypeInv, HoldsLink, Token
    <2>3. link[p].version <= CurrentVersion(link[p].sub)
      BY <2>1 DEF CauseInv, NotAhead
    <2>4. CASE link[p].sub = u
      BY <1>3, <1>5, <2>1, <2>2, <2>3, <2>4
    <2>5. CASE link[p].sub # u
      BY <1>5, <2>1, <2>2, <2>3, <2>5
    <2> QED
      BY <2>4, <2>5
  <1> QED
    BY <1>6, <1>7 DEF CauseInv, NotAhead

LEMMA CauseNext == CauseInv /\ [Next]_vars => CauseInv'
  <1> SUFFICES ASSUME CauseInv, [Next]_vars PROVE CauseInv'
    OBVIOUS
  <1>t. TypeInv /\ TypeInv' /\ TypeOK
    BY TypeNext DEF CauseInv, TypeInv
  <1>1. ASSUME NEW q \in Requests, VerifyLink(q) PROVE CauseInv'
    <2>1. \A p \in Requests : pc'[p] = "update" =>
            pc[p] = "update" /\ link'[p] = link[p]
      BY <1>1, <1>t DEF VerifyLink, Reply, Goto, TypeOK
    <2> QED
      BY <1>1, <1>t, <2>1, CauseKept DEF VerifyLink
  <1>2. ASSUME NEW q \in Requests, ReadUser(q) PROVE CauseInv'
    <2>1. \A p \in Requests : pc'[p] = "update" /\ pc[p] # "update" =>
            link[p].version = CurrentVersion(link[p].sub)
      BY <1>2, <1>t DEF ReadUser, Reply, Goto, TypeOK
    <2> QED
      BY <1>2, <1>t, <2>1, CauseKept DEF ReadUser
  <1>3. ASSUME NEW q \in Requests, UpdatePassword(q) PROVE CauseInv'
    <2>1. CASE Guard(q)
      BY <1>3, <1>t, <2>1, CauseRedeemed
    <2>2. CASE ~Guard(q)
      <3>1. \A p \in Requests : pc'[p] = "update" => pc[p] = "update"
        BY <1>3, <1>t, <2>2 DEF UpdatePassword, Reply, Goto, TypeOK
      <3> QED
        BY <1>3, <1>t, <2>2, <3>1, CauseKept DEF UpdatePassword
    <2> QED
      BY <2>1, <2>2
  <1>4. ASSUME NEW q \in Requests,
               \/ SetPassword(q)
               \/ \E u \in Users :
                    \/ ForgotPassword(q, u) \/ ChangePassword(q, u)
                    \/ \E s \in {"active", "inactive", "gone"} :
                         Administer(q, u, s)
        PROVE  CauseInv'
    <2>1. \A p \in Requests : pc'[p] = "update" =>
            pc[p] = "update" /\ link'[p] = link[p]
      BY <1>4, <1>t DEF SetPassword, ForgotPassword, ChangePassword, Administer,
         Reply, Goto, TypeOK
    <2>2. UNCHANGED <<redeemed, version>>
      BY <1>4 DEF SetPassword, ForgotPassword, ChangePassword, Administer
    <2> QED
      BY <1>t, <2>1, <2>2, CauseKept
  <1>5. CASE Tick \/ UNCHANGED vars
    BY <1>5, <1>t, CauseKept DEF Tick, vars
  <1> QED
    BY <1>1, <1>2, <1>3, <1>4, <1>5 DEF Next

\* A link that the checks of resetPassword let pass is refused by the
\* conditional update only when the account is not active any more or somebody
\* else has redeemed a link of the same version, whatever the version is and
\* whether or not the document has the field.
THEOREM RefusedOnlyForCauseHolds == Spec => RefusedOnlyForCause
  <1>1. CauseInv /\ Unanswered /\ [Next]_vars =>
          [\A q \in Requests :
             (pc[q] = "update" /\ resp'[q] = "refused") =>
               \/ state[link[q].sub] # "active"
               \/ \E e \in redeemed :
                    e.user = link[q].sub /\ e.version = link[q].version]_vars
    <2> SUFFICES ASSUME CauseInv, Unanswered, Next,
                        NEW q \in Requests, pc[q] = "update",
                        resp'[q] = "refused", state[link[q].sub] = "active"
                 PROVE  \E e \in redeemed :
                          e.user = link[q].sub /\ e.version = link[q].version
      OBVIOUS
    <2>t. TypeOK /\ link[q] \in Token /\ resp[q] = "none"
      BY DEF CauseInv, TypeInv, HoldsLink, Unanswered
    <2>u. link[q].sub \in Users /\ link[q].version \in Nat
      BY <2>t DEF Token
    <2>1. UpdatePassword(q) /\ ~Guard(q)
      <3>1. ASSUME NEW p \in Requests,
                   \/ VerifyLink(p) \/ ReadUser(p) \/ SetPassword(p)
                   \/ UpdatePassword(p) /\ (p # q \/ Guard(p))
            PROVE  resp'[q] # "refused"
        BY <2>t, <3>1 DEF VerifyLink, ReadUser, SetPassword, UpdatePassword,
           Reply, Goto, TypeOK
      <3>2. ASSUME NEW p \in Requests, NEW u \in Users,
                   \/ ForgotPassword(p, u) \/ ChangePassword(p, u)
                   \/ \E s \in {"active", "inactive", "gone"} :
                        Administer(p, u, s)
            PROVE  resp'[q] # "refused"
        BY <2>t, <3>2 DEF ForgotPassword, ChangePassword, Administer, Reply,
           Goto, TypeOK
      <3> QED
        BY <2>t, <3>1, <3>2 DEF Next, Tick
    <2>2. CurrentVersion(link[q].sub) # link[q].version
      BY <2>1, <2>t, <2>u, ResetAssumption DEF Guard, CurrentVersion, TypeOK
    <2>3. link[q].version < CurrentVersion(link[q].sub)
      BY <2>2, <2>t, <2>u, CurrentVersionType DEF CauseInv, NotAhead
    <2> QED
      BY <2>3, <2>u DEF CauseInv, Spent
  <1>2. Init => Unanswered
    BY DEF Init, Unanswered
  <1>3. CauseInv /\ Unanswered /\ [Next]_vars => Unanswered'
    BY AnswerLast DEF CauseInv
  <1> QED
    BY <1>1, <1>2, <1>3, CauseInit, CauseNext, PTL DEF Spec, RefusedOnlyForCause

\* An inactive account keeps its password whatever links are out, and a removed
\* one as well: resetPassword hashes between its check and its update, but the
\* filter of the update asks for an active account once more.
THEOREM NoResetWhileInactiveHolds == Spec => NoResetWhileInactive
  <1>1. TypeInv /\ [Next]_vars =>
          [\A u \in Users :
             (state[u] # "active" /\ password'[u] # password[u]) =>
               state[u] = "inactive" /\ pc[password'[u]] = "set"]_vars
    <2> SUFFICES ASSUME TypeInv, Next, NEW u \in Users, state[u] # "active",
                        password'[u] # password[u]
                 PROVE  state[u] = "inactive" /\ pc[password'[u]] = "set"
      OBVIOUS
    <2>t. TypeOK
      BY DEF TypeInv
    <2>1. ASSUME NEW q \in Requests, UpdatePassword(q) PROVE FALSE
      <3>1. Guard(q) /\ password' = [password EXCEPT ![link[q].sub] = q]
        BY <2>1 DEF UpdatePassword
      <3>2. link[q].sub = u
        BY <2>t, <3>1 DEF TypeOK
      <3> QED
        BY <3>1, <3>2 DEF Guard
    <2>2. ASSUME NEW q \in Requests, SetPassword(q)
          PROVE  state[u] = "inactive" /\ pc[password'[u]] = "set"
      <3>1. /\ pc[q] = "set" /\ state[link[q].sub] # "gone"
            /\ password' = [password EXCEPT ![link[q].sub] = q]
        BY <2>2 DEF SetPassword
      <3>2. link[q].sub = u /\ password'[u] = q
        BY <2>t, <3>1 DEF TypeOK
      <3> QED
        BY <2>t, <3>1, <3>2 DEF TypeOK
    <2> QED
      BY <2>1, <2>2 DEF Next, VerifyLink, ReadUser, ForgotPassword,
         ChangePassword, Administer, Tick
  <1>2. LedgerInv => TypeInv
    BY DEF LedgerInv
  <1> QED
    BY <1>1, <1>2, LedgerAlways, PTL DEF Spec, NoResetWhileInactive
============================================================================
