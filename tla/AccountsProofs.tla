--------------------------- MODULE AccountsProofs ---------------------------
(* Proofs about Accounts, for any number of requests, tenants and mailboxes. *)
EXTENDS Accounts, TLAPS

LEMMA NormalForm == \A e \in Email : normalizeEmail(e) \in Email
  BY DEF Email, normalizeEmail

LEMMA InitType == Init => TypeOK
<1> SUFFICES ASSUME Init PROVE TypeOK
  OBVIOUS
<1>1. (CHOOSE e \in Email : TRUE) \in Email
  <2>1. PICK b \in Mailboxes : TRUE
    BY AccountsAssumption
  <2>2. [box |-> b, normal |-> TRUE] \in Email
    BY <2>1 DEF Email
  <2> QED BY <2>2
<1> QED BY <1>1 DEF Init, TypeOK, Argument, Roles

LEMMA StepType == TypeOK /\ [Next]_vars => TypeOK'
<1> SUFFICES ASSUME TypeOK, [Next]_vars PROVE TypeOK'
  OBVIOUS
<1> USE DEF TypeOK
<1>1. ASSUME NEW r \in Requests, NEW t \in Tenants, NEW e \in Email,
             NEW role \in Roles, Create(r, t, e, role)
      PROVE  TypeOK'
  BY <1>1 DEF Create, Ask, Goto, Argument
<1>2. ASSUME NEW r \in Requests, NEW e \in Email, Seed(r, e) PROVE TypeOK'
  BY <1>2 DEF Seed, Ask, Goto, Argument, Roles
<1>3. ASSUME NEW r \in Requests, SeedFind(r) PROVE TypeOK'
  BY <1>3 DEF SeedFind, Goto, Reply
<1>4. ASSUME NEW r \in Requests, Find(r) PROVE TypeOK'
  BY <1>4 DEF Find, Goto, Reply
<1>5. ASSUME NEW r \in Requests, Insert(r) PROVE TypeOK'
  <2> DEFINE new == [tenant |-> arg[r].tenant, email |-> arg[r].email,
                     role |-> arg[r].role, isActive |-> TRUE, by |-> r]
  <2>1. new \in Account
    BY DEF Argument, Account
  <2>2. users' \in [Requests -> Account \cup {Null}]
    BY <1>5, <2>1 DEF Insert
  <2>3. client' \in [Requests -> Requests \cup {Null}]
    BY <1>5 DEF Insert
  <2>4. /\ pc' = [pc EXCEPT ![r] = "done"]
        /\ resp' \in {[resp EXCEPT ![r] = "duplicate"],
                      [resp EXCEPT ![r] = "ok"],
                      [resp EXCEPT ![r] = "failed"]}
        /\ UNCHANGED <<arg, held>>
    BY <1>5 DEF Insert, Goto, Reply
  <2> QED BY <2>2, <2>3, <2>4
<1>6. ASSUME NEW r \in Requests, NEW t \in Tenants, NEW e \in Email,
             Guest(r, t, e)
      PROVE  TypeOK'
  BY <1>6, NormalForm DEF Guest, Ask, Goto, Argument, Roles
<1>7. ASSUME NEW r \in Requests, GuestFind(r) PROVE TypeOK'
  <2>1. Clients(arg[r].tenant, arg[r].email) \subseteq Requests
    BY DEF Clients, At, Live
  <2> QED BY <1>7, <2>1 DEF GuestFind, Goto, Reply
<1>8. ASSUME NEW r \in Requests, GuestUpdate(r) PROVE TypeOK'
  BY <1>8 DEF GuestUpdate, Target, Live, Goto, Reply, Account
<1>9. ASSUME NEW r \in Requests, NEW u \in Requests, NEW active \in BOOLEAN,
             Update(r, u, active)
      PROVE  TypeOK'
  <2>1. users' \in [Requests -> Account \cup {Null}]
    <3>1. CASE u \notin Live
      BY <1>9, <3>1 DEF Update
    <3>2. CASE u \in Live
      <4>1. users[u] \in Account
        BY <3>2 DEF Live
      <4>2. [users[u] EXCEPT !.isActive = active, !.by = r] \in Account
        BY <4>1 DEF Account
      <4>3. users' = [users EXCEPT ![u] =
                        [users[u] EXCEPT !.isActive = active, !.by = r]]
        BY <1>9, <3>2 DEF Update
      <4> QED BY <4>2, <4>3
    <3> QED BY <3>1, <3>2
  <2>2. arg' \in [Requests -> Argument]
    BY <1>9 DEF Update, Ask, Argument, Roles
  <2> QED BY <1>9, <2>1, <2>2 DEF Update, Goto, Reply
<1>10. ASSUME NEW r \in Requests, NEW u \in Requests, Remove(r, u)
       PROVE  TypeOK'
  BY <1>10 DEF Remove, Ask, Goto, Reply, Argument, Roles
<1>11. ASSUME NEW r \in Requests, NEW t \in Tenants, NEW e \in Email,
              Forgot(r, t, e)
       PROVE  TypeOK'
  BY <1>11 DEF Forgot, Ask, Goto, Reply, Argument, Roles
<1>12. ASSUME NEW r \in Requests, Fail(r) PROVE TypeOK'
  BY <1>12 DEF Fail, Goto, Reply
<1>13. CASE UNCHANGED vars
  BY <1>13 DEF vars
<1> QED
  BY <1>1, <1>2, <1>3, <1>4, <1>5, <1>6, <1>7, <1>8, <1>9, <1>10, <1>11,
     <1>12, <1>13 DEF Next, Call, Step

\* The variables of Accounts keep their types.
THEOREM TypeCorrect == Spec => []TypeOK
<1>1. Init => TypeOK
  BY InitType
<1>2. TypeOK /\ [Next]_vars => TypeOK'
  BY StepType
<1> QED BY <1>1, <1>2, PTL DEF Spec

----------------------------------------------------------------------------
(* UniqueWithinTenant, ServedOnOwnAccount and DuplicateOnlyByRace speak of  *)
(* the collection at one moment; to carry them over a step one must know    *)
(* what a request in mid-flight has made sure of.                           *)

\* What the position of a request says about what it was asked, and that a
\* request about to insert had found its address free.
ArgShape ==
  \A r \in Requests :
    /\ pc[r] = "idle" => arg[r].kind = "none"
    /\ pc[r] = "seed" => arg[r].kind = "seed"
    /\ pc[r] \in {"guest", "update"} => arg[r].kind = "guest"
    /\ pc[r] = "find" => arg[r].kind \in {"create", "seed"}
    /\ pc[r] = "insert" => arg[r].kind \in {"create", "seed", "guest"}
    /\ pc[r] = "insert" => ~held[r]
    /\ resp[r] # "none" => pc[r] = "done"

\* What each kind of request asks for.
KindShape ==
  \A r \in Requests :
    /\ arg[r].kind = "seed" => arg[r].tenant = NoTenant
                                 /\ arg[r].role = "SUPER_ADMIN"
    /\ arg[r].kind = "create" => arg[r].tenant \in Tenants
    /\ arg[r].kind = "guest" => arg[r].tenant \in Tenants
                                  /\ arg[r].role = "CLIENT"

\* An account is that of a finished request, which will not insert another;
\* only super admins have no tenant.
LiveShape ==
  \A u \in Live :
    /\ pc[u] = "done"
    /\ users[u].tenant = NoTenant => users[u].role = "SUPER_ADMIN"

OwnClient(r) ==
  client[r] \in Live =>
    /\ users[client[r]].role = "CLIENT"
    /\ users[client[r]].tenant = arg[r].tenant
    /\ users[client[r]].email = arg[r].email

\* The account a guest holds on to is a client's with the guest's address, or
\* is gone and will not come back as another's.
ClientShape ==
  \A r \in Requests :
    /\ client[r] # Null => /\ arg[r].kind = "guest"
                           /\ pc[client[r]] = "done"
                           /\ OwnClient(r)
    /\ pc[r] = "update" => client[r] # Null
    /\ (arg[r].kind = "guest" /\ resp[r] = "ok") => client[r] # Null

IInv ==
  /\ TypeOK
  /\ ArgShape
  /\ KindShape
  /\ LiveShape
  /\ ClientShape
  /\ UniqueWithinTenant
  /\ DuplicateOnlyByRace

LEMMA InitInv == Init => IInv
<1> SUFFICES ASSUME Init PROVE IInv
  OBVIOUS
<1>1. TypeOK
  BY InitType
<1>2. Live = {}
  BY DEF Init, Live
<1>3. ArgShape /\ KindShape /\ DuplicateOnlyByRace
  BY DEF Init, ArgShape, KindShape, DuplicateOnlyByRace
<1>4. LiveShape /\ UniqueWithinTenant
  BY <1>2 DEF LiveShape, UniqueWithinTenant
<1>5. ClientShape
  BY DEF Init, ClientShape
<1> QED BY <1>1, <1>3, <1>4, <1>5 DEF IInv

\* The queries by which a request makes sure see the whole index.
LEMMA FreeWhenFound ==
  ASSUME IInv, NEW r \in Requests, pc[r] = "find", Taken(r) = {}
  PROVE  At(arg[r].tenant, arg[r].email) = {}
<1>1. CASE arg[r].kind = "create"
  BY <1>1 DEF Taken
<1>2. CASE arg[r].kind = "seed"
  <2>1. arg[r].tenant = NoTenant
    BY <1>2 DEF IInv, KindShape
  <2>2. \A u \in Live : users[u].tenant = NoTenant => users[u].role = "SUPER_ADMIN"
    BY DEF IInv, LiveShape
  <2> QED BY <1>2, <2>1, <2>2 DEF Taken, At
<1> QED BY <1>1, <1>2 DEF IInv, ArgShape

\* Every step leaves the requests in shape: the other requests are untouched,
\* and the one that moves satisfies what its new position asks for.
LEMMA StepArg == IInv /\ [Next]_vars => ArgShape' /\ KindShape'
<1> SUFFICES ASSUME IInv, [Next]_vars PROVE ArgShape' /\ KindShape'
  OBVIOUS
<1> USE DEF IInv, TypeOK, ArgShape, KindShape
<1>1. ASSUME NEW r \in Requests, NEW t \in Tenants, NEW e \in Email,
             NEW role \in Roles, Create(r, t, e, role)
      PROVE  ArgShape' /\ KindShape'
  BY <1>1 DEF Create, Ask, Goto, Reply, Argument
<1>2. ASSUME NEW r \in Requests, NEW e \in Email, Seed(r, e)
      PROVE  ArgShape' /\ KindShape'
  BY <1>2 DEF Seed, Ask, Goto, Reply, Argument
<1>3. ASSUME NEW r \in Requests, SeedFind(r)
      PROVE  ArgShape' /\ KindShape'
  BY <1>3 DEF SeedFind, Ask, Goto, Reply, Argument
<1>4. ASSUME NEW r \in Requests, Find(r)
      PROVE  ArgShape' /\ KindShape'
  <2>1. pc'[r] = "insert" => ~held'[r]
    <3>1. pc[r] = "find" /\ (Taken(r) = {} \/ pc'[r] = "done")
      BY <1>4 DEF Find, Goto, Reply
    <3>2. Taken(r) = {} => At(arg[r].tenant, arg[r].email) = {}
      BY <3>1, FreeWhenFound
    <3>3. held'[r] = (At(arg[r].tenant, arg[r].email) # {})
      BY <1>4 DEF Find
    <3> QED BY <3>1, <3>2, <3>3
  <2>2. KindShape'
    BY <1>4 DEF Find
  <2>3. /\ pc[r] = "find" /\ arg' = arg
        /\ \/ pc' = [pc EXCEPT ![r] = "done"]
           \/ pc' = [pc EXCEPT ![r] = "insert"] /\ resp' = resp
        /\ \A q \in Requests \ {r} : resp'[q] = resp[q] /\ held'[q] = held[q]
    BY <1>4 DEF Find, Goto, Reply
  <2>4. ArgShape'
    BY <2>1, <2>3
  <2> QED BY <2>2, <2>4
<1>5. ASSUME NEW r \in Requests, Insert(r)
      PROVE  ArgShape' /\ KindShape'
  BY <1>5 DEF Insert, Ask, Goto, Reply, Argument
<1>6. ASSUME NEW r \in Requests, NEW t \in Tenants, NEW e \in Email,
             Guest(r, t, e)
      PROVE  ArgShape' /\ KindShape'
  BY <1>6 DEF Guest, Ask, Goto, Reply, Argument
<1>7. ASSUME NEW r \in Requests, GuestFind(r)
      PROVE  ArgShape' /\ KindShape'
  <2>1. pc'[r] = "insert" => ~held'[r]
    BY <1>7 DEF GuestFind, Clients, Goto, Reply
  <2> QED BY <1>7, <2>1 DEF GuestFind, Goto, Reply, Argument
<1>8. ASSUME NEW r \in Requests, GuestUpdate(r)
      PROVE  ArgShape' /\ KindShape'
  BY <1>8 DEF GuestUpdate, Ask, Goto, Reply, Argument
<1>9. ASSUME NEW r \in Requests, NEW u \in Requests, NEW active \in BOOLEAN,
             Update(r, u, active)
      PROVE  ArgShape' /\ KindShape'
  BY <1>9 DEF Update, Ask, Goto, Reply, Argument
<1>10. ASSUME NEW r \in Requests, NEW u \in Requests, Remove(r, u)
      PROVE  ArgShape' /\ KindShape'
  BY <1>10 DEF Remove, Ask, Goto, Reply, Argument
<1>11. ASSUME NEW r \in Requests, NEW t \in Tenants, NEW e \in Email,
             Forgot(r, t, e)
      PROVE  ArgShape' /\ KindShape'
  BY <1>11 DEF Forgot, Ask, Goto, Reply, Argument
<1>12. ASSUME NEW r \in Requests, Fail(r)
      PROVE  ArgShape' /\ KindShape'
  BY <1>12 DEF Fail, Ask, Goto, Reply, Argument
<1>13. CASE UNCHANGED vars
  BY <1>13 DEF vars
<1> QED
  BY <1>1, <1>2, <1>3, <1>4, <1>5, <1>6, <1>7, <1>8, <1>9, <1>10, <1>11,
     <1>12, <1>13 DEF Next, Call, Step

\* A duplicate-key error comes from Insert, whose request had found its
\* address free; held is not written again.
LEMMA StepDuplicate == IInv /\ [Next]_vars => DuplicateOnlyByRace'
<1> SUFFICES ASSUME IInv, [Next]_vars PROVE DuplicateOnlyByRace'
  OBVIOUS
<1> USE DEF IInv, TypeOK, ArgShape, DuplicateOnlyByRace
<1>1. ASSUME NEW r \in Requests, NEW t \in Tenants, NEW e \in Email,
             NEW role \in Roles, Create(r, t, e, role)
      PROVE  DuplicateOnlyByRace'
  BY <1>1 DEF Create, Goto, Reply
<1>2. ASSUME NEW r \in Requests, NEW e \in Email, Seed(r, e)
      PROVE  DuplicateOnlyByRace'
  BY <1>2 DEF Seed, Goto, Reply
<1>3. ASSUME NEW r \in Requests, SeedFind(r)
      PROVE  DuplicateOnlyByRace'
  BY <1>3 DEF SeedFind, Goto, Reply
<1>4. ASSUME NEW r \in Requests, Find(r)
      PROVE  DuplicateOnlyByRace'
  BY <1>4 DEF Find, Goto, Reply
<1>5. ASSUME NEW r \in Requests, Insert(r)
      PROVE  DuplicateOnlyByRace'
  BY <1>5 DEF Insert, Goto, Reply
<1>6. ASSUME NEW r \in Requests, NEW t \in Tenants, NEW e \in Email,
             Guest(r, t, e)
      PROVE  DuplicateOnlyByRace'
  BY <1>6 DEF Guest, Goto, Reply
<1>7. ASSUME NEW r \in Requests, GuestFind(r)
      PROVE  DuplicateOnlyByRace'
  BY <1>7 DEF GuestFind, Goto, Reply
<1>8. ASSUME NEW r \in Requests, GuestUpdate(r)
      PROVE  DuplicateOnlyByRace'
  BY <1>8 DEF GuestUpdate, Goto, Reply
<1>9. ASSUME NEW r \in Requests, NEW u \in Requests, NEW active \in BOOLEAN,
             Update(r, u, active)
      PROVE  DuplicateOnlyByRace'
  BY <1>9 DEF Update, Goto, Reply
<1>10. ASSUME NEW r \in Requests, NEW u \in Requests, Remove(r, u)
      PROVE  DuplicateOnlyByRace'
  BY <1>10 DEF Remove, Goto, Reply
<1>11. ASSUME NEW r \in Requests, NEW t \in Tenants, NEW e \in Email,
             Forgot(r, t, e)
      PROVE  DuplicateOnlyByRace'
  BY <1>11 DEF Forgot, Goto, Reply
<1>12. ASSUME NEW r \in Requests, Fail(r)
      PROVE  DuplicateOnlyByRace'
  BY <1>12 DEF Fail, Goto, Reply
<1>13. CASE UNCHANGED vars
  BY <1>13 DEF vars
<1> QED
  BY <1>1, <1>2, <1>3, <1>4, <1>5, <1>6, <1>7, <1>8, <1>9, <1>10, <1>11,
     <1>12, <1>13 DEF Next, Call, Step


\* What a step may do to accounts short of making one.
KeptOrGone ==
  \A u \in Requests :
    users'[u] # Null =>
      /\ users[u] # Null
      /\ users'[u].tenant = users[u].tenant
      /\ users'[u].email = users[u].email
      /\ users'[u].role = users[u].role

\* Every step but a successful insert keeps the tenant, the address and the
\* role of the accounts it does not remove, and makes none.
LEMMA OnlyInsertMakes ==
  ASSUME IInv, [Next]_vars
  PROVE  KeptOrGone \/ \E r \in Requests : Insert(r)
<1> USE DEF IInv, TypeOK, KeptOrGone
<1>1. CASE UNCHANGED users
  BY <1>1
<1>2. ASSUME NEW r \in Requests, GuestUpdate(r) PROVE KeptOrGone
  <2> SUFFICES ASSUME NEW u \in Requests, users'[u] # Null
               PROVE  /\ users[u] # Null
                      /\ users'[u].tenant = users[u].tenant
                      /\ users'[u].email = users[u].email
                      /\ users'[u].role = users[u].role
    OBVIOUS
  <2>1. CASE u \in Target(r)
    <3>1. users[u] \in Account
      BY <2>1 DEF Target, Live
    <3>2. users'[u] = [users[u] EXCEPT !.by = r]
      BY <1>2, <2>1 DEF GuestUpdate
    <3> QED BY <3>1, <3>2, AccountsAssumption DEF Account
  <2>2. CASE u \notin Target(r)
    BY <1>2, <2>2 DEF GuestUpdate
  <2> QED BY <2>1, <2>2
<1>3. ASSUME NEW r \in Requests, NEW v \in Requests, NEW active \in BOOLEAN,
             Update(r, v, active)
      PROVE  KeptOrGone
  <2>1. CASE v \in Live
    <3>1. users[v] \in Account
      BY <2>1 DEF Live
    <3>2. users' = [users EXCEPT ![v] =
                      [users[v] EXCEPT !.isActive = active, !.by = r]]
      BY <1>3, <2>1 DEF Update
    <3> QED BY <3>1, <3>2, AccountsAssumption DEF Account
  <2>2. CASE v \notin Live
    BY <1>3, <2>2 DEF Update
  <2> QED BY <2>1, <2>2
<1>4. ASSUME NEW r \in Requests, NEW v \in Requests, Remove(r, v)
      PROVE  KeptOrGone
  BY <1>4 DEF Remove
<1>5. CASE \E r \in Requests : Insert(r)
  BY <1>5
<1>6. \/ UNCHANGED users
      \/ \E r \in Requests : Insert(r) \/ GuestUpdate(r)
      \/ \E r, v \in Requests :
           Remove(r, v) \/ \E active \in BOOLEAN : Update(r, v, active)
  BY DEF Next, Call, Step, vars, Create, Seed, SeedFind, Find, Guest,
         GuestFind, Forgot, Fail
<1> QED BY <1>1, <1>2, <1>3, <1>4, <1>5, <1>6

\* A finished request stays finished, and what was asked stays asked.
LEMMA DoneForGood ==
  ASSUME IInv, [Next]_vars, NEW q \in Requests, pc[q] # "idle"
  PROVE  (pc[q] = "done" => pc'[q] = "done") /\ arg'[q] = arg[q]
<1> USE DEF IInv, TypeOK, Goto, Reply, Ask
<1>1. ASSUME NEW r \in Requests, NEW t \in Tenants, NEW e \in Email,
             NEW role \in Roles, Create(r, t, e, role)
      PROVE  (pc[q] = "done" => pc'[q] = "done") /\ arg'[q] = arg[q]
  BY <1>1 DEF Create
<1>2. ASSUME NEW r \in Requests, NEW e \in Email, Seed(r, e)
      PROVE  (pc[q] = "done" => pc'[q] = "done") /\ arg'[q] = arg[q]
  BY <1>2 DEF Seed
<1>3. ASSUME NEW r \in Requests, SeedFind(r)
      PROVE  (pc[q] = "done" => pc'[q] = "done") /\ arg'[q] = arg[q]
  BY <1>3 DEF SeedFind
<1>4. ASSUME NEW r \in Requests, Find(r)
      PROVE  (pc[q] = "done" => pc'[q] = "done") /\ arg'[q] = arg[q]
  BY <1>4 DEF Find
<1>5. ASSUME NEW r \in Requests, Insert(r)
      PROVE  (pc[q] = "done" => pc'[q] = "done") /\ arg'[q] = arg[q]
  BY <1>5 DEF Insert
<1>6. ASSUME NEW r \in Requests, NEW t \in Tenants, NEW e \in Email,
             Guest(r, t, e)
      PROVE  (pc[q] = "done" => pc'[q] = "done") /\ arg'[q] = arg[q]
  BY <1>6 DEF Guest
<1>7. ASSUME NEW r \in Requests, GuestFind(r)
      PROVE  (pc[q] = "done" => pc'[q] = "done") /\ arg'[q] = arg[q]
  BY <1>7 DEF GuestFind
<1>8. ASSUME NEW r \in Requests, GuestUpdate(r)
      PROVE  (pc[q] = "done" => pc'[q] = "done") /\ arg'[q] = arg[q]
  BY <1>8 DEF GuestUpdate
<1>9. ASSUME NEW r \in Requests, NEW u \in Requests, NEW active \in BOOLEAN,
             Update(r, u, active)
      PROVE  (pc[q] = "done" => pc'[q] = "done") /\ arg'[q] = arg[q]
  BY <1>9 DEF Update
<1>10. ASSUME NEW r \in Requests, NEW u \in Requests, Remove(r, u)
      PROVE  (pc[q] = "done" => pc'[q] = "done") /\ arg'[q] = arg[q]
  BY <1>10 DEF Remove
<1>11. ASSUME NEW r \in Requests, NEW t \in Tenants, NEW e \in Email,
             Forgot(r, t, e)
      PROVE  (pc[q] = "done" => pc'[q] = "done") /\ arg'[q] = arg[q]
  BY <1>11 DEF Forgot
<1>12. ASSUME NEW r \in Requests, Fail(r)
      PROVE  (pc[q] = "done" => pc'[q] = "done") /\ arg'[q] = arg[q]
  BY <1>12 DEF Fail
<1>13. CASE UNCHANGED vars
  BY <1>13 DEF vars
<1> QED
  BY <1>1, <1>2, <1>3, <1>4, <1>5, <1>6, <1>7, <1>8, <1>9, <1>10, <1>11,
     <1>12, <1>13 DEF Next, Call, Step


\* What a successful insert does to the collection.
LEMMA InsertOne ==
  ASSUME IInv, NEW r \in Requests, Insert(r)
  PROVE  \/ UNCHANGED <<users, client>>
         \/ /\ users[r] = Null
            /\ At(arg[r].tenant, arg[r].email) = {}
            /\ \A u \in Requests \ {r} : users'[u] = users[u]
            /\ users'[r] # Null
            /\ users'[r].tenant = arg[r].tenant
            /\ users'[r].email = arg[r].email
            /\ users'[r].role = arg[r].role
            /\ client' = IF arg[r].kind = "guest"
                         THEN [client EXCEPT ![r] = r] ELSE client
<1> USE DEF IInv, TypeOK
<1> DEFINE new == [tenant |-> arg[r].tenant, email |-> arg[r].email,
                   role |-> arg[r].role, isActive |-> TRUE, by |-> r]
<1>1. CASE Index(arg[r].tenant, arg[r].email) # {}
  BY <1>1 DEF Insert
<1>2. CASE Index(arg[r].tenant, arg[r].email) = {}
  <2>1. users' = [users EXCEPT ![r] = new]
    BY <1>2 DEF Insert
  <2>2. client' = IF arg[r].kind = "guest"
                  THEN [client EXCEPT ![r] = r] ELSE client
    BY <1>2 DEF Insert
  <2>3. users[r] = Null
    BY DEF Insert, LiveShape, Live
  <2>4. new # Null
    <3>1. new \in Account
      BY DEF Argument, Account
    <3> QED BY <3>1, AccountsAssumption
  <2> QED BY <1>2, <2>1, <2>2, <2>3, <2>4 DEF Index
<1> QED BY <1>1, <1>2

LEMMA StepLive == IInv /\ [Next]_vars => LiveShape' /\ UniqueWithinTenant'
<1> SUFFICES ASSUME IInv, [Next]_vars
             PROVE  LiveShape' /\ UniqueWithinTenant'
  OBVIOUS
<1> USE DEF IInv, TypeOK, LiveShape, UniqueWithinTenant, Live
<1>1. CASE KeptOrGone
  BY <1>1, DoneForGood DEF KeptOrGone
<1>2. ASSUME NEW r \in Requests, Insert(r)
      PROVE  LiveShape' /\ UniqueWithinTenant'
  <2>1. pc'[r] = "done"
    BY <1>2 DEF Insert, Reply, Goto
  <2>2. CASE UNCHANGED <<users, client>>
    BY <2>2, DoneForGood
  <2>3. CASE /\ users[r] = Null
             /\ At(arg[r].tenant, arg[r].email) = {}
             /\ \A u \in Requests \ {r} : users'[u] = users[u]
             /\ users'[r].tenant = arg[r].tenant
             /\ users'[r].email = arg[r].email
             /\ users'[r].role = arg[r].role
    <3>1. \A u \in Requests \ {r} :
            users[u] # Null => \/ users[u].tenant # arg[r].tenant
                               \/ users[u].email # arg[r].email
      BY <2>3 DEF At
    <3>2. UniqueWithinTenant'
      BY <2>3, <3>1
    <3>3. arg[r].tenant = NoTenant => arg[r].role = "SUPER_ADMIN"
      BY <1>2, AccountsAssumption DEF Insert, ArgShape, KindShape
    <3>4. \A u \in Live' \ {r} : u \in Live
      BY <2>3
    <3>5. LiveShape'
      BY <2>1, <2>3, <3>3, <3>4, DoneForGood
    <3> QED BY <3>2, <3>5
  <2> QED BY <1>2, <2>2, <2>3, InsertOne
<1> QED BY <1>1, <1>2, OnlyInsertMakes

\* What is true of the account a guest holds on to survives the steps of
\* everybody else: nobody inserts it again.
LEMMA HeldClientStays ==
  ASSUME IInv, [Next]_vars, NEW q \in Requests,
         client[q] # Null, client'[q] = client[q]
  PROVE  arg'[q] = arg[q] /\ pc'[client[q]] = "done" /\ OwnClient(q)'
<1> USE DEF IInv, TypeOK, ClientShape
<1>1. client[q] \in Requests /\ pc[client[q]] = "done" /\ OwnClient(q)
  OBVIOUS
<1>2. pc'[client[q]] = "done"
  BY <1>1, DoneForGood
<1>3. pc[q] # "idle"
  BY DEF ArgShape
<1>4. arg'[q] = arg[q]
  BY <1>3, DoneForGood
<1>5. ASSUME KeptOrGone PROVE OwnClient(q)'
  <2> DEFINE c == client[q]
  <2>1. users'[c] # Null =>
          /\ users[c] # Null
          /\ users'[c].tenant = users[c].tenant
          /\ users'[c].email = users[c].email
          /\ users'[c].role = users[c].role
    BY <1>1, <1>5 DEF KeptOrGone
  <2>2. users'[c] # Null => /\ users'[c].role = "CLIENT"
                            /\ users'[c].tenant = arg[q].tenant
                            /\ users'[c].email = arg[q].email
    BY <1>1, <2>1 DEF OwnClient, Live
  <2>3. c \in Live' => users'[c] # Null
    BY DEF Live
  <2>4. client'[q] = c
    OBVIOUS
  <2> HIDE DEF c
  <2> QED BY <1>4, <2>2, <2>3, <2>4 DEF OwnClient
<1>6. ASSUME NEW r \in Requests, Insert(r) PROVE OwnClient(q)'
  <2>1. r # client[q]
    BY <1>1, <1>6 DEF Insert
  <2>2. users'[client[q]] = users[client[q]]
    BY <1>1, <1>6, <2>1, InsertOne
  <2> QED BY <1>1, <1>4, <2>2 DEF OwnClient, Live
<1> QED BY <1>2, <1>4, <1>5, <1>6, OnlyInsertMakes

\* client is written by the two steps that find or make a client.
LEMMA NewClient ==
  ASSUME IInv, [Next]_vars, NEW q \in Requests,
         client'[q] # client[q]
  PROVE  /\ arg'[q].kind = "guest"
         /\ client'[q] \in Requests
         /\ pc'[client'[q]] = "done"
         /\ OwnClient(q)'
<1> USE DEF IInv, TypeOK
<1>1. CASE Insert(q)
  <2>1. /\ arg[q].kind = "guest"
        /\ client'[q] = q
        /\ users'[q].tenant = arg[q].tenant
        /\ users'[q].email = arg[q].email
        /\ users'[q].role = arg[q].role
    BY <1>1, InsertOne
  <2>2. arg' = arg /\ pc'[q] = "done"
    BY <1>1 DEF Insert, Reply, Goto
  <2>3. arg[q].role = "CLIENT"
    BY <2>1 DEF KindShape
  <2> QED BY <2>1, <2>2, <2>3 DEF OwnClient
<1>2. CASE GuestFind(q)
  <2>1. PICK u \in At(arg[q].tenant, arg[q].email) :
          users[u].role = "CLIENT" /\ client'[q] = u
    BY <1>2 DEF GuestFind, Clients, IsClient
  <2>2. u \in Live /\ users[u].tenant = arg[q].tenant
                   /\ users[u].email = arg[q].email
    BY <2>1 DEF At
  <2>3. arg' = arg /\ users' = users
    BY <1>2 DEF GuestFind
  <2>4. pc'[u] = "done"
    BY <2>2, DoneForGood DEF LiveShape, Live
  <2>5. arg[q].kind = "guest"
    BY <1>2 DEF GuestFind, ArgShape
  <2> QED BY <2>1, <2>2, <2>3, <2>4, <2>5 DEF OwnClient, Live
<1>3. UNCHANGED client \/ \E r \in Requests : Insert(r) \/ GuestFind(r)
  <2>1. CASE UNCHANGED vars
    BY <2>1 DEF vars
  <2>2. ASSUME NEW r \in Requests, Call(r) PROVE UNCHANGED client
    BY <2>2 DEF Call, Create, Seed, Guest, Forgot, Remove, Update
  <2>3. ASSUME NEW r \in Requests, Step(r)
        PROVE  UNCHANGED client \/ Insert(r) \/ GuestFind(r)
    BY <2>3 DEF Step, SeedFind, Find, GuestUpdate, Fail
  <2> QED
    BY <2>1, <2>2, <2>3 DEF Next
<1>4. ASSUME NEW r \in Requests, Insert(r), r # q PROVE FALSE
  BY <1>4, InsertOne
<1>5. ASSUME NEW r \in Requests, GuestFind(r), r # q PROVE FALSE
  BY <1>5 DEF GuestFind
<1> QED BY <1>1, <1>2, <1>3, <1>4, <1>5

\* A guest goes on to the update, or is served, with an account in hand.
LEMMA InHand ==
  ASSUME IInv, [Next]_vars, NEW q \in Requests
  PROVE  /\ pc'[q] = "update" => client'[q] # Null
         /\ (arg'[q].kind = "guest" /\ resp'[q] = "ok") => client'[q] # Null
<1> USE DEF IInv, TypeOK, ArgShape, ClientShape, Goto, Reply, Ask
<1> DEFINE Goal == /\ pc'[q] = "update" => client'[q] # Null
                   /\ (arg'[q].kind = "guest" /\ resp'[q] = "ok")
                        => client'[q] # Null
<1>1. ASSUME NEW r \in Requests, NEW t \in Tenants, NEW e \in Email,
             NEW role \in Roles, Create(r, t, e, role)
      PROVE  Goal
  BY <1>1 DEF Create
<1>2. ASSUME NEW r \in Requests, NEW e \in Email, Seed(r, e)
      PROVE  Goal
  BY <1>2 DEF Seed
<1>3. ASSUME NEW r \in Requests, SeedFind(r)
      PROVE  Goal
  BY <1>3 DEF SeedFind
<1>4. ASSUME NEW r \in Requests, Find(r)
      PROVE  Goal
  BY <1>4 DEF Find
<1>5. ASSUME NEW r \in Requests, Insert(r)
      PROVE  Goal
  <2>1. Null \notin Requests
    BY AccountsAssumption
  <2> QED BY <1>5, <2>1 DEF Insert
<1>6. ASSUME NEW r \in Requests, NEW t \in Tenants, NEW e \in Email,
             Guest(r, t, e)
      PROVE  Goal
  BY <1>6 DEF Guest
<1>7. ASSUME NEW r \in Requests, GuestFind(r)
      PROVE  Goal
  <2>1. \A u \in Clients(arg[r].tenant, arg[r].email) : u # Null
    BY AccountsAssumption DEF Clients, At, Live
  <2> QED BY <1>7, <2>1 DEF GuestFind
<1>8. ASSUME NEW r \in Requests, GuestUpdate(r)
      PROVE  Goal
  BY <1>8 DEF GuestUpdate
<1>9. ASSUME NEW r \in Requests, NEW u \in Requests, NEW active \in BOOLEAN,
             Update(r, u, active)
      PROVE  Goal
  BY <1>9 DEF Update
<1>10. ASSUME NEW r \in Requests, NEW u \in Requests, Remove(r, u)
      PROVE  Goal
  BY <1>10 DEF Remove
<1>11. ASSUME NEW r \in Requests, NEW t \in Tenants, NEW e \in Email,
             Forgot(r, t, e)
      PROVE  Goal
  BY <1>11 DEF Forgot
<1>12. ASSUME NEW r \in Requests, Fail(r)
      PROVE  Goal
  BY <1>12 DEF Fail
<1>13. CASE UNCHANGED vars
  BY <1>13 DEF vars
<1> QED
  BY <1>1, <1>2, <1>3, <1>4, <1>5, <1>6, <1>7, <1>8, <1>9, <1>10, <1>11,
     <1>12, <1>13 DEF Next, Call, Step

LEMMA StepClient == IInv /\ [Next]_vars => ClientShape'
<1> SUFFICES ASSUME IInv, [Next]_vars, NEW q \in Requests
             PROVE  client'[q] # Null => /\ arg'[q].kind = "guest"
                                         /\ pc'[client'[q]] = "done"
                                         /\ OwnClient(q)'
  BY InHand DEF ClientShape, OwnClient
<1>1. CASE client'[q] = client[q]
  BY <1>1, HeldClientStays DEF IInv, ClientShape
<1>2. CASE client'[q] # client[q]
  BY <1>2, NewClient
<1> QED BY <1>1, <1>2

LEMMA StepInv == IInv /\ [Next]_vars => IInv'
  BY StepType, StepArg, StepDuplicate, StepLive, StepClient DEF IInv

LEMMA InvariantHolds == Spec => []IInv
  BY InitInv, StepInv, PTL DEF Spec

\* No two accounts of one tenant have the same address, whatever races.
THEOREM AddressesUnique == Spec => []UniqueWithinTenant
<1>1. IInv => UniqueWithinTenant
  BY DEF IInv
<1> QED BY <1>1, InvariantHolds, PTL

\* The duplicate-key error reaches only requests that lost a race.
THEOREM DuplicatesAreRaces == Spec => []DuplicateOnlyByRace
<1>1. IInv => DuplicateOnlyByRace
  BY DEF IInv
<1> QED BY <1>1, InvariantHolds, PTL

\* A public booking is never served on an account that is not the guest's own.
THEOREM GuestsServed == Spec => []ServedOnOwnAccount
<1>1. IInv => ServedOnOwnAccount
  BY DEF IInv, ClientShape, OwnClient, ServedOnOwnAccount
<1> QED BY <1>1, InvariantHolds, PTL

\* A guest's late write meets the account of a client with the guest's own
\* address, or nothing.
THEOREM GuestsWriteClients == Spec => GuestsWriteOnlyClients
<1> DEFINE Own(r, u) == /\ users[u] # Null
                        /\ users[u].role = "CLIENT"
                        /\ users[u].tenant = arg[r].tenant
                        /\ users[u].email = arg[r].email
           Write == \A r, u \in Requests :
              (pc[r] = "update" /\ pc'[r] = "done" /\ users'[u] # users[u])
                => Own(r, u)
<1>1. IInv /\ [Next]_vars => [Write]_vars
  <2> SUFFICES ASSUME IInv, Next, NEW r \in Requests, NEW u \in Requests,
                      pc[r] = "update", pc'[r] = "done", users'[u] # users[u]
               PROVE  Own(r, u)
    OBVIOUS
  <2> USE DEF IInv, TypeOK
  <2>1. ASSUME NEW q \in Requests, GuestUpdate(q) PROVE Own(r, u)
    <3>1. u \in Target(q) /\ q = r
      BY <2>1 DEF GuestUpdate, Reply, Goto
    <3>2. u \in Live /\ client[r] = u /\ client[r] # Null
      BY <3>1, AccountsAssumption DEF Target
    <3> QED BY <3>2 DEF ClientShape, OwnClient, Live
\* Every other write to an account is made by a request that is elsewhere, and
\* moves that request alone.
  <2>2. ASSUME NEW q \in Requests, Insert(q) PROVE FALSE
    BY <2>2 DEF Insert, Reply, Goto
  <2>3. ASSUME NEW q \in Requests, NEW v \in Requests,
               Remove(q, v) \/ \E active \in BOOLEAN : Update(q, v, active)
        PROVE  FALSE
    BY <2>3 DEF Update, Remove, Reply, Goto
  <2>4. \/ \E q \in Requests : Insert(q) \/ GuestUpdate(q)
        \/ \E q, v \in Requests :
             Remove(q, v) \/ \E active \in BOOLEAN : Update(q, v, active)
    BY DEF Next, Call, Step, Create, Seed, SeedFind, Find, Guest, GuestFind,
           Forgot, Fail
  <2> QED BY <2>1, <2>2, <2>3, <2>4
<1> QED
  BY <1>1, InvariantHolds, PTL DEF Spec, GuestsWriteOnlyClients

----------------------------------------------------------------------------
(* Accounts implements Directory.  A step of a request either leaves the    *)
(* directory alone, and is a stutter until the request is through, or makes *)
(* its one change as the request ends.                                      *)

Entry(u) == [id |-> u, tenant |-> users[u].tenant, email |-> users[u].email,
             role |-> users[u].role]

Served == {r \in Requests : pc[r] = "done"}

LEMMA ListedEntries == Listed = {Entry(u) : u \in Live}
  BY DEF Listed, Entry

LEMMA SameAccounts ==
  ASSUME TypeOK,
         \A u \in Requests :
           /\ users'[u] = Null <=> users[u] = Null
           /\ users[u] # Null => /\ users'[u].tenant = users[u].tenant
                                /\ users'[u].email = users[u].email
                                /\ users'[u].role = users[u].role
  PROVE  Listed' = Listed
<1>1. Live' = Live
  BY DEF Live
<1>2. \A u \in Live : Entry(u)' = Entry(u)
  BY DEF Entry, Live
<1>3. Listed' = {Entry(u)' : u \in Live'}
  BY DEF Listed, Entry
<1> QED BY <1>1, <1>2, <1>3, ListedEntries

LEMMA Through ==
  ASSUME TypeOK, NEW r \in Requests, pc[r] # "done", NEW x, Goto(r, x)
  PROVE  /\ x # "done" => Served' = Served
         /\ x = "done" => r \notin Served /\ Served' = Served \cup {r}
  BY DEF TypeOK, Goto, Served

\* A step that leaves the directory alone.
LEMMA QuietStep ==
  ASSUME TypeOK, NEW r \in Requests, pc[r] # "done", NEW x, Goto(r, x),
         Listed' = Listed
  PROVE  Register!Answer(r) \/ UNCHANGED <<Listed, Served>>
<1>1. CASE x # "done"
  BY <1>1, Through
<1>2. CASE x = "done"
  BY <1>2, Through DEF Register!Answer, Register!Serve, Served
<1> QED BY <1>1, <1>2

LEMMA InsertOpens ==
  ASSUME IInv, NEW r \in Requests, Insert(r)
  PROVE  Register!Open(r) \/ Register!Answer(r)
<1> USE DEF IInv
<1>1. pc[r] # "done" /\ Goto(r, "done")
  BY DEF Insert, Reply
<1>2. r \notin Served /\ Served' = Served \cup {r}
  BY <1>1, Through
<1>3. CASE UNCHANGED users
  <2>1. Listed' = Listed
    BY <1>3, SameAccounts
  <2> QED BY <1>2, <2>1 DEF Register!Answer, Register!Serve, Served
<1>4. CASE /\ users[r] = Null
           /\ At(arg[r].tenant, arg[r].email) = {}
           /\ \A u \in Requests \ {r} : users'[u] = users[u]
           /\ users'[r] # Null
           /\ users'[r].tenant = arg[r].tenant
           /\ users'[r].email = arg[r].email
           /\ users'[r].role = arg[r].role
  <2> DEFINE t == arg[r].tenant
             e == arg[r].email
             role == arg[r].role
  <2>1. t \in Tenants \cup {NoTenant} /\ e \in Email /\ role \in Roles
    BY DEF TypeOK, Argument
  <2>2. Register!Vacant(t, e)
    <3> SUFFICES ASSUME NEW u \in Live PROVE Entry(u).tenant # t \/ Entry(u).email # e
      BY ListedEntries DEF Register!Vacant
    <3> QED BY <1>4 DEF Entry, At
  <2>3. t = NoTenant => role = "SUPER_ADMIN"
    BY AccountsAssumption DEF Insert, ArgShape, KindShape
  <2>4. Listed' = Listed \cup {[id |-> r, tenant |-> t, email |-> e, role |-> role]}
    <3>1. Live' = Live \cup {r}
      BY <1>4 DEF Live
    <3>2. \A u \in Live : Entry(u)' = Entry(u)
      BY <1>4 DEF Entry, Live
    <3>3. Entry(r)' = [id |-> r, tenant |-> t, email |-> e, role |-> role]
      BY <1>4 DEF Entry
    <3>4. Listed' = {Entry(u)' : u \in Live'}
      BY DEF Listed, Entry
    <3>5. Listed' = {Entry(u)' : u \in Live} \cup {Entry(r)'}
      BY <3>1, <3>4
    <3>6. {Entry(u)' : u \in Live} = {Entry(u) : u \in Live}
      BY <3>2
    <3> QED BY <3>3, <3>5, <3>6, ListedEntries
  <2> HIDE DEF t, e, role
  <2> QED
    BY <1>2, <2>1, <2>2, <2>3, <2>4 DEF Register!Open, Register!Serve, Served
<1> QED BY <1>3, <1>4, InsertOne

LEMMA RemoveCloses ==
  ASSUME IInv, NEW r \in Requests, NEW u \in Requests, Remove(r, u)
  PROVE  Register!Close(r) \/ Register!Answer(r)
<1> USE DEF IInv
<1>1. pc[r] # "done" /\ Goto(r, "done")
  BY DEF Remove, Reply
<1>2. r \notin Served /\ Served' = Served \cup {r}
  BY <1>1, Through
<1>3. CASE u \notin Live
  <2>1. Listed' = Listed
    BY <1>3, SameAccounts DEF Remove
  <2> QED BY <1>2, <2>1 DEF Register!Answer, Register!Serve, Served
<1>4. CASE u \in Live
  <2>1. users' = [users EXCEPT ![u] = Null]
    BY <1>4 DEF Remove
  <2>2. Live' = Live \ {u}
    BY <2>1 DEF Live, TypeOK
  <2>3. \A v \in Live' : Entry(v)' = Entry(v)
    BY <2>1, <2>2 DEF Entry, Live, TypeOK
  <2>4. Listed' = {Entry(v)' : v \in Live'}
    BY DEF Listed, Entry
  <2>5. \A v \in Live : Entry(v) = Entry(u) => v = u
    BY DEF Entry
  <2>6. Listed' = {Entry(v) : v \in Live \ {u}}
    BY <2>2, <2>3, <2>4
  <2>7. Listed' = Listed \ {Entry(u)} /\ Entry(u) \in Listed
    BY <1>4, <2>5, <2>6, ListedEntries
  <2> QED BY <1>2, <2>7 DEF Register!Close, Register!Serve, Served
<1> QED BY <1>3, <1>4

\* The two writes that change accounts leave their entries as they are.
LEMMA WritesStay ==
  ASSUME IInv, NEW r \in Requests,
         \/ GuestUpdate(r)
         \/ \E u \in Requests, active \in BOOLEAN : Update(r, u, active)
  PROVE  Listed' = Listed
<1> USE DEF IInv, TypeOK
<1>1. CASE GuestUpdate(r)
  <2>1. \A u \in Requests :
          users'[u] = IF u \in Target(r) THEN [users[u] EXCEPT !.by = r] ELSE users[u]
    BY <1>1 DEF GuestUpdate
  <2>2. \A u \in Target(r) : users[u] \in Account
    BY DEF Target, Live
  <2>3. ASSUME NEW u \in Requests
        PROVE  /\ users'[u] = Null <=> users[u] = Null
               /\ users[u] # Null => /\ users'[u].tenant = users[u].tenant
                                    /\ users'[u].email = users[u].email
                                    /\ users'[u].role = users[u].role
    <3>1. CASE u \notin Target(r)
      BY <2>1, <3>1
    <3>2. CASE u \in Target(r)
      <4>1. users'[u] = [users[u] EXCEPT !.by = r] /\ users[u] \in Account
        BY <2>1, <2>2, <3>2
      <4>2. /\ users'[u] \in Account
            /\ users'[u].tenant = users[u].tenant
            /\ users'[u].email = users[u].email
            /\ users'[u].role = users[u].role
        <5> DEFINE v == users[u]
        <5>1. v \in Account /\ users'[u] = [v EXCEPT !.by = r]
          BY <4>1
        <5> HIDE DEF v
        <5>2. /\ users'[u] \in Account /\ users'[u].tenant = v.tenant
              /\ users'[u].email = v.email /\ users'[u].role = v.role
          BY <5>1 DEF Account
        <5> QED BY <5>2 DEF v
      <4>3. users'[u] # Null /\ users[u] # Null
        BY <4>1, <4>2, AccountsAssumption
      <4> QED BY <4>2, <4>3
    <3> QED BY <3>1, <3>2
  <2> QED BY <2>3, SameAccounts
<1>2. ASSUME NEW u \in Requests, NEW active \in BOOLEAN, Update(r, u, active)
      PROVE  Listed' = Listed
  <2>1. CASE u \notin Live
    BY <1>2, <2>1, SameAccounts DEF Update
  <2>2. CASE u \in Live
    <3>1. users[u] \in Account
      BY <2>2 DEF Live
    <3>2. users' = [users EXCEPT ![u] = [users[u] EXCEPT !.isActive = active, !.by = r]]
      BY <1>2, <2>2 DEF Update
    <3>3. [users[u] EXCEPT !.isActive = active, !.by = r] \in Account
      BY <3>1 DEF Account
    <3> QED BY <3>1, <3>2, <3>3, AccountsAssumption, SameAccounts DEF Account
  <2> QED BY <2>1, <2>2
<1> QED BY <1>1, <1>2

LEMMA RegisterInit == Init => Register!Init
<1> SUFFICES ASSUME Init PROVE Register!Init
  OBVIOUS
<1>1. Live = {} /\ Served = {}
  BY DEF Init, Live, Served
<1> QED BY <1>1 DEF Register!Init, Listed, Served

LEMMA RegisterStep == IInv /\ [Next]_vars => [Register!Next]_<<Listed, Served>>
<1> SUFFICES ASSUME IInv, [Next]_vars
             PROVE  Register!Next \/ UNCHANGED <<Listed, Served>>
  OBVIOUS
<1>1. CASE UNCHANGED vars
  BY <1>1 DEF vars, Listed, Live, Served
<1>2. ASSUME NEW r \in Requests, Call(r) \/ Step(r)
      PROVE  Register!Next \/ UNCHANGED <<Listed, Served>>
  <2>1. CASE Insert(r)
    BY <2>1, InsertOpens DEF Register!Next
  <2>2. ASSUME NEW u \in Requests, Remove(r, u) PROVE Register!Next
    BY <2>2, RemoveCloses DEF Register!Next
  <2>3. CASE \/ SeedFind(r) \/ Find(r) \/ GuestFind(r) \/ GuestUpdate(r) \/ Fail(r)
             \/ \E e \in Email :
                  \/ Seed(r, e)
                  \/ \E t \in Tenants :
                       \/ \E role \in Roles : Create(r, t, e, role)
                       \/ Guest(r, t, e) \/ Forgot(r, t, e)
             \/ \E u \in Requests, active \in BOOLEAN : Update(r, u, active)
    <3>1. pc[r] # "done" /\ \E x : Goto(r, x)
      BY <2>3 DEF SeedFind, Find, GuestFind, GuestUpdate, Fail, Seed, Create, Guest,
                  Forgot, Update, Reply
    <3>2. Listed' = Listed
      <4>1. \/ UNCHANGED users
            \/ GuestUpdate(r)
            \/ \E u \in Requests, active \in BOOLEAN : Update(r, u, active)
        BY <2>3 DEF SeedFind, Find, GuestFind, Fail, Seed, Create, Guest, Forgot
      <4>2. CASE UNCHANGED users
        BY <4>2, SameAccounts DEF IInv
      <4> QED BY <4>1, <4>2, WritesStay
    <3> QED BY <3>1, <3>2, QuietStep DEF IInv, Register!Next
  <2> QED BY <1>2, <2>1, <2>2, <2>3 DEF Call, Step
<1> QED BY <1>1, <1>2 DEF Next

\* However the requests race, the accounts behave as the directory that
\* Directory describes.
THEOREM ImplementsDirectory == Spec => DirectorySpec
<1>1. Init => Register!Init
  BY RegisterInit
<1>2. IInv /\ [Next]_vars
        => [Register!Next]_<<Listed, {r \in Requests : pc[r] = "done"}>>
  BY RegisterStep DEF Served
<1> QED
  BY <1>1, <1>2, InvariantHolds, PTL DEF Spec, DirectorySpec, Register!Spec
=============================================================================
