--------------------------- MODULE TenantsProofs ---------------------------
(* Proofs about Tenants, for any number of requests and any bound on the     *)
(* changes of the instance.                                                  *)
EXTENDS Tenants, TLAPS

Steps == {"idle", "configure", "hook", "get", "write", "call", "clear", "post",
          "replace", "done"}

Event == [state: Raw, found: BOOLEAN]

Present == instance # "absent"

\* Uploads do not meet the others: they write another part of the document.
Busy == {r \in Requests : pc[r] \notin {"idle", "done", "replace"}}

AtMostOne == \A x, y \in Busy : x = y

\* Between createInstance's call and its write, and between deleteInstance's,
\* the name follows what Evolution was made to do.
NamesFollow ==
  matched =>
    /\ AtMostOne
    /\ \A r \in Busy : /\ pc[r] = "configure" => Present
                       /\ pc[r] = "clear" => ~Present
    /\ (\A r \in Busy : pc[r] \notin {"configure", "clear"}) => (named <=> Present)

\* While waStatus is trusted, what it lacks is in the webhook under way, and what
\* a poll was told is the truth.
StatusTrusted ==
  trusted =>
    /\ AtMostOne
    /\ \/ events = {}
       \/ /\ Busy = {} /\ named
          /\ \E e \in Event : events = {e} /\ e.state = instance
    /\ \A r \in Busy : pc[r] = "write" => got[r] = StatusOf(instance)
    /\ events = {} /\ named /\ (\A r \in Busy : pc[r] # "clear") =>
         waStatus = StatusOf(instance)

\* A request that nobody interfered with works on what it found.
CalmKnows ==
  \A r \in calm \cap Busy :
    /\ events = {}
    /\ \A x \in Busy : x = r
    /\ pc[r] = "configure" => Present
    /\ pc[r] = "clear" => ~Present
    /\ pc[r] \in {"get", "write"} => seen[r] = waStatus
    /\ pc[r] = "write" => got[r] = StatusOf(instance)

\* What an upload stores is one of the two images.
Uploading ==
  \A r \in Requests : pc[r] = "replace" => op[r] \in {"logo", "background"}

TypeInv == TypeOK /\ Uploading

----------------------------------------------------------------------------
(* Types.                                                                    *)

LEMMA MapType == \A state \in Raw \cup {"absent"} :
  /\ mapEvolutionState(state) \in WaStatus
  /\ mapEvolutionState(state) = StatusOf(state)
  BY DEF mapEvolutionState, StatusOf, Raw, WaStatus

LEMMA RequestType ==
  ASSUME TypeInv, NEW r \in Requests, Request(r)
  PROVE  TypeInv'
<1> USE DEF TypeInv, TypeOK, Uploading, Goto, Reply, local, document, evolution,
            SetPaths, Start
<1>1. CASE CreatePost(r)
  BY <1>1 DEF CreatePost, Made, Raw
<1>2. CASE CreateConfigure(r) \/ CreateHook(r)
  BY <1>2 DEF CreateConfigure, CreateHook, WaStatus
<1>3. CASE Skip(r)
  BY <1>3 DEF Skip
<1>4. CASE ReadTenant(r)
  BY <1>4 DEF ReadTenant
<1>5. CASE StatusGet(r)
  BY <1>5, MapType DEF StatusGet
<1>6. CASE StatusWrite(r)
  <2>1. trusted' \in BOOLEAN
    BY <1>6 DEF StatusWrite
  <2>2. /\ waStatus' \in WaStatus /\ named' = named
        /\ UNCHANGED <<meta, profile, instance, hooked, events, changes, op,
                       seen, got, matched>>
        /\ calm' \subseteq calm
        /\ pc' = [pc EXCEPT ![r] = "done"]
        /\ \E answer \in {"ok", "guessed"} : resp' = [resp EXCEPT ![r] = answer]
    BY <1>6 DEF StatusWrite
  <2> QED BY <2>1, <2>2
<1>7. CASE DeleteCall(r) \/ DeleteClear(r)
  BY <1>7 DEF DeleteCall, DeleteClear, WaStatus
<1>8. CASE SendPost(r)
  BY <1>8 DEF SendPost
<1>9. CASE UpdateSettings(r) \/ UpdateProfile(r)
  BY <1>9 DEF UpdateSettings, UpdateProfile, WaStatus
<1>10. CASE Upload(r)
  BY <1>10 DEF Upload
<1>11. CASE StoreImage(r)
  BY <1>11 DEF StoreImage, Fields
<1>12. CASE WriteFails(r)
  BY <1>12 DEF WriteFails
<1> QED
  BY <1>1, <1>2, <1>3, <1>4, <1>5, <1>6, <1>7, <1>8, <1>9, <1>10, <1>11, <1>12
     DEF Request

LEMMA ChangeType ==
  ASSUME TypeInv, InstanceChanges
  PROVE  TypeInv'
<1>0. TypeOK /\ Uploading
  BY DEF TypeInv
<1>a. changes' \in 0..MaxChanges
  BY <1>0, TenantsAssumption DEF InstanceChanges, TypeOK
<1>b. trusted' \in BOOLEAN
  BY DEF InstanceChanges
<1>1. /\ instance' \in Raw /\ calm' = {}
      /\ UNCHANGED <<named, waStatus, meta, profile, hooked, pc, op, seen, got,
                     resp, matched>>
  BY DEF InstanceChanges, document, local
<1>2. events' \subseteq Event
  <2>1. [state |-> instance', found |-> FALSE] \in Event
    BY <1>1 DEF Event
  <2>2. events \subseteq Event
    BY <1>0 DEF TypeOK, Event
  <2> QED BY <2>1, <2>2 DEF InstanceChanges
<1> QED BY <1>0, <1>a, <1>b, <1>1, <1>2 DEF TypeInv, TypeOK, Uploading, Event

LEMMA WebhookType ==
  ASSUME TypeInv, NEW e \in events, Webhook(e)
  PROVE  TypeInv'
<1>0. e \in Event /\ events \subseteq Event
  BY DEF TypeInv, TypeOK, Event
<1>1. [e EXCEPT !.found = TRUE] \in Event /\ e.state \in Raw
  BY <1>0 DEF Event
<1>2. events' \subseteq Event
  BY <1>0, <1>1 DEF Webhook, WebhookFind, WebhookWrite, WebhookLost
<1>3. waStatus' \in WaStatus
  BY <1>1, MapType DEF Webhook, WebhookFind, WebhookWrite, WebhookLost, SetPaths,
     TypeInv, TypeOK, document
<1>4. trusted' \in BOOLEAN
  BY DEF Webhook, WebhookFind, WebhookWrite, WebhookLost, TypeInv, TypeOK
<1>5. calm' = calm \/ calm' = {}
  BY DEF Webhook, WebhookFind, WebhookWrite, WebhookLost
<1>6. UNCHANGED <<named, meta, profile, instance, hooked, changes, pc, op, seen,
                  got, resp, matched>>
  BY DEF Webhook, WebhookFind, WebhookWrite, WebhookLost, SetPaths, document,
     local
<1> QED
  BY <1>2, <1>3, <1>4, <1>5, <1>6 DEF TypeInv, TypeOK, Uploading, Event

LEMMA InitType == Init => TypeInv
<1> SUFFICES ASSUME Init PROVE TypeInv
  OBVIOUS
<1>1. op \in [Requests -> AllOps]
  BY TenantsAssumption DEF Init
<1>2. /\ named \in BOOLEAN /\ meta \in BOOLEAN /\ hooked \in BOOLEAN
      /\ trusted \in BOOLEAN /\ matched \in BOOLEAN
  BY DEF Init
<1>3. changes \in 0..MaxChanges
  BY TenantsAssumption DEF Init
<1> QED
  BY <1>1, <1>2, <1>3 DEF Init, TypeInv, TypeOK, Uploading, WaStatus

LEMMA StepType == TypeInv /\ [Next]_vars => TypeInv'
<1>1. ASSUME TypeInv, UNCHANGED vars PROVE TypeInv'
  BY <1>1 DEF vars, document, evolution, local, TypeInv, TypeOK, Uploading
<1> QED BY <1>1, RequestType, ChangeType, WebhookType DEF Next

\* The tenant's document and what WhatsappService knows of Evolution have their
\* types, whoever writes it in between.
THEOREM TypeCorrect == Spec => []TypeOK
<1>1. TypeInv => TypeOK
  BY DEF TypeInv
<1> QED BY <1>1, InitType, StepType, PTL DEF Spec

\* Settings and profile change only when a request of their own forms is done:
\* no poll, webhook, create or delete of WhatsappService, and nothing Evolution
\* does, takes them from the tenant's document.
THEOREM FormsKeepTheirFieldsHolds == Spec => FormsKeepTheirFields
<1> DEFINE Mine == meta' # meta \/ profile' # profile =>
             \E r \in Requests :
               /\ op[r] \in {"settings", "profile", "logo", "background"}
               /\ pc[r] # "done" /\ pc'[r] = "done"
<1>1. ASSUME TypeInv, NEW r \in Requests, Request(r) PROVE Mine
  <2>0. pc \in [Requests -> Steps]
    BY <1>1 DEF TypeInv, TypeOK, Steps
  <2>1. CASE UpdateSettings(r) \/ UpdateProfile(r)
    BY <2>0, <2>1 DEF UpdateSettings, UpdateProfile, Reply, Goto
  <2>2. CASE StoreImage(r)
    BY <1>1, <2>0, <2>2 DEF StoreImage, Reply, Goto, TypeInv, Uploading
  <2>3. CASE UNCHANGED <<meta, profile>>
    BY <2>3
  <2> QED
    BY <1>1, <2>1, <2>2, <2>3 DEF Request, CreatePost, CreateConfigure,
       CreateHook, Skip, ReadTenant, StatusGet, StatusWrite, DeleteCall,
       DeleteClear, SendPost, Upload, WriteFails, SetPaths, document
<1>2. ASSUME InstanceChanges \/ \E e \in events : Webhook(e)
      PROVE  UNCHANGED <<meta, profile>>
  BY <1>2 DEF InstanceChanges, Webhook, WebhookFind, WebhookWrite, WebhookLost,
              SetPaths, document
<1>3. TypeInv /\ [Next]_vars => [Mine]_vars
  BY <1>1, <1>2 DEF Next
<1> QED BY <1>3, InitType, StepType, PTL DEF Spec, FormsKeepTheirFields

----------------------------------------------------------------------------
(* Names and instances.                                                      *)

\* What a request that starts knows, if anything depends on it.
LEMMA StartsAlone ==
  ASSUME NEW r \in Requests, NEW ok \in BOOLEAN, pc[r] = "idle", Start(r, ok)
  PROVE  /\ matched' => matched /\ Busy = {} /\ ok
         /\ trusted' => trusted /\ Busy = {} /\ events = {}
         /\ \/ calm' = {}
            \/ calm' = {r} /\ Busy = {} /\ events = {} /\ ok
<1>1. Alone(r) => Busy = {} /\ events = {}
  BY DEF Alone, Running, Busy
<1>2. matched' => matched /\ Alone(r) /\ ok
  BY DEF Start
<1>3. trusted' => trusted /\ Alone(r)
  BY DEF Start
<1>4. \/ calm' = {}
      \/ calm' = {r} /\ Alone(r) /\ ok
  BY DEF Start
<1> QED BY <1>1, <1>2, <1>3, <1>4

LEMMA NamesStep ==
  ASSUME TypeInv, NamesFollow, StatusTrusted, CalmKnows,
         NEW r \in Requests, Request(r)
  PROVE  NamesFollow'
<1> USE DEF TypeInv, TypeOK, NamesFollow, StatusTrusted, CalmKnows, AtMostOne,
            Busy, Present, Goto, Reply, local, document, evolution, SetPaths
<1>1. CASE CreatePost(r)
  <2>1. PICK ok \in BOOLEAN :
          /\ Start(r, ok) /\ pc[r] = "idle"
          /\ ok => instance' = Made
          /\ instance' \in {instance, Made}
          /\ \/ pc' = [pc EXCEPT ![r] = "configure"]
             \/ ~ok /\ pc' = [pc EXCEPT ![r] = "done"]
          /\ UNCHANGED <<document, events, local>>
    BY <1>1 DEF CreatePost
  <2>2. /\ matched' => matched /\ Busy = {} /\ ok
        /\ trusted' => trusted /\ Busy = {} /\ events = {}
        /\ \/ calm' = {}
           \/ calm' = {r} /\ Busy = {} /\ events = {} /\ ok
    BY <2>1, StartsAlone
  <2> QED BY <2>1, <2>2 DEF Made, StatusOf
<1>2. CASE CreateConfigure(r)
  BY <1>2 DEF CreateConfigure
<1>3. CASE CreateHook(r)
  BY <1>3 DEF CreateHook
<1>4. CASE Skip(r)
  BY <1>4 DEF Skip
<1>5. CASE ReadTenant(r)
  <2>1. Start(r, TRUE) /\ pc[r] = "idle"
    BY <1>5 DEF ReadTenant
  <2>2. /\ matched' => matched /\ Busy = {} /\ TRUE
        /\ trusted' => trusted /\ Busy = {} /\ events = {}
        /\ \/ calm' = {}
           \/ calm' = {r} /\ Busy = {} /\ events = {}
    BY <2>1, StartsAlone
  <2> QED BY <1>5, <2>2 DEF ReadTenant
<1>6. CASE StatusGet(r)
  BY <1>6, MapType DEF StatusGet
<1>7. CASE StatusWrite(r)
  BY <1>7 DEF StatusWrite
<1>8. CASE DeleteCall(r)
  <2>1. /\ pc[r] = "call" /\ pc' = [pc EXCEPT ![r] = "clear"]
        /\ matched' => matched /\ instance' = "absent"
    BY <1>8 DEF DeleteCall
  <2>2. matched => \A x \in Busy : x = r
    BY <2>1
  <2> QED BY <2>1, <2>2
<1>9. CASE DeleteClear(r)
  BY <1>9 DEF DeleteClear
<1>10. CASE SendPost(r)
  BY <1>10 DEF SendPost
<1>11. CASE UpdateSettings(r)
  <2>1. Start(r, ~named) /\ pc[r] = "idle"
    BY <1>11 DEF UpdateSettings
  <2>2. /\ matched' => matched /\ Busy = {} /\ ~named
        /\ trusted' => trusted /\ Busy = {} /\ events = {}
        /\ \/ calm' = {}
           \/ calm' = {r} /\ Busy = {} /\ events = {}
    BY <2>1, StartsAlone
  <2> QED BY <1>11, <2>2 DEF UpdateSettings
<1>12. CASE UpdateProfile(r)
  BY <1>12 DEF UpdateProfile
<1>13. CASE Upload(r)
  BY <1>13 DEF Upload
<1>14. CASE StoreImage(r)
  BY <1>14 DEF StoreImage
<1>15. CASE WriteFails(r)
  <2>1. matched' => matched /\ pc[r] = "replace"
    BY <1>15 DEF WriteFails
  <2>2. UNCHANGED <<document, evolution>> /\ pc' = [pc EXCEPT ![r] = "done"]
    BY <1>15 DEF WriteFails
  <2> QED BY <2>1, <2>2
<1> QED
  BY <1>1, <1>2, <1>3, <1>4, <1>5, <1>6, <1>7, <1>8, <1>9, <1>10, <1>11, <1>12, <1>13, <1>14, <1>15 DEF Request

LEMMA CalmStep ==
  ASSUME TypeInv, NamesFollow, StatusTrusted, CalmKnows,
         NEW r \in Requests, Request(r)
  PROVE  CalmKnows'
<1> USE DEF TypeInv, TypeOK, NamesFollow, StatusTrusted, CalmKnows, AtMostOne,
            Busy, Present, Goto, Reply, local, document, evolution, SetPaths
<1>1. CASE CreatePost(r)
  <2>1. PICK ok \in BOOLEAN :
          /\ Start(r, ok) /\ pc[r] = "idle"
          /\ ok => instance' = Made
          /\ instance' \in {instance, Made}
          /\ \/ pc' = [pc EXCEPT ![r] = "configure"]
             \/ ~ok /\ pc' = [pc EXCEPT ![r] = "done"]
          /\ UNCHANGED <<document, events, local>>
    BY <1>1 DEF CreatePost
  <2>2. /\ matched' => matched /\ Busy = {} /\ ok
        /\ trusted' => trusted /\ Busy = {} /\ events = {}
        /\ \/ calm' = {}
           \/ calm' = {r} /\ Busy = {} /\ events = {} /\ ok
    BY <2>1, StartsAlone
  <2> QED BY <2>1, <2>2 DEF Made, StatusOf
<1>2. CASE CreateConfigure(r)
  BY <1>2 DEF CreateConfigure
<1>3. CASE CreateHook(r)
  BY <1>3 DEF CreateHook
<1>4. CASE Skip(r)
  BY <1>4 DEF Skip
<1>5. CASE ReadTenant(r)
  <2>1. Start(r, TRUE) /\ pc[r] = "idle"
    BY <1>5 DEF ReadTenant
  <2>2. /\ matched' => matched /\ Busy = {} /\ TRUE
        /\ trusted' => trusted /\ Busy = {} /\ events = {}
        /\ \/ calm' = {}
           \/ calm' = {r} /\ Busy = {} /\ events = {}
    BY <2>1, StartsAlone
  <2> QED BY <1>5, <2>2 DEF ReadTenant
<1>6. CASE StatusGet(r)
  BY <1>6, MapType DEF StatusGet
<1>7. CASE StatusWrite(r)
  BY <1>7 DEF StatusWrite
<1>8. CASE DeleteCall(r)
  BY <1>8 DEF DeleteCall
<1>9. CASE DeleteClear(r)
  BY <1>9 DEF DeleteClear
<1>10. CASE SendPost(r)
  BY <1>10 DEF SendPost
<1>11. CASE UpdateSettings(r)
  <2>1. Start(r, ~named) /\ pc[r] = "idle"
    BY <1>11 DEF UpdateSettings
  <2>2. /\ matched' => matched /\ Busy = {} /\ ~named
        /\ trusted' => trusted /\ Busy = {} /\ events = {}
        /\ \/ calm' = {}
           \/ calm' = {r} /\ Busy = {} /\ events = {}
    BY <2>1, StartsAlone
  <2> QED BY <1>11, <2>2 DEF UpdateSettings
<1>12. CASE UpdateProfile(r)
  BY <1>12 DEF UpdateProfile
<1>13. CASE Upload(r)
  BY <1>13 DEF Upload
<1>14. CASE StoreImage(r)
  BY <1>14 DEF StoreImage
<1>15. CASE WriteFails(r)
  BY <1>15 DEF WriteFails
<1> QED
  BY <1>1, <1>2, <1>3, <1>4, <1>5, <1>6, <1>7, <1>8, <1>9, <1>10, <1>11, <1>12, <1>13, <1>14, <1>15 DEF Request

LEMMA StatusStep ==
  ASSUME TypeInv, NamesFollow, StatusTrusted, CalmKnows,
         NEW r \in Requests, Request(r)
  PROVE  StatusTrusted'
<1> USE DEF TypeInv, TypeOK, NamesFollow, StatusTrusted, CalmKnows, AtMostOne,
            Busy, Present, Goto, Reply, local, document, evolution, SetPaths
<1>1. CASE CreatePost(r)
  <2>1. PICK ok \in BOOLEAN :
          /\ Start(r, ok) /\ pc[r] = "idle"
          /\ ok => instance' = Made
          /\ instance' \in {instance, Made}
          /\ \/ pc' = [pc EXCEPT ![r] = "configure"]
             \/ ~ok /\ pc' = [pc EXCEPT ![r] = "done"]
          /\ UNCHANGED <<document, events, local>>
    BY <1>1 DEF CreatePost
  <2>2. /\ matched' => matched /\ Busy = {} /\ ok
        /\ trusted' => trusted /\ Busy = {} /\ events = {}
        /\ \/ calm' = {}
           \/ calm' = {r} /\ Busy = {} /\ events = {} /\ ok
    BY <2>1, StartsAlone
  <2> QED BY <2>1, <2>2 DEF Made, StatusOf
<1>2. CASE CreateConfigure(r)
  <2>1. trusted' => trusted /\ instance \in {"close", "absent"}
    BY <1>2 DEF CreateConfigure
  <2>2. /\ pc[r] = "configure" /\ pc' = [pc EXCEPT ![r] = "hook"]
        /\ waStatus' = "DISCONNECTED"
        /\ UNCHANGED <<evolution, local>>
    BY <1>2 DEF CreateConfigure
  <2>3. trusted => events = {} /\ \A x \in Busy : x = r
    BY <2>2
  <2> QED BY <2>1, <2>2, <2>3 DEF StatusOf
<1>3. CASE CreateHook(r)
  BY <1>3 DEF CreateHook
<1>4. CASE Skip(r)
  BY <1>4 DEF Skip
<1>5. CASE ReadTenant(r)
  <2>1. Start(r, TRUE) /\ pc[r] = "idle"
    BY <1>5 DEF ReadTenant
  <2>2. /\ matched' => matched /\ Busy = {} /\ TRUE
        /\ trusted' => trusted /\ Busy = {} /\ events = {}
        /\ \/ calm' = {}
           \/ calm' = {r} /\ Busy = {} /\ events = {}
    BY <2>1, StartsAlone
  <2> QED BY <1>5, <2>2 DEF ReadTenant
<1>6. CASE StatusGet(r)
  <2>1. /\ pc[r] = "get"
        /\ UNCHANGED <<document, evolution>>
        /\ \/ /\ got' = [got EXCEPT ![r] = StatusOf(instance)]
              /\ pc' = [pc EXCEPT ![r] = "write"]
              /\ trusted' = trusted
           \/ /\ got' = [got EXCEPT ![r] = StatusOf(instance)]
              /\ pc' = [pc EXCEPT ![r] = "done"]
              /\ seen[r] = StatusOf(instance)
              /\ trusted' => trusted \/ r \in calm
           \/ /\ got' = got
              /\ pc' = [pc EXCEPT ![r] = "done"]
              /\ trusted' = trusted
    BY <1>6, MapType DEF StatusGet
  <2>2. trusted \/ r \in calm => events = {} /\ \A x \in Busy : x = r
    BY <2>1
  <2>3. \/ trusted
        \/ r \in calm /\ seen[r] = StatusOf(instance)
        => (named => waStatus = StatusOf(instance))
    BY <2>1, <2>2
  <2>4. CASE pc' = [pc EXCEPT ![r] = "write"]
    <3>1. /\ got' = [got EXCEPT ![r] = StatusOf(instance)]
          /\ trusted' = trusted
      BY <2>1, <2>4
    <3>2. got'[r] = StatusOf(instance)
      BY <3>1
    <3>3. trusted' => events = {} /\ \A x \in Busy' : x = r
      BY <2>1, <2>2, <2>4, <3>1
    <3>4. trusted' => (named => waStatus = StatusOf(instance))
      BY <2>3, <3>1
    <3> QED BY <2>1, <3>2, <3>3, <3>4
  <2>5. CASE pc' = [pc EXCEPT ![r] = "done"]
    <3>1. trusted' => events = {} /\ Busy' = {}
      BY <2>1, <2>2, <2>5
    <3>2. trusted' => (named => waStatus = StatusOf(instance))
      BY <2>1, <2>3, <2>5
    <3> QED BY <2>1, <3>1, <3>2
  <2> QED BY <2>1, <2>4, <2>5
<1>7. CASE StatusWrite(r)
  <2>1. /\ pc[r] = "write" /\ pc' = [pc EXCEPT ![r] = "done"]
        /\ UNCHANGED <<named, evolution, local>>
        /\ \/ waStatus' = got[r] /\ (trusted' => trusted \/ r \in calm)
           \/ waStatus' = waStatus /\ trusted' = trusted
    BY <1>7 DEF StatusWrite
  <2>2. trusted \/ r \in calm =>
          /\ events = {} /\ \A x \in Busy : x = r
          /\ got[r] = StatusOf(instance)
    BY <2>1
  <2>3. trusted => (named => waStatus = StatusOf(instance))
    BY <2>1, <2>2
  <2>4. trusted' => events = {} /\ Busy' = {}
    BY <2>1, <2>2
  <2>5. trusted' => (named => waStatus' = StatusOf(instance))
    <3>1. CASE waStatus' = got[r] /\ (trusted' => trusted \/ r \in calm)
      BY <2>2, <3>1
    <3>2. CASE waStatus' = waStatus /\ trusted' = trusted
      BY <2>3, <3>2
    <3> QED BY <2>1, <3>1, <3>2
  <2> QED BY <2>1, <2>4, <2>5
<1>8. CASE DeleteCall(r)
  BY <1>8 DEF DeleteCall
<1>9. CASE DeleteClear(r)
  BY <1>9 DEF DeleteClear
<1>10. CASE SendPost(r)
  BY <1>10 DEF SendPost
<1>11. CASE UpdateSettings(r)
  <2>1. Start(r, ~named) /\ pc[r] = "idle"
    BY <1>11 DEF UpdateSettings
  <2>2. /\ matched' => matched /\ Busy = {} /\ ~named
        /\ trusted' => trusted /\ Busy = {} /\ events = {}
        /\ \/ calm' = {}
           \/ calm' = {r} /\ Busy = {} /\ events = {}
    BY <2>1, StartsAlone
  <2> QED BY <1>11, <2>2 DEF UpdateSettings
<1>12. CASE UpdateProfile(r)
  BY <1>12 DEF UpdateProfile
<1>13. CASE Upload(r)
  BY <1>13 DEF Upload
<1>14. CASE StoreImage(r)
  BY <1>14 DEF StoreImage
<1>15. CASE WriteFails(r)
  <2>1. trusted' => trusted /\ pc[r] = "replace"
    BY <1>15 DEF WriteFails
  <2>2. /\ UNCHANGED <<document, evolution, local>>
        /\ pc' = [pc EXCEPT ![r] = "done"]
    BY <1>15 DEF WriteFails
  <2> QED BY <2>1, <2>2
<1> QED
  BY <1>1, <1>2, <1>3, <1>4, <1>5, <1>6, <1>7, <1>8, <1>9, <1>10, <1>11, <1>12, <1>13, <1>14, <1>15 DEF Request

LEMMA ChangeStep ==
  ASSUME TypeInv, NamesFollow, StatusTrusted, CalmKnows, InstanceChanges
  PROVE  NamesFollow' /\ StatusTrusted' /\ CalmKnows'
<1>1. /\ Present /\ instance' \in Raw /\ calm' = {}
      /\ trusted' => /\ trusted /\ hooked /\ named /\ Running = {}
                     /\ events' = {[state |-> instance', found |-> FALSE]}
      /\ UNCHANGED <<document, pc, local, matched>>
  BY DEF InstanceChanges, Present
<1>2. Present'
  BY <1>1 DEF Raw, Present
<1>3. NamesFollow'
  BY <1>1, <1>2 DEF NamesFollow, AtMostOne, Busy, Present, document
<1>4. StatusTrusted'
  <2>1. trusted' => Busy' = {} /\ named'
    BY <1>1 DEF Running, Busy, document
  <2>2. trusted' => \E e \in Event : events' = {e} /\ e.state = instance'
    <3>1. /\ [state |-> instance', found |-> FALSE] \in Event
          /\ [state |-> instance', found |-> FALSE].state = instance'
      BY <1>1 DEF Event
    <3> QED BY <1>1, <3>1
  <2>3. trusted' => events' # {}
    BY <1>1
  <2> QED BY <2>1, <2>2, <2>3 DEF StatusTrusted, AtMostOne
<1> QED BY <1>1, <1>3, <1>4 DEF CalmKnows

LEMMA WebhookStep ==
  ASSUME TypeInv, NamesFollow, StatusTrusted, CalmKnows,
         NEW e \in events, Webhook(e)
  PROVE  NamesFollow' /\ StatusTrusted' /\ CalmKnows'
<1>1. /\ UNCHANGED <<named, instance, pc, local, matched>>
      /\ calm' = calm \/ calm' = {}
  BY DEF Webhook, WebhookFind, WebhookWrite, WebhookLost, SetPaths, document
<1>2. NamesFollow'
  BY <1>1 DEF NamesFollow, AtMostOne, Busy, Present
<1>3. CalmKnows'
  BY <1>1 DEF CalmKnows, Busy
<1>4. trusted => /\ events = {e} /\ e.state = instance
                 /\ Busy = {} /\ named /\ e \in Event
  BY DEF StatusTrusted
<1>5. CASE WebhookFind(e)
  <2>1. trusted' = trusted
    BY <1>5 DEF WebhookFind
  <2>2. trusted => events' = {[e EXCEPT !.found = TRUE]}
    BY <1>4, <1>5 DEF WebhookFind
  <2>3. trusted => /\ [e EXCEPT !.found = TRUE] \in Event
                   /\ [e EXCEPT !.found = TRUE].state = instance
    BY <1>4 DEF Event
  <2>4. trusted' => Busy' = {} /\ named'
    BY <1>1, <1>4, <2>1 DEF Busy
  <2> QED
    BY <1>1, <1>2, <1>3, <2>1, <2>2, <2>3, <2>4 DEF StatusTrusted, AtMostOne
<1>6. CASE WebhookWrite(e)
  <2>1. trusted' = trusted /\ events' = events \ {e}
    BY <1>6 DEF WebhookWrite
  <2>2. trusted' => waStatus' = StatusOf(instance')
    BY <1>1, <1>4, <1>6, <2>1, MapType DEF WebhookWrite, SetPaths, Event
  <2>3. trusted' => Busy' = {} /\ events' = {}
    BY <1>1, <1>4, <2>1 DEF Busy
  <2> QED BY <1>2, <1>3, <2>2, <2>3 DEF StatusTrusted, AtMostOne
<1>7. CASE WebhookLost(e)
  BY <1>2, <1>3, <1>7 DEF WebhookLost, StatusTrusted
<1> QED BY <1>5, <1>6, <1>7 DEF Webhook

Knowing == TypeInv /\ NamesFollow /\ StatusTrusted /\ CalmKnows

LEMMA InitKnowing == Init => Knowing
<1>1. Init => NamesFollow /\ StatusTrusted /\ CalmKnows
  BY DEF Init, NamesFollow, StatusTrusted, CalmKnows, AtMostOne, Busy, Present
<1> QED BY <1>1, InitType DEF Knowing

LEMMA StepKnowing == Knowing /\ [Next]_vars => Knowing'
<1>1. ASSUME Knowing, UNCHANGED vars PROVE Knowing'
  <2>1. TypeInv'
    BY <1>1, StepType DEF Knowing
  <2>2. UNCHANGED <<named, waStatus, instance, events, pc, seen, got, calm,
                    trusted, matched>>
    BY <1>1 DEF vars, document, evolution, local
  <2> QED BY <1>1, <2>1, <2>2 DEF Knowing, NamesFollow, StatusTrusted,
             CalmKnows, AtMostOne, Busy, Present
<1>2. ASSUME Knowing, Next PROVE Knowing'
  BY <1>2, StepType, NamesStep, CalmStep, StatusStep, ChangeStep, WebhookStep
     DEF Knowing, Next
<1> QED BY <1>1, <1>2

LEMMA RestIsFree == AtRest => Busy = {} /\ events = {}
  BY DEF AtRest, Running, Busy

\* Whatever order creates, deletes, failing calls and the settings form come in,
\* and however many there are: at rest the tenant's document names an instance
\* exactly when Evolution has one, unless matched was given up and no undisturbed
\* create or delete has put it right since.
THEOREM NamesMatchInstancesHolds == Spec => []NamesMatchInstances
<1>1. Knowing => NamesMatchInstances
  BY RestIsFree DEF Knowing, NamesFollow, NamesMatchInstances, Present
<1> QED BY <1>1, InitKnowing, StepKnowing, PTL DEF Spec

\* However polls, webhooks, creates and deletes interleave and however often the
\* instance changes: the status sendText believes is the instance's at rest,
\* unless trust was given up and no undisturbed poll has put it right since.
THEOREM StatusFollowsInstanceHolds == Spec => []StatusFollowsInstance
<1>1. Knowing => StatusFollowsInstance
  BY RestIsFree DEF Knowing, StatusTrusted, StatusFollowsInstance
<1> QED BY <1>1, InitKnowing, StepKnowing, PTL DEF Spec
============================================================================
