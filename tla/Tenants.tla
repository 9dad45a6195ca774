------------------------------ MODULE Tenants ------------------------------
(***************************************************************************)
(* The document of one tenant and everybody who writes it: the settings    *)
(* forms and image uploads (TenantsController), which replace whole nested *)
(* objects, and WhatsappService, which sets single paths of whatsappConfig *)
(* while it talks to the tenant's instance at Evolution.                   *)
(*                                                                         *)
(* The instance lives at Evolution and changes by itself.  The document    *)
(* holds a copy of its state (waStatus) that three parties write: the poll *)
(* of getInstanceStatus, webhooks that arrive late and in any order, and   *)
(* the requests that create and delete the instance.  The name of an       *)
(* instance is computed from the tenant's id, so that whether it is set is *)
(* all there is to it, and tenants do not meet.                            *)
(***************************************************************************)
EXTENDS Naturals, FiniteSets

CONSTANTS
  Requests,
  Ops,        \* the operations requests are made of
  MaxChanges  \* bound on the changes of the instance's state

AllOps == {"create", "status", "delete", "send", "settings", "profile", "logo",
           "background"}

ASSUME TenantsAssumption ==
  /\ Ops \subseteq AllOps
  /\ MaxChanges \in Nat

WaStatus == {"DISCONNECTED", "CONNECTING", "CONNECTED"}

\* What Evolution reports of an instance that is there.
Raw == {"close", "connecting", "open"}

\* The fields of the profile, and of the settings in whatsappConfig.
Fields == {"logo", "background", "phone"}

VARIABLES
  named,     \* whatsappConfig.instanceName is set
  waStatus,  \* whatsappConfig.waStatus
  meta,      \* whatsappConfig holds the settings of the tenant's form
  profile,   \* the fields the profile has
  instance,  \* the state of the instance at Evolution, or "absent"
  hooked,    \* the instance reports its changes
  events,    \* webhooks under way: [state, found]
  changes,
  pc,
  op,
  seen,      \* seen[r]: waStatus in the copy that request r read
  got,       \* got[r]: the status request r was told by Evolution
  resp,
  \* --- history ---
  calm,      \* requests that nobody has interfered with so far
  trusted,   \* no reason to doubt waStatus has come up since it was right
  matched    \* no reason to doubt that names and instances go together

document == <<named, waStatus, meta, profile>>
evolution == <<instance, hooked, events, changes>>
local == <<op, seen, got>>
vars == <<document, evolution, pc, local, resp, calm, trusted, matched>>

TypeOK ==
  /\ named \in BOOLEAN
  /\ waStatus \in WaStatus
  /\ meta \in BOOLEAN
  /\ profile \subseteq Fields
  /\ instance \in Raw \cup {"absent"}
  /\ hooked \in BOOLEAN
  /\ events \subseteq [state: Raw, found: BOOLEAN]
  /\ changes \in 0..MaxChanges
  /\ pc \in [Requests -> {"idle", "configure", "hook", "get", "write", "call",
                          "clear", "post", "replace", "done"}]
  /\ op \in [Requests -> AllOps]
  /\ seen \in [Requests -> WaStatus]
  /\ got \in [Requests -> WaStatus]
  /\ resp \in [Requests -> {"none", "ok", "skipped", "guessed", "failed"}]
  /\ calm \subseteq Requests
  /\ trusted \in BOOLEAN
  /\ matched \in BOOLEAN

Init ==
  /\ named = FALSE
  /\ waStatus = "DISCONNECTED"
  /\ meta \in BOOLEAN
  /\ profile \in SUBSET Fields
  /\ instance = "absent"
  /\ hooked = FALSE
  /\ events = {}
  /\ changes = 0
  /\ pc = [r \in Requests |-> "idle"]
  /\ op \in [Requests -> Ops]
  /\ seen = [r \in Requests |-> "DISCONNECTED"]
  /\ got = [r \in Requests |-> "DISCONNECTED"]
  /\ resp = [r \in Requests |-> "none"]
  /\ calm = {}
  /\ trusted = TRUE
  /\ matched = TRUE

\* Seeded fault: Evolution's word is stored as it is.
mapEvolutionStateRaw(state) == state

mapEvolutionState(state) ==
  CASE state = "open" -> "CONNECTED"
    [] state = "connecting" -> "CONNECTING"
    [] OTHER -> "DISCONNECTED"

Goto(r, step) == pc' = [pc EXCEPT ![r] = step]

Reply(r, answer) ==
  /\ Goto(r, "done")
  /\ resp' = [resp EXCEPT ![r] = answer]

----------------------------------------------------------------------------
(* History.  A request or a change is undisturbed when nothing else is     *)
(* under way: no other request between its steps, and no webhook.          *)

Running == {r \in Requests : pc[r] \notin {"idle", "done"}}

Alone(r) == events = {} /\ Running \subseteq {r}

\* Request r starts; ok says that its first call went well.
Start(r, ok) ==
  /\ calm' = IF Alone(r) /\ ok THEN {r} ELSE {}
  /\ trusted' = (trusted /\ Alone(r))
  /\ matched' = (matched /\ Alone(r) /\ ok)

----------------------------------------------------------------------------
(* createInstance.                                                         *)

Made == IF instance = "absent" THEN "close" ELSE instance

\* Evolution makes the instance, or has it already (409), which is accepted.
\* Any other refusal ends the request, for a timeout after the fact; an error
\* that is no AxiosError is swallowed.
CreatePost(r) ==
  /\ pc[r] = "idle" /\ op[r] = "create"
  /\ \/ /\ instance' = Made
        /\ Goto(r, "configure") /\ Start(r, TRUE)
        /\ UNCHANGED resp
     \/ /\ instance' \in {instance, Made}
        /\ Reply(r, "failed") /\ Start(r, FALSE)
     \/ /\ Goto(r, "configure") /\ Start(r, FALSE)
        /\ UNCHANGED <<instance, resp>>
  /\ UNCHANGED <<document, hooked, events, changes, local>>

\* Seeded fault: whatsappConfig is set as a whole.
SetPathsWhole(name, status) ==
  /\ named' = name
  /\ waStatus' = status
  /\ meta' = FALSE
  /\ UNCHANGED profile

\* updateWhatsappConfig sets paths of whatsappConfig; the rest stays.
SetPaths(name, status) ==
  /\ named' = name
  /\ waStatus' = status
  /\ UNCHANGED <<meta, profile>>

\* Seeded fault: the name is written only for an instance that was made now.
CreateConfigureNew(r) ==
  /\ pc[r] = "configure"
  /\ SetPaths(named \/ instance = "close", "DISCONNECTED")
  /\ Goto(r, "hook")
  /\ calm' = calm \cap {r}
  /\ trusted' = (trusted /\ instance \in {"close", "absent"})
  /\ matched' = (matched \/ r \in calm)
  /\ UNCHANGED <<evolution, local, resp>>

\* DISCONNECTED is written, whatever the state of an instance that was there.
CreateConfigure(r) ==
  /\ pc[r] = "configure"
  /\ SetPaths(TRUE, "DISCONNECTED")
  /\ Goto(r, "hook")
  /\ calm' = calm \cap {r}
  /\ trusted' = (trusted /\ instance \in {"close", "absent"})
  /\ matched' = (matched \/ r \in calm)
  /\ UNCHANGED <<evolution, local, resp>>

\* The webhook is set, unless that fails or no address is configured.
CreateHook(r) ==
  /\ pc[r] = "hook"
  /\ hooked' \in {hooked, instance # "absent"}
  /\ Reply(r, "ok")
  /\ UNCHANGED <<document, instance, events, changes, local, calm, trusted,
                 matched>>

----------------------------------------------------------------------------
(* getInstanceStatus, deleteInstance and sendText read the tenant first.   *)

\* Without a name there is nothing to ask, delete or send with.
Skip(r) ==
  /\ pc[r] = "idle"
  /\ \/ op[r] \in {"status", "delete", "send"} /\ ~named
     \/ op[r] = "send" /\ waStatus # "CONNECTED"
  /\ Reply(r, "skipped")
  /\ UNCHANGED <<document, evolution, local, calm, trusted, matched>>

ReadTenant(r) ==
  /\ pc[r] = "idle" /\ named
  /\ \/ op[r] = "status" /\ Goto(r, "get")
     \/ op[r] = "delete" /\ Goto(r, "call")
     \/ op[r] = "send" /\ waStatus = "CONNECTED" /\ Goto(r, "post")
  /\ seen' = [seen EXCEPT ![r] = waStatus]
  /\ Start(r, TRUE)
  /\ UNCHANGED <<document, evolution, op, got, resp>>

\* Evolution answers, or the call fails (as it does for an instance that is
\* not there) and DISCONNECTED is guessed, but not written.
StatusGet(r) ==
  /\ pc[r] = "get"
  /\ \/ /\ instance # "absent"
        /\ got' = [got EXCEPT ![r] = mapEvolutionState(instance)]
        /\ IF got'[r] = seen[r]
           THEN Reply(r, "ok") /\ trusted' = (trusted \/ r \in calm)
           ELSE Goto(r, "write") /\ UNCHANGED <<resp, trusted>>
     \/ Reply(r, "guessed") /\ UNCHANGED <<got, trusted>>
  /\ UNCHANGED <<document, evolution, op, seen, calm, matched>>

\* Seeded fault: the poll answers and does not store.
StatusWriteNothing(r) ==
  /\ pc[r] = "write"
  /\ Reply(r, "ok")
  /\ trusted' = (trusted \/ r \in calm)
  /\ UNCHANGED <<document, evolution, local, calm, matched>>

\* A difference from the copy read at first is stored.
StatusWrite(r) ==
  /\ pc[r] = "write"
  /\ \/ /\ SetPaths(named, got[r])
        /\ Reply(r, "ok")
        /\ calm' = calm \cap {r}
        /\ trusted' = (trusted \/ r \in calm)
     \/ Reply(r, "guessed") /\ UNCHANGED <<document, calm, trusted>>
  /\ UNCHANGED <<evolution, local, matched>>

\* Evolution deletes the instance, perhaps without the request learning of it;
\* or it does not, which is only logged.
DeleteCall(r) ==
  /\ pc[r] = "call"
  /\ Goto(r, "clear")
  /\ \/ /\ instance' = "absent" /\ hooked' = FALSE
        /\ calm' = calm \cap {r}
        /\ UNCHANGED matched
     \/ /\ instance # "absent"
        /\ calm' = {} /\ matched' = FALSE
        /\ UNCHANGED <<instance, hooked>>
  /\ UNCHANGED <<document, events, changes, local, resp, trusted>>

DeleteClear(r) ==
  /\ pc[r] = "clear"
  /\ SetPaths(FALSE, "DISCONNECTED")
  /\ Reply(r, "ok")
  /\ calm' = calm \cap {r}
  /\ matched' = (matched \/ r \in calm)
  /\ UNCHANGED <<evolution, local, trusted>>

\* The message goes to Evolution; its errors are thrown to the caller.
SendPost(r) ==
  /\ pc[r] = "post"
  /\ \/ instance = "open" /\ Reply(r, "ok")
     \/ Reply(r, "failed")
  /\ UNCHANGED <<document, evolution, local, calm, trusted, matched>>

----------------------------------------------------------------------------
(* Settings and images: update sets each object it is given as a whole.    *)

\* The form's whatsappConfig has neither name nor status; the schema's default
\* for the latter is DISCONNECTED.
UpdateSettings(r) ==
  /\ pc[r] = "idle" /\ op[r] = "settings"
  /\ meta' = TRUE /\ named' = FALSE /\ waStatus' = "DISCONNECTED"
  /\ Reply(r, "ok")
  /\ Start(r, ~named)
  /\ UNCHANGED <<profile, evolution, local>>

UpdateProfile(r) ==
  /\ pc[r] = "idle" /\ op[r] = "profile"
  /\ profile' \in SUBSET Fields
  /\ Reply(r, "ok")
  /\ UNCHANGED <<named, waStatus, meta, evolution, local, calm, trusted,
                 matched>>

Upload(r) ==
  /\ pc[r] = "idle" /\ op[r] \in {"logo", "background"}
  /\ \/ Goto(r, "replace") /\ UNCHANGED resp
     \/ Reply(r, "failed")
  /\ UNCHANGED <<document, evolution, local, calm, trusted, matched>>

\* The address of the image becomes the whole profile.
StoreImage(r) ==
  /\ pc[r] = "replace"
  /\ profile' = {op[r]}
  /\ Reply(r, "ok")
  /\ UNCHANGED <<named, waStatus, meta, evolution, local, calm, trusted,
                 matched>>

\* MongoDB fails; the error leaves the handler.
WriteFails(r) ==
  /\ pc[r] \in {"configure", "clear", "replace"}
  /\ Reply(r, "failed")
  /\ calm' = {}
  /\ trusted' = (trusted /\ pc[r] = "replace")
  /\ matched' = (matched /\ pc[r] = "replace")
  /\ UNCHANGED <<document, evolution, local>>

----------------------------------------------------------------------------
(* Evolution and its webhooks.                                             *)

\* The phone connects, loses the connection, ...
InstanceChanges ==
  /\ instance # "absent" /\ changes < MaxChanges
  /\ instance' \in Raw \ {instance}
  /\ changes' = changes + 1
  /\ events' = IF hooked
               THEN events \cup {[state |-> instance', found |-> FALSE]}
               ELSE events
  /\ calm' = {}
  /\ trusted' = (trusted /\ hooked /\ named /\ events = {} /\ Running = {})
  /\ UNCHANGED <<document, hooked, pc, local, resp, matched>>

\* handleConnectionUpdate looks for the tenant with this instance name.
WebhookFind(e) ==
  /\ ~e.found
  /\ events' = IF named THEN (events \ {e}) \cup {[e EXCEPT !.found = TRUE]}
               ELSE events \ {e}
  /\ UNCHANGED <<document, instance, hooked, changes, pc, local, resp, calm,
                 trusted, matched>>

WebhookWrite(e) ==
  /\ e.found
  /\ SetPaths(named, mapEvolutionState(e.state))
  /\ events' = events \ {e}
  /\ calm' = {}
  /\ UNCHANGED <<instance, hooked, changes, pc, local, resp, trusted, matched>>

\* It never arrives, or its handler fails: the answer to Evolution is ok.
WebhookLost(e) ==
  /\ events' = events \ {e}
  /\ trusted' = FALSE
  /\ UNCHANGED <<document, instance, hooked, changes, pc, local, resp, calm,
                 matched>>

Request(r) ==
  \/ CreatePost(r) \/ CreateConfigure(r) \/ CreateHook(r)
  \/ Skip(r) \/ ReadTenant(r)
  \/ StatusGet(r) \/ StatusWrite(r)
  \/ DeleteCall(r) \/ DeleteClear(r)
  \/ SendPost(r)
  \/ UpdateSettings(r) \/ UpdateProfile(r) \/ Upload(r) \/ StoreImage(r)
  \/ WriteFails(r)

Webhook(e) == WebhookFind(e) \/ WebhookWrite(e) \/ WebhookLost(e)

Next ==
  \/ \E r \in Requests : Request(r)
  \/ InstanceChanges
  \/ \E e \in events : Webhook(e)

Spec == Init /\ [][Next]_vars

----------------------------------------------------------------------------
(* Properties.                                                             *)

AtRest == events = {} /\ Running = {}

\* What waStatus should say of an instance.
StatusOf(state) ==
  IF state = "open" THEN "CONNECTED"
  ELSE IF state = "connecting" THEN "CONNECTING" ELSE "DISCONNECTED"

\* sendText believes waStatus.  It is right at rest, unless since it was right
\* - a webhook was lost,
\* - the instance changed while no webhook was set, while the tenant had no
\*   name, or while another webhook or any request was under way,
\* - a request started while a webhook or another request was under way,
\* - createInstance met an instance that was connecting or open, or
\* - createInstance or deleteInstance failed to write the tenant.
\* A poll that Evolution answers undisturbed puts it right, whatever went wrong
\* before.
StatusFollowsInstance ==
  AtRest /\ trusted /\ named => waStatus = StatusOf(instance)

\* The tenant has a name exactly when Evolution has its instance, unless
\* - a call of createInstance or deleteInstance to Evolution, or what either
\*   writes, failed,
\* - a request started while a webhook or another request was under way, or
\* - the settings form wiped the name.
\* A create or delete that succeeds undisturbed puts it right, even the delete
\* that finds nothing to delete at Evolution.
NamesMatchInstances ==
  AtRest /\ matched => (named <=> instance # "absent")

\* Settings and profile change only when a request of their own forms finishes:
\* polls, webhooks and the life of the instance never lose them.
FormsKeepTheirFields ==
  [][meta' # meta \/ profile' # profile =>
       \E r \in Requests :
         /\ op[r] \in {"settings", "profile", "logo", "background"}
         /\ pc[r] # "done" /\ pc'[r] = "done"]_vars
============================================================================
