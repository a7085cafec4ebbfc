----------------------------- MODULE ModelServing -----------------------------
(***************************************************************************)
(* Local model servers.  A role of the agent is routed to a model id, a    *)
(* model id to a runtime; the registry owns the server of each role; the   *)
(* pool accounts for the memory of the models it admitted.  Background     *)
(* boots of Runtime::open and the requests of several clients to activate  *)
(* and remove models and endpoints work on all of them at once, a step at  *)
(* a time: the pool, the registry, the router and the database each have a *)
(* lock of their own.                                                      *)
(***************************************************************************)
EXTENDS ModelPool, ModelInstall

CONSTANTS
  Clients,
  Endpoint,   \* the id of an external server
  Openings    \* what Runtime::open may find and the boots it starts, see Init;
              \* requests bounds the clients' requests that follow

NoModel == "none"
Ids == Models \union {Endpoint, NoModel}
Threads == Clients \union Roles

\* A boot is of an installed model, for a role whose row does not name the
\* endpoint.
ASSUME ServingAssumption ==
  /\ NoModel \notin Models /\ Endpoint \notin Models \union {NoModel}
  /\ Clients \intersect Roles = {} /\ IsFiniteSet(Clients) /\ IsFiniteSet(Installers)
  /\ \A o \in Openings :
       /\ o.requests \in Nat /\ o.installs \in Nat /\ o.endpoint \in BOOLEAN
       /\ o.installed \subseteq Models /\ o.bound \in [Roles -> Ids]
       /\ o.boots \in [Roles -> o.installed \union {NoModel}]
       /\ \A r \in Roles : o.boots[r] # NoModel => o.bound[r] # Endpoint

Unavailable == [kind |-> "placeholder"]  \* NoModelRuntime, whatever its reason
External    == [kind |-> "endpoint"]
Server(m, n) == [kind |-> "server", id |-> m, n |-> n]
IsServer(rt) == rt.kind = "server"
NoServer == Unavailable

Idle == [pc |-> "idle"]

VARIABLES
  endpoint,   \* whether the endpoint is registered
  bound,      \* model_role_binding rows
  pool,       \* ModelPool.residents, least recently used first
  live,       \* ModelRuntimeRegistry
  route,      \* RoleRouter bindings (chains of length 1)
  runtimes,   \* RoleRouter runtimes by id
  stopped,    \* servers told to shut down
  booted,     \* servers started so far
  th,         \* what each boot and each client is doing
  ops,        \* requests still to come
  raced,      \* history: roles two operations worked on at once, or left on a
              \* stopped server by an endpoint that could not be used
  shared,     \* history: models of two roles, or of two operations at once
  unaccounted \* history: models evicted by a failed admission, or while booting

vars == <<storeVars, contested, cut, endpoint, bound, pool, live, route, runtimes, stopped, booted, th,
          ops, raced, shared, unaccounted>>

disk == <<storeVars, endpoint, bound>>
serving == <<live, route, runtimes, stopped>>

-----------------------------------------------------------------------------
(* Helpers.                                                                *)

\* RoleRouter::bind_single
BindSingle(r, id, rt) ==
  /\ route' = [route EXCEPT ![r] = id]
  /\ runtimes' = [runtimes EXCEPT ![id] = rt]

\* ModelRuntimeRegistry::roles_for_model
RolesFor(m) == {r \in Roles : live[r] # NoServer /\ live[r].id = m}

\* ModelRuntimeRegistry::take, and the shutdown of what it returns.
TakeDown(r) ==
  /\ live' = [live EXCEPT ![r] = NoServer]
  /\ stopped' = IF live[r] = NoServer THEN stopped ELSE stopped \union {live[r]}

Goto(t, pc) == th' = [th EXCEPT ![t].pc = pc]
Done(t) == th' = [th EXCEPT ![t] = Idle]

InFlight(t) == th[t] # Idle
Names(t) == IF InFlight(t) THEN {th[t].id} ELSE {}

-----------------------------------------------------------------------------
(* spawn_model_boot and model_activate: from the admission on the same.    *)

BeginActivate(c, r, id) ==
  /\ ~InFlight(c) /\ ops > 0 /\ ops' = ops - 1
  /\ IF id = Endpoint THEN endpoint ELSE id \in Installed
  /\ th' = [th EXCEPT ![c] = [pc |-> IF id = Endpoint THEN "external" ELSE "bind", role |-> r,
                              id |-> id, victims |-> <<>>, roles |-> {}]]
  /\ UNCHANGED <<disk, pool, serving, booted>>

\* The row is written first and unconditionally.
BindRow(t) ==
  /\ th[t].pc \in {"bind", "external"}
  /\ bound' = [bound EXCEPT ![th[t].role] = th[t].id]
  /\ Goto(t, IF th[t].pc = "bind" THEN "admit" ELSE "point")
  /\ UNCHANGED <<storeVars, endpoint, pool, serving, booted, ops>>

\* activate_endpoint: no server to start, one perhaps to stop, ...
StopForEndpoint(t) ==
  /\ th[t].pc = "point"
  /\ TakeDown(th[t].role)
  /\ Goto(t, "rewire")
  /\ UNCHANGED <<disk, pool, route, runtimes, booted, ops>>

PointAtEndpoint(t) ==
  /\ th[t].pc = "rewire"
  /\ BindSingle(th[t].role, Endpoint, External)
  /\ Done(t)
  /\ UNCHANGED <<disk, pool, live, stopped, booted, ops>>

\* ... and if endpoint_runtime fails, the role stays where it was.
EndpointFails(t) ==
  /\ th[t].pc = "rewire"
  /\ Done(t)
  /\ UNCHANGED <<disk, pool, serving, booted, ops>>

\* The manifest is gone: a boot says so, a request returns the error.
NoManifest(t) ==
  /\ th[t].pc = "admit" /\ th[t].id \notin Installed
  /\ IF t \in Roles THEN BindSingle(th[t].role, th[t].id, Unavailable)
                    ELSE UNCHANGED <<route, runtimes>>
  /\ Done(t)
  /\ UNCHANGED <<disk, pool, live, stopped, booted, ops>>

AdmitToPool(t) ==
  /\ th[t].pc = "admit" /\ th[t].id \in Installed
  /\ \E result \in {Admit(pool, th[t].id, th[t].role)} :
       /\ pool' = result.residents
       /\ IF result.fits
            THEN /\ th' = [th EXCEPT ![t].pc = "evict", ![t].victims = result.victims]
                 /\ UNCHANGED <<route, runtimes>>
            ELSE /\ BindSingle(th[t].role, th[t].id, Unavailable)
                 /\ Done(t)
  /\ UNCHANGED <<disk, live, stopped, booted, ops>>

\* Faulty variant of FindEvicted: the servers of a victim are left alone.
FindEvictedNone(t) ==
  /\ th[t].pc = "evict" /\ th[t].victims # <<>>
  /\ th' = [th EXCEPT ![t].victims = Tail(@)]
  /\ UNCHANGED <<disk, pool, serving, booted, ops>>

\* For each Evicted event the roles its model serves are looked up ...
FindEvicted(t) ==
  /\ th[t].pc = "evict" /\ th[t].roles = {} /\ th[t].victims # <<>>
  /\ th' = [th EXCEPT ![t].roles = RolesFor(Head(th[t].victims)),
                      ![t].pc = IF RolesFor(Head(th[t].victims)) = {} THEN "evict" ELSE "takedown",
                      ![t].victims = IF RolesFor(Head(th[t].victims)) = {} THEN Tail(@) ELSE @]
  /\ UNCHANGED <<disk, pool, serving, booted, ops>>

\* Faulty variant of TakeEvicted: the role keeps its route.
TakeEvictedOnly(t) ==
  /\ th[t].pc = "takedown"
  /\ \E r \in th[t].roles :
       /\ TakeDown(r) /\ UNCHANGED <<route, runtimes>>
       /\ th' = [th EXCEPT ![t].roles = @ \ {r},
                           ![t].pc = IF th[t].roles = {r} THEN "evict" ELSE @,
                           ![t].victims = IF th[t].roles = {r} THEN Tail(@) ELSE @]
  /\ UNCHANGED <<disk, pool, booted, ops>>

\* ... and each is taken, pointed at a placeholder and shut down.
TakeEvicted(t) ==
  /\ th[t].pc = "takedown"
  /\ \E r \in th[t].roles :
       /\ TakeDown(r)
       /\ IF live[r] # NoServer THEN BindSingle(r, Head(th[t].victims), Unavailable)
                                ELSE UNCHANGED <<route, runtimes>>
       /\ th' = [th EXCEPT ![t].roles = @ \ {r},
                           ![t].pc = IF th[t].roles = {r} THEN "evict" ELSE @,
                           ![t].victims = IF th[t].roles = {r} THEN Tail(@) ELSE @]
  /\ UNCHANGED <<disk, pool, booted, ops>>

\* boot_model_server answers /health, and the role is pointed at it.
BootSucceeds(t) ==
  /\ th[t].pc = "evict" /\ th[t].roles = {} /\ th[t].victims = <<>>
  /\ th[t].id \in Installed /\ (th[t].id \in SelfFetched \/ dirs[th[t].id].weights # NoFile)
  /\ booted' = booted + 1
  /\ BindSingle(th[t].role, th[t].id, Server(th[t].id, booted'))
  /\ th' = [th EXCEPT ![t] = [pc |-> "swap", role |-> @.role, id |-> @.id, n |-> booted']]
  /\ UNCHANGED <<disk, pool, live, stopped, ops>>

\* No engine, no weights, no answer: the model stays in the pool.
BootFails(t) ==
  /\ th[t].pc = "evict" /\ th[t].roles = {} /\ th[t].victims = <<>>
  /\ BindSingle(th[t].role, th[t].id, Unavailable)
  /\ Done(t)
  /\ UNCHANGED <<disk, pool, live, stopped, booted, ops>>

\* ModelRuntimeRegistry::swap, and the shutdown of the server it returns.
Swap(t) ==
  /\ th[t].pc = "swap"
  /\ live' = [live EXCEPT ![th[t].role] = Server(th[t].id, th[t].n)]
  /\ stopped' = IF live[th[t].role] = NoServer THEN stopped
                ELSE stopped \union {live[th[t].role]}
  /\ Done(t)
  /\ UNCHANGED <<disk, pool, route, runtimes, booted, ops>>

-----------------------------------------------------------------------------
(* model_remove and model_endpoint_remove.                                 *)

BeginRemove(c, m) ==
  /\ ~InFlight(c) /\ ops > 0 /\ ops' = ops - 1
  /\ th' = [th EXCEPT ![c] = [pc |-> IF RolesFor(m) = {} THEN "delete" ELSE "unserve", id |-> m,
                              roles |-> RolesFor(m)]]
  /\ UNCHANGED <<disk, pool, serving, booted>>

\* The role is pointed away first, then its server taken and shut down.
Unbind(c) ==
  /\ th[c].pc = "unserve"
  /\ \E r \in th[c].roles :
       /\ BindSingle(r, NoModel, Unavailable)
       /\ th' = [th EXCEPT ![c] = [pc |-> "stop", id |-> @.id, roles |-> @.roles \ {r}, role |-> r]]
  /\ UNCHANGED <<disk, pool, live, stopped, booted, ops>>

StopServer(c) ==
  /\ th[c].pc = "stop"
  /\ TakeDown(th[c].role)
  /\ th' = [th EXCEPT ![c] = [pc |-> IF @.roles = {} THEN "delete" ELSE "unserve", id |-> @.id,
                              roles |-> @.roles]]
  /\ UNCHANGED <<disk, pool, route, runtimes, booted, ops>>

\* ModelStore::remove: there is no manifest and nothing follows, or the
\* directory goes.
FindFiles(c) ==
  /\ th[c].pc = "delete"
  /\ IF th[c].id \in Installed THEN Goto(c, "erase") ELSE Done(c)
  /\ UNCHANGED <<disk, pool, serving, booted, ops>>

DeleteFiles(c) ==
  /\ th[c].pc = "erase"
  /\ \/ UnlinkFile(th[c].id) /\ UNCHANGED th
     \/ RemoveDir(th[c].id) /\ Goto(c, "clear") /\ UNCHANGED inst
  /\ UNCHANGED <<installs, endpoint, bound, pool, serving, booted, ops>>

\* An error on the way: what is left of the files stays, and so do the rows.
DeleteFails(c) ==
  /\ th[c].pc = "erase" /\ Done(c)
  /\ UNCHANGED <<disk, pool, serving, booted, ops>>

\* Faulty variant of ClearRows: the bindings stay.
ClearRowsNot(c) ==
  /\ th[c].pc = "clear" /\ Done(c)
  /\ UNCHANGED <<disk, pool, serving, booted, ops>>

\* clear_bindings_for
ClearRows(c) ==
  /\ th[c].pc = "clear"
  /\ bound' = [r \in Roles |-> IF bound[r] = th[c].id THEN NoModel ELSE bound[r]]
  /\ Done(c)
  /\ UNCHANGED <<storeVars, endpoint, pool, serving, booted, ops>>

\* model_endpoint_remove goes by the rows it reads.
BeginEndpointRemove(c) ==
  /\ ~InFlight(c) /\ ops > 0 /\ ops' = ops - 1
  /\ \E roles \in {{r \in Roles : bound[r] = Endpoint}} :
       route' = [r \in Roles |-> IF r \in roles THEN NoModel ELSE route[r]]
  /\ th' = [th EXCEPT ![c] = [pc |-> "forget", id |-> Endpoint]]
  /\ UNCHANGED <<disk, pool, live, runtimes, stopped, booted>>

ForgetEndpoint(c) ==
  /\ th[c].pc = "forget"
  /\ endpoint' = FALSE
  /\ IF endpoint THEN Goto(c, "clear") ELSE Done(c)
  /\ UNCHANGED <<storeVars, bound, pool, serving, booted, ops>>

\* model_endpoint_add registers the endpoint or replaces what it was.
AddEndpoint(c) ==
  /\ ~InFlight(c) /\ ops > 0 /\ ops' = ops - 1
  /\ endpoint' = TRUE
  /\ UNCHANGED <<storeVars, bound, pool, serving, booted, th>>

-----------------------------------------------------------------------------

\* Runtime::open: a role whose row names the endpoint is pointed at it; one
\* whose row names an installed model, or for which an installed one can be
\* derived, gets a boot of its own and a placeholder meanwhile.
Init ==
  \E o \in Openings :
    /\ dirs = [m \in Models |->
                 IF m \in o.installed
                   THEN [exists |-> TRUE, part |-> NoFile, manifest |-> TRUE,
                         weights |-> File([k \in 1 .. Size |-> "good"])]
                   ELSE NoDir]
    /\ inst = [i \in Installers |-> Resting] /\ installs = o.installs
    /\ contested = {} /\ cut = {}
    /\ endpoint = o.endpoint /\ bound = o.bound
    /\ pool = <<>>
    /\ live = [r \in Roles |-> NoServer]
    /\ route = [r \in Roles |-> IF o.bound[r] = Endpoint THEN Endpoint ELSE o.boots[r]]
    /\ runtimes = [id \in Ids |-> IF id = Endpoint THEN External ELSE Unavailable]
    /\ stopped = {} /\ booted = 0 /\ ops = o.requests
    /\ th = [t \in Threads |->
               IF t \in Roles /\ o.boots[t] # NoModel
                 THEN [pc |-> "admit", role |-> t, id |-> o.boots[t], victims |-> <<>>,
                       roles |-> {}]
                 ELSE Idle]
    /\ raced = {} /\ unaccounted = {}
    /\ shared = {m \in Models : \E r, q \in Roles : r # q /\ o.boots[r] = m /\ o.boots[q] = m}

BootStep(t) ==
  \/ BindRow(t) \/ StopForEndpoint(t) \/ PointAtEndpoint(t) \/ EndpointFails(t) \/ NoManifest(t)
  \/ AdmitToPool(t) \/ FindEvicted(t) \/ TakeEvicted(t) \/ BootSucceeds(t) \/ BootFails(t) \/ Swap(t)

RemoveStep(c) ==
  \/ Unbind(c) \/ StopServer(c) \/ FindFiles(c) \/ DeleteFiles(c) \/ DeleteFails(c) \/ ForgetEndpoint(c)
  \/ ClearRows(c)

Request(c) ==
  \/ \E r \in Roles, id \in Models \union {Endpoint} : BeginActivate(c, r, id)
  \/ \E m \in Models : BeginRemove(c, m)
  \/ BeginEndpointRemove(c) \/ AddEndpoint(c)

Install(i) ==
  /\ (\E m \in Models : BeginInstall(i, m)) \/ InstallStep(i)
  /\ UNCHANGED <<endpoint, bound, pool, serving, booted, th, ops>>

Step ==
  \/ \E i \in Installers : Install(i)
  \/ \E t \in Threads : BootStep(t)
  \/ \E c \in Clients : RemoveStep(c) \/ Request(c)

\* The roles an operation works on.
Works(op) ==
  IF op = Idle THEN {}
  ELSE (IF "role" \in DOMAIN op THEN {op.role} ELSE {})
       \union (IF "roles" \in DOMAIN op THEN op.roles ELSE {})

Overlap(at, what(_)) ==
  {x \in UNION {what(at[t]) : t \in Threads} :
     \E t, u \in Threads : t # u /\ x \in what(at[t]) \intersect what(at[u])}

Heads(op) == IF op = Idle THEN {} ELSE {op.id}

\* Who works on the files of m.
Removing(m) == {c \in Clients : InFlight(c) /\ th[c].pc \in {"delete", "erase"} /\ th[c].id = m}

\* Who is done with the step it was at.
Quits(pc) == {t \in Threads : th[t].pc = pc /\ th'[t] = Idle}

\* A removal that broke off is made up for by a manifest written anew, or by
\* one that goes through.
History ==
  /\ contested' = contested
       \union {m \in Models : Cardinality(Installing(m)') + Cardinality(Removing(m)') > 1}
  /\ cut' = {m \in cut \union {th[c].id : c \in Quits("erase")} :
                 dirs[m].manifest \/ ~(dirs'[m].manifest \/ \E c \in Quits("clear") : th[c].id = m)}
  /\ raced' = raced \union Overlap(th', Works)
       \union {r \in Roles : route'[r] # Endpoint /\ \E t \in Quits("rewire") : th[t].role = r}
  /\ shared' = shared \union Overlap(th', Heads)
       \union {m \in Models : \E r, q \in Roles : r # q /\ route'[r] = m /\ route'[q] = m}
  /\ unaccounted' = unaccounted
       \union {m \in Models : /\ Resident(pool, m) /\ ~Resident(pool', m)
                              /\ \/ \E t \in Threads : th[t].pc = "admit" /\ th'[t] = Idle
                                 \/ \E t \in Threads : m \in Names(t)}

Next == Step /\ History

Spec == Init /\ [][Next]_vars

-----------------------------------------------------------------------------
(* Properties.                                                             *)

Untouched(r) == \A t \in Threads : r \notin Works(th[t])
Apart(r, m) == r \notin raced /\ m \notin shared

\* While no two operations met at a role and no two roles share the model it
\* is routed to: a role is routed to a server only if that server is
\* registered for it, and a registered server is what its role is routed to,
\* unless the role was given a model that failed to start; a stopped server
\* is neither.
RoutedToItsServer ==
  \A r \in Roles : Untouched(r) /\ Apart(r, route[r]) =>
    /\ IsServer(runtimes[route[r]]) => live[r] = runtimes[route[r]] /\ live[r] \notin stopped
    /\ live[r] # NoServer => runtimes[route[r]] \in {live[r], Unavailable}

\* The memory the pool gives away is within its budget, and it knows of the
\* model of every registered server, unless a failed admission forgot it, it
\* was evicted while it started, or it is about to be stopped.
PoolAccounts ==
  /\ Used(pool) <= Budget
  /\ \A r \in Roles :
       LET m == live[r].id IN
       live[r] # NoServer /\ m \notin unaccounted =>
         \/ Resident(pool, m)
         \/ \E t \in Threads : /\ InFlight(t) /\ th[t].pc \in {"evict", "takedown"}
                               /\ \E i \in DOMAIN th[t].victims : th[t].victims[i] = m

\* A removed model leaves no server behind, nor a row unless its removal broke
\* off, except where another operation named it, or another process worked on
\* its files, at the time.
RemovedIsGone ==
  \A m \in Models \ Installed :
    m \notin shared \union contested /\ (\A t \in Threads : m \notin Names(t)) =>
      RolesFor(m) = {} /\ (m \in cut \/ \A r \in Roles : bound[r] # m)

\* A model that is installed has all of its weights, whatever was cancelled,
\* killed or sent wrong on the way, unless it is being removed or its last
\* removal broke off, or two processes installed it, or one removed it, at the
\* same time.
InstalledIsWhole ==
  \A m \in Installed \ (contested \union cut \union SelfFetched) :
    Whole(dirs[m].weights) \/ \E c \in Removing(m) : th[c].pc = "erase"

\* The manifest "is the source of truth for what is installed on disk", written
\* "once its download is verified" (manifest.rs): so also when a removal was
\* given up on an error, as long as nobody worked on the files beside it.
ManifestIsTruth ==
  \A m \in Installed \ (contested \union SelfFetched) :
    Whole(dirs[m].weights) \/ \E c \in Removing(m) : th[c].pc = "erase"

=============================================================================
