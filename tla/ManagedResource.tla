-------------------------- MODULE ManagedResource --------------------------
(***************************************************************************)
(* The life of the custom resources of one kind that each own one Harbor   *)
(* object: Label, Project, Registry, User, ReplicationPolicy,              *)
(* ScannerRegistration, WebhookPolicy, ImmutableTagRule, RetentionPolicy.  *)
(*                                                                         *)
(* One worker per kind reconciles a copy of a resource taken from the      *)
(* informer cache.  The copy may be old; every write of it to the API      *)
(* server is accepted only if no one has written the resource since the    *)
(* copy's version.  Users edit and delete resources, other Harbor clients  *)
(* change Harbor, Harbor calls fail (with or without effect) and the       *)
(* operator crashes between any two calls.  One action is one call to the  *)
(* API server or to Harbor together with the local code that follows it.   *)
(*                                                                         *)
(* A definition named X_Something before X is X with a bug; it is used     *)
(* only to show that a property notices that bug.                          *)
(***************************************************************************)
EXTENDS Integers, KindTraits

CONSTANTS
  Objects,          \* the custom resources, by namespace/name
  HarborName,       \* the Harbor name each resource asks for
  Kinds,            \* the kinds one of which the run is about
  Data,             \* desired payloads of a spec
  CreationPolicies, \* creation policies users choose from
  DeletionPolicies, \* deletion policies users choose from
  DriftDetection,   \* whether a drift detection interval is configured
  Env,              \* a Harbor client other than the operator
  MaxInc,           \* bound: how often a resource is created
  MaxGen,           \* bound: generations made by edits
  MaxUid,           \* bound: connection objects ever created
  MaxDisturb        \* bound: faults, crashes and out-of-band changes

ASSUME ConstantsAssumption ==
  /\ Objects # {} /\ Data # {}
  /\ Env \notin Objects
  /\ Kinds \subseteq AllKinds
  /\ CreationPolicies \subseteq {"Create", "Adopt", "CreateOrAdopt"}
  /\ DeletionPolicies \subseteq {"Delete", "Orphan"}
  /\ DriftDetection \in BOOLEAN

ASSUME BoundsAssumption ==
  MaxInc \in Nat /\ MaxGen \in Nat /\ MaxUid \in Nat /\ MaxDisturb \in Nat

ASSUME HarborNameAssumption == DOMAIN HarborName = Objects

VARIABLES
  kind,        \* which reconciler this is
  cr,          \* API server: the resources
  lastInc,     \* API server: incarnations of each resource so far
  cache,       \* informer cache: a copy of each resource, maybe old
  cacheFresh,  \* whether that copy is the API server's current version
  queue,       \* work queue
  timer,       \* resources with a RequeueAfter pending
  pc,          \* the worker's next call
  cur,         \* the resource it works on
  mem,         \* its in-memory copy
  memFresh,    \* whether that copy has the API server's current version
  err,         \* the error on its way to status, if any
  harbor,      \* live Harbor objects, each with the Harbor instance it is at
  lastId,      \* last object id given out by each Harbor instance
  conn,        \* UID of the connection object, 0 when there is none
  lastUid,     \* connection UIDs so far
  secret,      \* whether the connection's credentials Secret exists
  refReady,    \* whether the referenced resources and secrets resolve
  budget       \* disturbances still to come

apiVars    == <<cr, lastInc, cache, cacheFresh>>
workerVars == <<queue, timer, pc, cur, mem, memFresh, err>>
harborVars == <<harbor, lastId>>
worldVars  == <<conn, lastUid, secret, refReady, budget>>
vars == <<kind, apiVars, workerVars, harborVars, worldVars>>

-----------------------------------------------------------------------------
(* State *)

T == Traits[kind]

NotReadyReasons ==
  {"", "Reconciling", "NotFound", "ConnectionNotFound", "SecretNotFound",
   "ConnectionChanged", "ReferenceError", "CreationDenied", "Conflict",
   "HarborError"}
ReadyReasons == {"Created", "Reconciled"}
Reasons == NotReadyReasons \cup ReadyReasons

\* A resource: spec, metadata and status.  inc counts the incarnations of the
\* name and is 0 for a resource that does not exist.
Resource ==
  [inc: Nat, gen: Nat, deleting: BOOLEAN, fin: BOOLEAN,
   data: Data, creationPolicy: {"Create", "Adopt", "CreateOrAdopt"},
   deletionPolicy: {"Delete", "Orphan"},
   obsGen: Nat, reason: Reasons, bound: 0..MaxUid, id: Nat]

NoResource ==
  [inc |-> 0, gen |-> 0, deleting |-> FALSE, fin |-> FALSE,
   data |-> CHOOSE d \in Data : TRUE, creationPolicy |-> "Create",
   deletionPolicy |-> "Delete",
   obsGen |-> 0, reason |-> "", bound |-> 0, id |-> 0]

NewResource(n, d, cp, dp) ==
  [NoResource EXCEPT !.inc = n, !.gen = 1, !.data = d,
                     !.creationPolicy = cp, !.deletionPolicy = dp]

Exists(o) == cr[o].inc # 0

\* Who a Harbor object was made or last written by.
Clients == (Objects \X Nat) \cup {<<Env, 0>>}

HarborObject ==
  [at: 1..MaxUid, id: Nat, name: {HarborName[o] : o \in Objects}, data: Data,
   maker: Clients, writer: Clients]

PCs == {"idle", "mark", "bind", "client", "finalize", "unfinalize", "finalizer",
        "refs", "list", "adopted", "create", "lookup", "created", "get",
        "notFound", "update", "ready", "error"}

Init ==
  /\ kind \in Kinds
  /\ cr = [o \in Objects |-> NoResource]
  /\ lastInc = [o \in Objects |-> 0]
  /\ cache = [o \in Objects |-> NoResource]
  /\ cacheFresh = [o \in Objects |-> TRUE]
  /\ queue = {} /\ timer = {}
  /\ pc = "idle" /\ cur \in Objects /\ mem = NoResource /\ memFresh = FALSE
  /\ err = ""
  /\ harbor = {} /\ lastId = [u \in 1..MaxUid |-> 0]
  /\ lastUid = IF MaxUid > 0 THEN 1 ELSE 0
  /\ conn = lastUid
  /\ secret = TRUE /\ refReady \in BOOLEAN
  /\ budget = MaxDisturb

-----------------------------------------------------------------------------
(* How a reconcile goes on, ends, and writes to the API server *)

Goto(p, rec) ==
  /\ pc' = p /\ mem' = rec
  /\ UNCHANGED <<queue, timer, cur, memFresh, err>>

\* The reconcile ends; an error and Result{Requeue} both queue the resource
\* again, a success arms the drift detection timer.
Return(requeue, drift) ==
  /\ pc' = "idle" /\ mem' = NoResource /\ memFresh' = FALSE /\ err' = ""
  /\ queue' = IF requeue THEN queue \cup {cur} ELSE queue
  /\ timer' = IF drift /\ DriftDetection THEN timer \cup {cur} ELSE timer
  /\ UNCHANGED cur

\* Optimistic concurrency: the API server takes a write of the version it holds.
Accepted_Always == TRUE

Accepted == memFresh

Store(rec) ==
  /\ cr' = [cr EXCEPT ![cur] = rec]
  /\ cacheFresh' = [cacheFresh EXCEPT ![cur] = FALSE]

Refused == ~Accepted /\ UNCHANGED <<cr, cacheFresh>> /\ Return(TRUE, FALSE)

Persist(rec, p) ==
  \/ Accepted /\ Store(rec) /\ Goto(p, rec)
  \/ Refused

PersistAndReturn(rec, requeue, drift) ==
  \/ Accepted /\ Store(rec) /\ Return(requeue, drift)
  \/ Refused

\* conditions.go: status is written only if a condition or observedGeneration
\* changes; other status fields changed in memory are lost otherwise.
Changed(rec, reason) == rec.obsGen # rec.gen \/ rec.reason # reason

Marked_UnknownReason(rec, reason) ==
  [rec EXCEPT !.obsGen = rec.gen, !.reason = "Unknown"]

Marked(rec, reason) == [rec EXCEPT !.obsGen = rec.gen, !.reason = reason]

\* The conditions are put on whatever the API server holds by now.
SetStatusAndReturn_OnLatest(reason, requeue, drift) ==
  /\ IF Exists(cur)
     THEN Store([Marked(cr[cur], reason) EXCEPT !.id = mem.id])
     ELSE UNCHANGED <<cr, cacheFresh>>
  /\ Return(requeue, drift)

SetStatusAndReturn(reason, requeue, drift) ==
  IF Changed(mem, reason)
  THEN PersistAndReturn(Marked(mem, reason), requeue, drift)
  ELSE Return(requeue, drift) /\ UNCHANGED <<cr, cacheFresh>>

Fail_NotRetried(reason) == SetStatusAndReturn(reason, FALSE, FALSE)

Fail(reason) == SetStatusAndReturn(reason, TRUE, FALSE)

\* A Harbor call returned an error, which SetErrorStatus writes next.
CallFailed(reason) ==
  /\ pc' = "error" /\ err' = reason
  /\ UNCHANGED <<queue, timer, cur, mem, memFresh>>

Fault == budget > 0 /\ budget' = budget - 1

AllowsCreation(policy) == policy \in {"Create", "CreateOrAdopt"}
AllowsAdoption_Always(policy) == TRUE

AllowsAdoption(policy) == policy \in {"Adopt", "CreateOrAdopt"}

MayCreate == T.adopt = "onConflict" \/ AllowsCreation(mem.creationPolicy)

\* Where the reconcile goes after the references, the adoption, the finalizer.
ApplyPC(rec) == IF rec.id = 0 THEN "create" ELSE "get"
AcquiredPC(rec) == IF T.refs = "later" THEN "refs" ELSE ApplyPC(rec)
AcquirePC(rec) ==
  IF rec.id = 0 /\ T.adopt # "onConflict" /\ AllowsAdoption(rec.creationPolicy)
  THEN "list" ELSE AcquiredPC(rec)
HeldPC(rec) == IF T.refs = "first" THEN "refs" ELSE AcquirePC(rec)
ResolvedPC(rec) == IF T.refs = "first" THEN AcquirePC(rec) ELSE ApplyPC(rec)

\* Harbor objects the copy stands for, at the instance it is bound to.
Matching ==
  {x \in harbor : /\ x.at = mem.bound
                  /\ IF T.identity = "name" THEN x.name = HarborName[cur]
                                            ELSE x.data = mem.data}
Recorded == {x \in harbor : x.at = mem.bound /\ x.id = mem.id}

Me == <<cur, mem.inc>>

-----------------------------------------------------------------------------
(* The reconciler *)

LoadResource(o) ==
  /\ pc = "idle" /\ o \in queue
  /\ queue' = queue \ {o} /\ cur' = o
  /\ IF cache[o].inc = 0
     THEN pc' = "idle" /\ mem' = NoResource /\ memFresh' = FALSE
     ELSE pc' = "mark" /\ mem' = cache[o] /\ memFresh' = cacheFresh[o]
  /\ UNCHANGED <<kind, apiVars, timer, err, harborVars, worldVars>>

MarkReconcilingIfNeeded ==
  /\ pc = "mark"
  /\ IF mem.obsGen = mem.gen
     THEN Goto("bind", mem) /\ UNCHANGED <<cr, cacheFresh>>
     ELSE Persist(Marked(mem, "Reconciling"), "bind")
  /\ UNCHANGED <<kind, lastInc, cache, harborVars, worldVars>>

\* removeFinalizer: the resource being deleted, the API server drops it.
RemoveFinalizer ==
  IF mem.fin
  THEN PersistAndReturn(NoResource, FALSE, FALSE)
  ELSE Return(FALSE, FALSE) /\ UNCHANGED <<cr, cacheFresh>>

\* finalizeWithoutHarborConnection for an object that is not found, else
\* setErrorStatus.
WithoutConnection(reason, notFound) ==
  IF mem.deleting /\ notFound /\ mem.deletionPolicy = "Orphan"
  THEN RemoveFinalizer
  ELSE Fail(reason)

\* resolveHarborConnection, and the binding to the connection found.
GetHarborClientForObject ==
  /\ pc = "bind"
  /\ \/ conn = 0 /\ WithoutConnection("ConnectionNotFound", TRUE)
     \/ conn # 0 /\ mem.bound \notin {0, conn}
        /\ WithoutConnection("ConnectionChanged", FALSE)
     \/ conn # 0 /\ mem.bound = conn
        /\ Goto("client", mem) /\ UNCHANGED <<cr, cacheFresh>>
     \/ conn # 0 /\ mem.bound = 0
        /\ Persist([mem EXCEPT !.bound = conn], "client")
  /\ UNCHANGED <<kind, lastInc, cache, harborVars, worldVars>>

BuildHarborClient ==
  /\ pc = "client"
  /\ IF secret
     THEN /\ Goto(IF mem.deleting THEN "finalize" ELSE "finalizer", mem)
          /\ UNCHANGED <<cr, cacheFresh>>
     ELSE WithoutConnection("SecretNotFound", TRUE)
  /\ UNCHANGED <<kind, lastInc, cache, harborVars, worldVars>>

CleanupNeeded == mem.deletionPolicy # "Orphan" /\ mem.id # 0

CleanupFailed_Ignored == Goto("unfinalize", mem)

CleanupFailed ==
  IF T.cleanupErr THEN CallFailed("HarborError") ELSE Return(TRUE, FALSE)

\* finalizeIfDeleting with nothing to delete in Harbor.
FinalizeIfDeleting ==
  /\ pc = "finalize" /\ ~CleanupNeeded
  /\ RemoveFinalizer
  /\ UNCHANGED <<kind, lastInc, cache, harborVars, worldVars>>

\* An object that is gone already is an error.
DeleteRemote_NotFoundFails ==
  /\ pc = "finalize" /\ CleanupNeeded
  /\ harbor' = harbor \ Recorded
  /\ IF Recorded = {} THEN CleanupFailed ELSE Goto("unfinalize", mem)
  /\ UNCHANGED <<kind, apiVars, lastId, worldVars>>

\* finalizeIfDeleting, deleteFn: the object may be gone already (404).
DeleteRemote ==
  /\ pc = "finalize" /\ CleanupNeeded
  /\ \/ /\ T.cleanupRef /\ ~refReady
        /\ CleanupFailed /\ UNCHANGED <<harbor, budget>>
     \/ /\ T.cleanupRef => refReady
        /\ harbor' = harbor \ Recorded
        /\ \/ Goto("unfinalize", mem) /\ UNCHANGED budget
           \/ CleanupFailed /\ Fault
     \/ /\ T.cleanupRef => refReady
        /\ CleanupFailed /\ Fault /\ UNCHANGED harbor
  /\ UNCHANGED <<kind, apiVars, lastId, conn, lastUid, secret, refReady>>

FinalizeAfterCleanup ==
  /\ pc = "unfinalize"
  /\ RemoveFinalizer
  /\ UNCHANGED <<kind, lastInc, cache, harborVars, worldVars>>

EnsureFinalizer_Skipped ==
  /\ pc = "finalizer" /\ Goto(HeldPC(mem), mem)
  /\ UNCHANGED <<kind, apiVars, harborVars, worldVars>>

EnsureFinalizer ==
  /\ pc = "finalizer"
  /\ IF mem.fin
     THEN Goto(HeldPC(mem), mem) /\ UNCHANGED <<cr, cacheFresh>>
     ELSE Persist([mem EXCEPT !.fin = TRUE], HeldPC(mem))
  /\ UNCHANGED <<kind, lastInc, cache, harborVars, worldVars>>

ResolveReferences ==
  /\ pc = "refs"
  /\ IF refReady
     THEN Goto(ResolvedPC(mem), mem) /\ UNCHANGED <<cr, cacheFresh>>
     ELSE Fail("ReferenceError")
  /\ UNCHANGED <<kind, lastInc, cache, harborVars, worldVars>>

AdoptExisting ==
  /\ pc = "list"
  /\ \/ \E x \in Matching : Goto("adopted", [mem EXCEPT !.id = x.id])
        /\ UNCHANGED budget
     \/ Matching = {} /\ Goto(AcquiredPC(mem), mem) /\ UNCHANGED budget
     \/ CallFailed("HarborError") /\ Fault
  /\ UNCHANGED <<kind, apiVars, harborVars, conn, lastUid, secret, refReady>>

\* The adopted id is written to status at once, conditions left as they are.
PersistAdoption ==
  /\ pc = "adopted"
  /\ IF T.adopt = "continue" THEN Persist(mem, AcquiredPC(mem))
                             ELSE PersistAndReturn(mem, TRUE, FALSE)
  /\ UNCHANGED <<kind, lastInc, cache, harborVars, worldVars>>

RequireCreationAllowed ==
  /\ pc = "create" /\ ~MayCreate
  /\ Fail("CreationDenied")
  /\ UNCHANGED <<kind, lastInc, cache, harborVars, worldVars>>

NewObject ==
  [at |-> mem.bound, id |-> lastId[mem.bound] + 1, name |-> HarborName[cur],
   data |-> mem.data, maker |-> Me, writer |-> Me]

CreateRemote ==
  /\ pc = "create" /\ MayCreate
  /\ \/ /\ Matching # {}
        /\ IF T.adopt = "onConflict" THEN Goto("lookup", mem)
                                     ELSE CallFailed("Conflict")
        /\ UNCHANGED <<harborVars, budget>>
     \/ /\ Matching = {}
        /\ harbor' = harbor \cup {NewObject}
        /\ lastId' = [lastId EXCEPT ![mem.bound] = @ + 1]
        /\ \/ /\ IF T.createdId = "search" THEN Goto("lookup", mem)
                 ELSE Goto("created", [mem EXCEPT !.id = NewObject.id])
              /\ UNCHANGED budget
           \/ CallFailed("HarborError") /\ Fault
     \/ CallFailed("HarborError") /\ Fault /\ UNCHANGED harborVars
  /\ UNCHANGED <<kind, apiVars, conn, lastUid, secret, refReady>>

\* findMatchingRuleID after a creation, findExistingRetentionID after a refusal.
LookupRemote ==
  /\ pc = "lookup"
  /\ \/ \E x \in Matching :
          Goto(IF T.createdId = "search" THEN "created" ELSE "adopted",
               [mem EXCEPT !.id = x.id])
        /\ UNCHANGED budget
     \/ /\ Matching = {}
        /\ IF T.createdId = "search" THEN Goto("created", mem)
                                     ELSE CallFailed("HarborError")
        /\ UNCHANGED budget
     \/ CallFailed("HarborError") /\ Fault
  /\ UNCHANGED <<kind, apiVars, harborVars, conn, lastUid, secret, refReady>>

SetCreatedStatus ==
  /\ pc = "created"
  /\ SetStatusAndReturn("Created", FALSE, TRUE)
  /\ UNCHANGED <<kind, lastInc, cache, harborVars, worldVars>>

\* GET of the recorded object and comparison with the desired payload.
GetRemote ==
  /\ pc = "get"
  /\ \/ /\ Recorded = {} /\ Goto("notFound", [mem EXCEPT !.id = 0])
        /\ UNCHANGED budget
     \/ \E x \in Recorded :
          Goto(IF x.data = mem.data THEN "ready" ELSE "update", mem)
        /\ UNCHANGED budget
     \/ CallFailed("HarborError") /\ Fault
  /\ UNCHANGED <<kind, apiVars, harborVars, conn, lastUid, secret, refReady>>

\* The id cleared in memory reaches the API server only with the conditions.
RequeueOnRemoteNotFound ==
  /\ pc = "notFound"
  /\ SetStatusAndReturn("NotFound", TRUE, FALSE)
  /\ UNCHANGED <<kind, lastInc, cache, harborVars, worldVars>>

Overwrite(x) == [x EXCEPT !.data = mem.data, !.writer = Me]

UpdateRemote ==
  /\ pc = "update"
  /\ \/ /\ Recorded = {} /\ CallFailed("HarborError")
        /\ UNCHANGED <<harbor, budget>>
     \/ \E x \in Recorded :
          /\ harbor' = (harbor \ {x}) \cup {Overwrite(x)}
          /\ \/ Goto("ready", mem) /\ UNCHANGED budget
             \/ CallFailed("HarborError") /\ Fault
     \/ CallFailed("HarborError") /\ Fault /\ UNCHANGED harbor
  /\ UNCHANGED <<kind, apiVars, lastId, conn, lastUid, secret, refReady>>

SetReadyStatus ==
  /\ pc = "ready"
  /\ SetStatusAndReturn("Reconciled", FALSE, TRUE)
  /\ UNCHANGED <<kind, lastInc, cache, harborVars, worldVars>>

SetErrorStatus ==
  /\ pc = "error"
  /\ Fail(err)
  /\ UNCHANGED <<kind, lastInc, cache, harborVars, worldVars>>

Reconcile ==
  \/ MarkReconcilingIfNeeded \/ GetHarborClientForObject \/ BuildHarborClient
  \/ FinalizeIfDeleting \/ DeleteRemote \/ FinalizeAfterCleanup
  \/ EnsureFinalizer \/ ResolveReferences \/ AdoptExisting \/ PersistAdoption
  \/ RequireCreationAllowed \/ CreateRemote \/ LookupRemote
  \/ SetCreatedStatus \/ GetRemote \/ RequeueOnRemoteNotFound \/ UpdateRemote
  \/ SetReadyStatus \/ SetErrorStatus

-----------------------------------------------------------------------------
(* controller-runtime *)

\* The informer catches up and its event queues the resource.
SyncCache(o) ==
  /\ ~cacheFresh[o]
  /\ cache' = [cache EXCEPT ![o] = cr[o]]
  /\ cacheFresh' = [cacheFresh EXCEPT ![o] = TRUE]
  /\ queue' = queue \cup {o}
  /\ UNCHANGED <<kind, cr, lastInc, timer, pc, cur, mem, memFresh, err,
                 harborVars, worldVars>>

DriftTimer(o) ==
  /\ o \in timer
  /\ timer' = timer \ {o} /\ queue' = queue \cup {o}
  /\ UNCHANGED <<kind, apiVars, pc, cur, mem, memFresh, err, harborVars, worldVars>>

\* The operator stops between two calls; its successor lists everything.
Crash ==
  /\ Fault
  /\ pc' = "idle" /\ mem' = NoResource /\ memFresh' = FALSE /\ err' = ""
  /\ timer' = {} /\ queue' = {o \in Objects : Exists(o)}
  /\ cache' = cr /\ cacheFresh' = [o \in Objects |-> TRUE]
  /\ UNCHANGED <<kind, cr, lastInc, cur, harborVars, conn, lastUid, secret, refReady>>

-----------------------------------------------------------------------------
(* Users, through the API server *)

UserWrites(o, rec) ==
  /\ cr' = [cr EXCEPT ![o] = rec]
  /\ cacheFresh' = [cacheFresh EXCEPT ![o] = FALSE]
  /\ memFresh' = (memFresh /\ cur # o)
  /\ UNCHANGED <<kind, cache, queue, timer, pc, cur, mem, err, harborVars, worldVars>>

UserCreate(o) ==
  /\ ~Exists(o) /\ lastInc[o] < MaxInc
  /\ lastInc' = [lastInc EXCEPT ![o] = @ + 1]
  /\ \E d \in Data, cp \in CreationPolicies, dp \in DeletionPolicies :
       UserWrites(o, NewResource(lastInc[o] + 1, d, cp, dp))

UserEdit(o) ==
  /\ Exists(o) /\ cr[o].gen < MaxGen
  /\ \E d \in Data, dp \in DeletionPolicies :
       /\ <<d, dp>> # <<cr[o].data, cr[o].deletionPolicy>>
       /\ UserWrites(o, [cr[o] EXCEPT !.gen = @ + 1, !.data = d,
                                      !.deletionPolicy = dp])
  /\ UNCHANGED lastInc

\* A resource with a finalizer stays, marked for deletion, as a new generation.
UserDelete(o) ==
  /\ Exists(o) /\ ~cr[o].deleting
  /\ UserWrites(o, IF cr[o].fin
                   THEN [cr[o] EXCEPT !.deleting = TRUE, !.gen = @ + 1]
                   ELSE NoResource)
  /\ UNCHANGED lastInc

-----------------------------------------------------------------------------
(* The connection, its Secret, the references, and other Harbor clients *)

\* The connection watch queues every dependent resource the cache knows.
EnqueueDependents == queue' = queue \cup {o \in Objects : cache[o].inc # 0}

DeleteConnection ==
  /\ conn # 0 /\ Fault
  /\ conn' = 0 /\ EnqueueDependents
  /\ UNCHANGED <<kind, apiVars, timer, pc, cur, mem, memFresh, err, harborVars,
                 lastUid, secret, refReady>>

CreateConnection ==
  /\ conn = 0 /\ lastUid < MaxUid
  /\ lastUid' = lastUid + 1 /\ conn' = lastUid + 1
  /\ EnqueueDependents
  /\ UNCHANGED <<kind, apiVars, timer, pc, cur, mem, memFresh, err, harborVars,
                 secret, refReady, budget>>

LoseSecret ==
  /\ secret /\ Fault /\ secret' = FALSE
  /\ UNCHANGED <<kind, apiVars, workerVars, harborVars, conn, lastUid, refReady>>

RestoreSecret ==
  /\ ~secret /\ secret' = TRUE
  /\ UNCHANGED <<kind, apiVars, workerVars, harborVars, conn, lastUid, refReady, budget>>

LoseReference ==
  /\ refReady /\ Fault /\ refReady' = FALSE
  /\ UNCHANGED <<kind, apiVars, workerVars, harborVars, conn, lastUid, secret>>

ReferenceResolves ==
  /\ ~refReady /\ refReady' = TRUE
  /\ UNCHANGED <<kind, apiVars, workerVars, harborVars, conn, lastUid, secret, budget>>

\* Another client creates an object a resource asks for; Harbor refuses a
\* second one of the same name, or for a kind matched by content a second one of
\* the same content.
ForeignCreate ==
  /\ Fault
  /\ \E h \in 1..MaxUid, o \in Objects, d \in Data :
       /\ h <= lastUid
       /\ \A x \in harbor :
            x.at = h => IF T.identity = "name" THEN x.name # HarborName[o]
                                               ELSE x.data # d
       /\ harbor' = harbor \cup
            {[at |-> h, id |-> lastId[h] + 1, name |-> HarborName[o],
              data |-> d, maker |-> <<Env, 0>>, writer |-> <<Env, 0>>]}
       /\ lastId' = [lastId EXCEPT ![h] = @ + 1]
  /\ UNCHANGED <<kind, apiVars, workerVars, conn, lastUid, secret, refReady>>

ForeignUpdate ==
  /\ Fault
  /\ \E x \in harbor : \E d \in Data \ {x.data} :
       harbor' = (harbor \ {x}) \cup
                 {[x EXCEPT !.data = d, !.writer = <<Env, 0>>]}
  /\ UNCHANGED <<kind, apiVars, workerVars, lastId, conn, lastUid, secret, refReady>>

ForeignDelete ==
  /\ Fault
  /\ \E x \in harbor : harbor' = harbor \ {x}
  /\ UNCHANGED <<kind, apiVars, workerVars, lastId, conn, lastUid, secret, refReady>>

-----------------------------------------------------------------------------

Next ==
  \/ \E o \in Objects : LoadResource(o)
  \/ Reconcile
  \/ \E o \in Objects : SyncCache(o) \/ DriftTimer(o)
  \/ \E o \in Objects : UserCreate(o) \/ UserEdit(o) \/ UserDelete(o)
  \/ Crash \/ DeleteConnection \/ CreateConnection
  \/ LoseSecret \/ RestoreSecret \/ LoseReference \/ ReferenceResolves
  \/ ForeignCreate \/ ForeignUpdate \/ ForeignDelete

Spec == Init /\ [][Next]_vars

\* The worker and the informers run, the work queue is first-in first-out, a
\* pending timer fires; the operator's users restore a lost Secret and a lost
\* reference.  Nothing obliges anyone to recreate a connection.
Fairness ==
  /\ WF_vars(Reconcile)
  /\ \A o \in Objects : /\ SF_vars(LoadResource(o))
                        /\ WF_vars(SyncCache(o))
                        /\ WF_vars(DriftTimer(o))
  /\ WF_vars(RestoreSecret) /\ WF_vars(ReferenceResolves)

FairSpec == Spec /\ Fairness

-----------------------------------------------------------------------------
(* Safety *)

\* Every variable keeps its type.
TypeOK ==
  /\ kind \in Kinds
  /\ cr \in [Objects -> Resource]
  /\ lastInc \in [Objects -> Nat]
  /\ cache \in [Objects -> Resource]
  /\ cacheFresh \in [Objects -> BOOLEAN]
  /\ queue \subseteq Objects /\ timer \subseteq Objects
  /\ pc \in PCs /\ cur \in Objects
  /\ mem \in Resource /\ memFresh \in BOOLEAN
  /\ err \in Reasons
  /\ harbor \subseteq HarborObject
  /\ lastId \in [1..MaxUid -> Nat]
  /\ lastUid \in 0..MaxUid /\ conn \in 0..MaxUid
  /\ secret \in BOOLEAN /\ refReady \in BOOLEAN
  /\ budget \in Nat

\* A call by which the operator may change Harbor.
Mutation == CreateRemote \/ UpdateRemote \/ DeleteRemote

\* Whatever copy of a resource the worker acts on, it changes Harbor only for a
\* resource that is still at the API server in the same incarnation, holds the
\* finalizer there, and has the Harbor instance of the change recorded there as
\* its connection ("a Harbor API mutation can never happen before the object has
\* recorded its identity", getHarborClientForObject).
GuardedMutation ==
  [][Mutation =>
       \A x \in (harbor \ harbor') \cup (harbor' \ harbor) :
         /\ cr[cur].inc = mem.inc
         /\ cr[cur].fin
         /\ cr[cur].bound = x.at]_vars

\* A resource with a recorded id leaves the API server under deletionPolicy
\* Delete only after its Harbor object is gone, crashes, failed calls, edits of
\* the policy and stale copies notwithstanding (finalizeIfDeleting).
CleanedBeforeFinalized ==
  [][\A o \in Objects :
       /\ Exists(o) /\ cr'[o].inc = 0
       /\ cr[o].deletionPolicy = "Delete" /\ cr[o].id # 0
       => \A x \in harbor' : ~(x.at = cr[o].bound /\ x.id = cr[o].id)]_vars

\* Under creationPolicy Create a resource only ever records a Harbor object it
\* made itself, so it never overwrites or deletes another client's object, nor
\* one of another resource that asks for the same name (requireCreationAllowed,
\* allowsAdoption).  Kinds that take over on conflict, or that search for the id
\* of what they created, promise less.
CreatePolicyOwnsItsObject ==
  T.adopt # "onConflict" /\ T.createdId = "location" =>
    \A o \in Objects, x \in harbor :
      /\ Exists(o) /\ cr[o].creationPolicy = "Create"
      /\ x.at = cr[o].bound /\ x.id = cr[o].id
      => x.maker = <<o, cr[o].inc>>

Ready(o) == cr[o].obsGen = cr[o].gen /\ cr[o].reason \in ReadyReasons

\* When a resource is Ready for its current generation, and it was the last to
\* write its Harbor object, the object carries the payload of that generation:
\* no reconcile of an older copy undoes a newer one (setReadyStatus).
ReadyMeansApplied ==
  \A o \in Objects, x \in harbor :
    /\ Exists(o) /\ Ready(o)
    /\ x.at = cr[o].bound /\ x.id = cr[o].id
    /\ x.writer = <<o, cr[o].inc>>
    => x.data = cr[o].data

-----------------------------------------------------------------------------
(* Liveness, under FairSpec *)

\* The connection a resource being deleted cannot finish without.
CannotFinalize(o) ==
  \/ conn = 0 /\ cr[o].deletionPolicy = "Delete"
  \/ conn # 0 /\ cr[o].bound \notin {0, conn}

\* A deleted resource goes away, unless its connection is and stays missing
\* (under Delete) or is another object than the one it is bound to.
DeletionCompletes ==
  \A o \in Objects : []<>(~cr[o].deleting \/ CannotFinalize(o))

\* The Harbor object a resource records exists and carries its payload.
Applied(o) ==
  /\ Ready(o)
  /\ \E x \in harbor : /\ x.at = cr[o].bound /\ x.id = cr[o].id
                       /\ x.data = cr[o].data

Reconcilable(o) ==
  /\ Exists(o) /\ ~cr[o].deleting
  /\ conn # 0 /\ cr[o].bound \in {0, conn}
  /\ cr[o].creationPolicy = "CreateOrAdopt"

\* A recorded id whose object is gone while status already says NotFound: the
\* id is cleared only together with a change of conditions, so it stays.
StaleIdentity(o) ==
  /\ cr[o].obsGen = cr[o].gen /\ cr[o].reason = "NotFound" /\ cr[o].id # 0
  /\ \A x \in harbor : ~(x.at = cr[o].bound /\ x.id = cr[o].id)

\* Once disturbances end, every CreateOrAdopt resource with a usable connection
\* ends up Ready with its payload in Harbor and stays so, whatever failed, was
\* lost, was changed out of band or crashed before; the one exception is a
\* resource caught in StaleIdentity.
Converges ==
  \A o \in Objects : <>[](Reconcilable(o) => Applied(o) \/ StaleIdentity(o))

-----------------------------------------------------------------------------
(* What the documentation says and the code does not do *)

\* "Delete removes the corresponding Harbor resource before removing the
\* finalizer": where every deletionPolicy is Delete, a Harbor object made for a
\* resource does not outlive that incarnation of the resource.
NothingLeftBehind ==
  \A x \in harbor, o \in Objects :
    x.maker[1] = o => x.maker[2] = cr[o].inc

\* "setting Orphan allows them to be deleted from Kubernetes without Harbor
\* cleanup": a resource deleted under Orphan goes away.
OrphanDeletionCompletes ==
  \A o \in Objects : []<>~(cr[o].deleting /\ cr[o].deletionPolicy = "Orphan")

=============================================================================
