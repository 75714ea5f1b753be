----------------------------- MODULE Singleton -----------------------------
(***************************************************************************)
(* The resources that stand for a setting Harbor has once per instance,    *)
(* Configuration, GCSchedule, PurgeAuditSchedule and ScanAllSchedule, and  *)
(* Quota, which stands for one Harbor has once per project.                *)
(*                                                                         *)
(* Several resources, through several connection objects, may point at one *)
(* Harbor instance.  Before it touches Harbor a reconcile lists its peers  *)
(* in the informer cache and goes on only if it is the oldest of those     *)
(* that resolve to the same base URL.  The cache follows the API server's  *)
(* writes in their order, at any distance.  GCSchedule and                 *)
(* PurgeAuditSchedule decide from a hash in status whether to write;       *)
(* ScanAllSchedule and Configuration read Harbor first.  Quota has no      *)
(* election; it finds the quota of its project once, records the id, and   *)
(* reads Harbor first.  Deleting such a resource leaves Harbor as it is.   *)
(*                                                                         *)
(* A definition named X_Something before X is X with a bug; it is used     *)
(* only to show that a property notices that bug.                          *)
(***************************************************************************)
EXTENDS Integers, Sequences

CONSTANTS
  Objects,         \* the resources, by namespace/name
  Rank,            \* the order of their namespace/name
  Kinds,           \* the kinds one of which the run is about
  Data,            \* desired payloads of a spec
  Empty,           \* the payload of a Configuration or Quota without settings
  Conns,           \* names of connection objects
  ConnOf,          \* the connection each resource refers to
  Instances,       \* Harbor instances, by normalised base URL
  Urls,            \* the instances each connection may be created for
  DriftDetection,  \* whether a drift detection interval is configured
  Env,             \* a Harbor client other than the operator
  None,            \* no payload, no hash
  MaxInc,          \* bound: how often a resource is created
  MaxGen,          \* bound, per kind: generations made by edits
  MaxUid,          \* bound: connection objects ever created
  MaxNow,          \* bound: seconds that pass
  MaxLag,          \* bound: events the informer is behind when users write
  MaxDisturb       \* bound, per kind: faults, crashes and out-of-band changes

AllKinds ==
  {"Configuration", "GCSchedule", "PurgeAuditSchedule", "ScanAllSchedule", "Quota"}

ASSUME ConstantsAssumption ==
  /\ Objects # {} /\ Data # {} /\ Instances # {}
  /\ Env \notin Objects /\ None \notin Data
  /\ Kinds \subseteq AllKinds
  /\ DriftDetection \in BOOLEAN

ASSUME FunctionsAssumption ==
  /\ Rank \in [Objects -> Nat]
  /\ \A a, b \in Objects : a # b => Rank[a] # Rank[b]
  /\ ConnOf \in [Objects -> Conns]
  /\ Urls \in [Conns -> SUBSET Instances]

ASSUME BoundsAssumption ==
  /\ MaxInc \in Nat /\ MaxGen \in [AllKinds -> Nat] /\ MaxUid \in Nat
  /\ MaxNow \in Nat /\ MaxLag \in Nat /\ MaxDisturb \in [AllKinds -> Nat]

VARIABLES
  kind,       \* which reconciler this is
  cr,         \* API server: the resources
  lastInc,    \* API server: incarnations of each resource so far
  now,        \* API server: the clock, in seconds
  watch,      \* API server: writes the informer has yet to see, in order
  cache,      \* informer cache: a copy of each resource, maybe old
  queue,      \* work queue
  timer,      \* resources with a RequeueAfter pending
  pc,         \* the worker's next call
  cur,        \* the resource it works on
  mem,        \* its in-memory copy
  memFresh,   \* whether that copy has the API server's current version
  target,     \* the instance its Harbor client talks to
  dirty,      \* statusChanged: a status field differs from the loaded one
  err,        \* the error on its way to status, if any
  harbor,     \* the setting at each instance, its id, and who wrote it last
  conn,       \* connection objects; uid 0 when there is none
  lastUid,    \* connection UIDs so far
  secret,     \* whether the connections' credentials Secrets exist
  settings,   \* whether what the spec refers to resolves, and is editable
  budget      \* disturbances still to come

apiVars    == <<cr, lastInc, now, watch, cache>>
localVars  == <<pc, cur, mem, memFresh, target, dirty, err>>
workerVars == <<queue, timer, localVars>>
worldVars  == <<conn, lastUid, secret, settings, budget>>
vars == <<kind, apiVars, workerVars, harbor, worldVars>>

-----------------------------------------------------------------------------
(* State *)

NotReadyReasons ==
  {"", "Reconciling", "ConnectionNotFound", "SecretNotFound",
   "ConnectionChanged", "Conflict", "SettingsError", "NotFound", "HarborError"}
ReadyReasons == {"Created", "Reconciled", "Noop"}
Reasons == NotReadyReasons \cup ReadyReasons

\* hashParts of what a schedule consists of: equal for equal payloads only.
Hash(d) == <<"sha256", d>>

\* A resource; inc counts the incarnations of the name and is 0 for none.
Resource ==
  [inc: Nat, gen: Nat, createdAt: Nat, deleting: BOOLEAN, fin: BOOLEAN,
   data: Data, obsGen: Nat, reason: Reasons, bound: Nat,
   hash: {Hash(d) : d \in Data} \cup {None}, quotaId: Nat]

NoResource ==
  [inc |-> 0, gen |-> 0, createdAt |-> 0, deleting |-> FALSE, fin |-> FALSE,
   data |-> CHOOSE d \in Data : TRUE, obsGen |-> 0, reason |-> "",
   bound |-> 0, hash |-> None, quotaId |-> 0]

Exists(o) == cr[o].inc # 0

Writers == (Objects \X Nat) \cup {<<Env, 0>>}
\* Only the id of a quota changes: a project created again has a new quota.
Setting == [data: Data \cup {None}, writer: Writers, id: Nat]

Connection == [uid: Nat, url: Instances]

AnyObject == CHOOSE o \in Objects : TRUE
AnyInstance == CHOOSE i \in Instances : TRUE
NoConnection == [uid |-> 0, url |-> AnyInstance]

PCs == {"idle", "mark", "bind", "client", "finalize", "finalizer", "owner",
        "settings", "getSchedule", "getConfig", "create", "update", "created",
        "ready", "noop", "error", "project", "findQuota", "recordQuota", "getQuota"}

\* GCSchedule and PurgeAuditSchedule trust the hash in status.
ByHash == kind \in {"GCSchedule", "PurgeAuditSchedule"}

Payloads == IF kind \in {"Configuration", "Quota"} THEN Data ELSE Data \ {Empty}

Init ==
  /\ kind \in Kinds
  /\ cr = [o \in Objects |-> NoResource]
  /\ lastInc = [o \in Objects |-> 0]
  /\ now = 0 /\ watch = <<>>
  /\ cache = [o \in Objects |-> NoResource]
  /\ queue = {} /\ timer = {}
  /\ pc = "idle" /\ cur = AnyObject /\ mem = NoResource /\ memFresh = FALSE
  /\ target = AnyInstance /\ dirty = FALSE /\ err = ""
  /\ harbor = [i \in Instances |-> [data |-> None, writer |-> <<Env, 0>>, id |-> 1]]
  /\ conn = [c \in Conns |-> NoConnection]
  /\ lastUid = 0
  /\ secret = TRUE /\ settings = "ok"
  /\ budget = MaxDisturb[kind]

-----------------------------------------------------------------------------
(* How a reconcile goes on, ends, and writes to the API server *)

Goto(p, rec) ==
  /\ pc' = p /\ mem' = rec
  /\ UNCHANGED <<queue, timer, cur, memFresh, target, dirty, err>>

\* A status field other than the conditions changes in memory.
GotoDirty(p, rec) ==
  /\ pc' = p /\ mem' = rec /\ dirty' = TRUE
  /\ UNCHANGED <<queue, timer, cur, memFresh, target, err>>

ForgetLocals ==
  /\ pc' = "idle" /\ cur' = AnyObject /\ mem' = NoResource /\ memFresh' = FALSE
  /\ target' = AnyInstance /\ dirty' = FALSE /\ err' = ""

\* The reconcile ends; an error queues the resource again, a success arms the
\* drift detection timer.
Return(requeue, drift) ==
  /\ ForgetLocals
  /\ queue' = IF requeue THEN queue \cup {cur} ELSE queue
  /\ timer' = IF drift /\ DriftDetection THEN timer \cup {cur} ELSE timer

\* Every write of a resource reaches the informer later, in order.
Store(o, rec) ==
  /\ cr' = [cr EXCEPT ![o] = rec]
  /\ watch' = Append(watch, <<o, rec>>)

\* Optimistic concurrency: a write of a version that is no longer current fails.
Refused == ~memFresh /\ UNCHANGED <<cr, watch>> /\ Return(TRUE, FALSE)

Persist(rec, p) ==
  \/ memFresh /\ Store(cur, rec) /\ Goto(p, rec)
  \/ Refused

PersistAndReturn(rec, requeue, drift) ==
  \/ memFresh /\ Store(cur, rec) /\ Return(requeue, drift)
  \/ Refused

Changed(rec, reason) == rec.obsGen # rec.gen \/ rec.reason # reason

Marked_UnknownReason(rec, reason) ==
  [rec EXCEPT !.obsGen = rec.gen, !.reason = "Unknown"]

Marked(rec, reason) == [rec EXCEPT !.obsGen = rec.gen, !.reason = reason]

SetStatusAndReturn(write, reason, requeue, drift) ==
  IF write
  THEN PersistAndReturn(Marked(mem, reason), requeue, drift)
  ELSE Return(requeue, drift) /\ UNCHANGED <<cr, watch>>

Fail_NotRetried(reason) ==
  SetStatusAndReturn(Changed(mem, reason), reason, FALSE, FALSE)

Fail(reason) == SetStatusAndReturn(Changed(mem, reason), reason, TRUE, FALSE)

\* A Harbor call returned an error, which SetErrorStatus writes next.
CallFailed(reason) ==
  /\ pc' = "error" /\ err' = reason
  /\ UNCHANGED <<queue, timer, cur, mem, memFresh, target, dirty>>

Fault == budget > 0 /\ budget' = budget - 1

-----------------------------------------------------------------------------
(* The reconciler *)

CacheIsCurrent(o) == \A i \in DOMAIN watch : watch[i][1] # o

\* markReconcilingIfNeeded and ensureFinalizer write only if there is need to.
LoadedPC(rec) == IF rec.obsGen = rec.gen THEN "bind" ELSE "mark"
CheckedPC == IF kind = "Quota" THEN "project" ELSE "owner"
HeldPC(rec) == IF rec.fin THEN CheckedPC ELSE "finalizer"

LoadResource(o) ==
  /\ pc = "idle" /\ o \in queue
  /\ queue' = queue \ {o}
  /\ IF cache[o].inc = 0
     THEN UNCHANGED localVars
     ELSE /\ pc' = LoadedPC(cache[o]) /\ cur' = o
          /\ mem' = cache[o] /\ memFresh' = CacheIsCurrent(o)
          /\ UNCHANGED <<target, dirty, err>>
  /\ UNCHANGED <<kind, apiVars, timer, harbor, worldVars>>

MarkReconcilingIfNeeded ==
  /\ pc = "mark"
  /\ Persist(Marked(mem, "Reconciling"), "bind")
  /\ UNCHANGED <<kind, lastInc, now, cache, harbor, worldVars>>

\* removeFinalizer: the resource being deleted, the API server drops it.
RemoveFinalizer ==
  IF mem.fin
  THEN PersistAndReturn(NoResource, FALSE, FALSE)
  ELSE Return(FALSE, FALSE) /\ UNCHANGED <<cr, watch>>

\* As if the setting had to be cleaned up in Harbor.
WithoutConnection_CleanupRequired(reason, notFound) == Fail(reason)

\* finalizeWithoutHarborConnection, no remote cleanup being required whatever
\* the deletionPolicy, else setErrorStatus.
WithoutConnection(reason, notFound) ==
  IF mem.deleting /\ notFound THEN RemoveFinalizer ELSE Fail(reason)

\* resolveHarborConnection, and the binding to the connection found.  The
\* Harbor client built next talks to the base URL read here.
GetHarborClientForObject ==
  /\ pc = "bind"
  /\ LET c == conn[ConnOf[cur]] IN
     \/ c.uid = 0 /\ WithoutConnection("ConnectionNotFound", TRUE)
     \/ c.uid # 0 /\ mem.bound \notin {0, c.uid}
        /\ WithoutConnection("ConnectionChanged", FALSE)
     \/ /\ c.uid # 0 /\ mem.bound \in {0, c.uid}
        /\ mem.bound = 0 => memFresh
        /\ pc' = "client" /\ mem' = [mem EXCEPT !.bound = c.uid]
        /\ target' = c.url
        /\ IF mem.bound = 0 THEN Store(cur, mem') ELSE UNCHANGED <<cr, watch>>
        /\ UNCHANGED <<queue, timer, cur, memFresh, dirty, err>>
     \/ c.uid # 0 /\ mem.bound = 0 /\ Refused
  /\ UNCHANGED <<kind, lastInc, now, cache, harbor, worldVars>>

BuildHarborClient ==
  /\ pc = "client"
  /\ IF secret
     THEN /\ Goto(IF mem.deleting THEN "finalize" ELSE HeldPC(mem), mem)
          /\ UNCHANGED <<cr, watch>>
     ELSE WithoutConnection("SecretNotFound", TRUE)
  /\ UNCHANGED <<kind, lastInc, now, cache, harbor, worldVars>>

\* finalizeIfDeleting with a nil deleteFn.
FinalizeIfDeleting ==
  /\ pc = "finalize"
  /\ RemoveFinalizer
  /\ UNCHANGED <<kind, lastInc, now, cache, harbor, worldVars>>

EnsureFinalizer_Skipped ==
  /\ pc = "finalizer"
  /\ Goto(CheckedPC, mem)
  /\ UNCHANGED <<kind, apiVars, harbor, worldVars>>

EnsureFinalizer ==
  /\ pc = "finalizer"
  /\ Persist([mem EXCEPT !.fin = TRUE], CheckedPC)
  /\ UNCHANGED <<kind, lastInc, now, cache, harbor, worldVars>>

\* The order by which the owner is chosen: creation second, then name.
Older(a, ra, b, rb) ==
  \/ ra.createdAt < rb.createdAt
  \/ ra.createdAt = rb.createdAt /\ Rank[a] < Rank[b]

\* Peers with the same connection object only.
Peers_SameConnection(o) ==
  {p \in Objects \ {o} :
     /\ cache[p].inc # 0 /\ ~cache[p].deleting
     /\ ConnOf[p] = ConnOf[o]}

\* The connection is resolved again for the listing, and once per peer.
Peers(o) ==
  {p \in Objects \ {o} :
     /\ cache[p].inc # 0 /\ ~cache[p].deleting
     /\ conn[ConnOf[p]].uid # 0
     /\ conn[ConnOf[p]].url = conn[ConnOf[o]].url}

SingletonOwnerConflict_Youngest(o) ==
  \E p \in Peers(o) : Older(o, mem, p, cache[p])

SingletonOwnerConflict(o) ==
  \E p \in Peers(o) : Older(p, cache[p], o, mem)

\* GCSchedule and PurgeAuditSchedule: what to do follows from the hash alone.
CompareHash(rec) ==
  IF rec.hash = None THEN "create"
  ELSE IF rec.hash # Hash(rec.data) THEN "update" ELSE "ready"

OwnerPC(rec) ==
  CASE ByHash -> CompareHash(rec)
    [] kind = "ScanAllSchedule" -> "getSchedule"
    [] kind = "Configuration" -> "settings"

EnsureSingletonOwner ==
  /\ pc = "owner"
  /\ \/ conn[ConnOf[cur]].uid = 0 /\ Fail("ConnectionNotFound")
     \/ /\ conn[ConnOf[cur]].uid # 0
        /\ IF SingletonOwnerConflict(cur)
           THEN Fail("Conflict")
           ELSE Goto(OwnerPC(mem), mem) /\ UNCHANGED <<cr, watch>>
  /\ UNCHANGED <<kind, lastInc, now, cache, harbor, worldVars>>

\* Configuration: values may come from Secrets.
BuildDesiredSettings ==
  /\ pc = "settings"
  /\ IF settings = "unresolved"
     THEN Fail("SettingsError")
     ELSE /\ Goto(IF mem.data = Empty THEN "noop" ELSE "getConfig", mem)
          /\ UNCHANGED <<cr, watch>>
  /\ UNCHANGED <<kind, lastInc, now, cache, harbor, worldVars>>

WithHash(rec) == [rec EXCEPT !.hash = Hash(rec.data)]

\* ScanAllSchedule: what Harbor has decides; the hash only follows.
GetScanAllSchedule ==
  /\ pc = "getSchedule"
  /\ \/ /\ LET found == harbor[target].data IN
           \/ found = None /\ Goto("create", mem)
           \/ found \notin {None, mem.data} /\ Goto("update", mem)
           \/ /\ found = mem.data
              /\ IF mem.hash = Hash(mem.data) THEN Goto("ready", mem)
                                              ELSE GotoDirty("ready", WithHash(mem))
        /\ UNCHANGED budget
     \/ CallFailed("HarborError") /\ Fault
  /\ UNCHANGED <<kind, apiVars, harbor, conn, lastUid, secret, settings>>

\* Configuration: a setting that is not editable is an error, equal or not.
GetConfigurations ==
  /\ pc = "getConfig"
  /\ \/ /\ IF settings = "readonly" THEN CallFailed("SettingsError")
           ELSE Goto(IF harbor[target].data = mem.data THEN "ready" ELSE "update", mem)
        /\ UNCHANGED budget
     \/ CallFailed("HarborError") /\ Fault
  /\ UNCHANGED <<kind, apiVars, harbor, conn, lastUid, secret, settings>>

\* Quota: resolveProject.
ResolveProject ==
  /\ pc = "project"
  /\ IF settings = "unresolved"
     THEN Fail("SettingsError")
     ELSE /\ Goto(IF mem.quotaId = 0 THEN "findQuota" ELSE "getQuota", mem)
          /\ UNCHANGED <<cr, watch>>
  /\ UNCHANGED <<kind, lastInc, now, cache, harbor, worldVars>>

FindQuotaID ==
  /\ pc = "findQuota"
  /\ \/ /\ Goto("recordQuota", [mem EXCEPT !.quotaId = harbor[target].id])
        /\ UNCHANGED budget
     \/ CallFailed("HarborError") /\ Fault
  /\ UNCHANGED <<kind, apiVars, harbor, conn, lastUid, secret, settings>>

RecordQuotaID ==
  /\ pc = "recordQuota"
  /\ Persist(mem, "getQuota")
  /\ UNCHANGED <<kind, lastInc, now, cache, harbor, worldVars>>

\* requeueOnRemoteNotFound: the id is cleared in status only along with a change
\* of the conditions.
RequeueOnRemoteNotFound ==
  IF Changed(mem, "NotFound")
  THEN PersistAndReturn(Marked([mem EXCEPT !.quotaId = 0], "NotFound"), TRUE, FALSE)
  ELSE Return(TRUE, FALSE) /\ UNCHANGED <<cr, watch>>

GetQuota ==
  /\ pc = "getQuota"
  /\ \/ harbor[target].id # mem.quotaId /\ RequeueOnRemoteNotFound /\ UNCHANGED budget
     \/ /\ harbor[target].id = mem.quotaId
        /\ Goto(IF mem.data \in {Empty, harbor[target].data} THEN "ready" ELSE "update", mem)
        /\ UNCHANGED <<cr, watch, budget>>
     \/ CallFailed("HarborError") /\ Fault /\ UNCHANGED <<cr, watch>>
  /\ UNCHANGED <<kind, lastInc, now, cache, harbor, conn, lastUid, secret, settings>>

Me == <<cur, mem.inc>>

Overwrite ==
  harbor' = [harbor EXCEPT ![target].data = mem.data, ![target].writer = Me]

\* A write that succeeds, one that fails, one that fails after taking effect.
WriteRemote(onSuccess) ==
  /\ \/ Overwrite /\ onSuccess /\ UNCHANGED budget
     \/ Overwrite /\ CallFailed("HarborError") /\ Fault
     \/ UNCHANGED harbor /\ CallFailed("HarborError") /\ Fault
  /\ UNCHANGED <<kind, apiVars, conn, lastUid, secret, settings>>

CreateRemote ==
  /\ pc = "create"
  /\ WriteRemote(GotoDirty("created", WithHash(mem)))

UpdateRemote ==
  /\ pc = "update" /\ mem.quotaId \in {0, harbor[target].id}
  /\ WriteRemote(IF kind \in {"Configuration", "Quota"}
                 THEN Goto("ready", mem) ELSE GotoDirty("ready", WithHash(mem)))

UpdateVanishedQuota ==
  /\ pc = "update" /\ mem.quotaId \notin {0, harbor[target].id}
  /\ CallFailed("HarborError")
  /\ UNCHANGED <<kind, apiVars, harbor, worldVars>>

\* GCSchedule and PurgeAuditSchedule end a creation with setReadyStatus, which
\* writes if a condition changed; ScanAllSchedule goes by statusChanged too.
SetCreatedStatus ==
  /\ pc = "created"
  /\ SetStatusAndReturn(Changed(mem, "Created") \/ (dirty /\ ~ByHash),
                        "Created", FALSE, TRUE)
  /\ UNCHANGED <<kind, lastInc, now, cache, harbor, worldVars>>

\* The conditions are put on whatever the API server holds by now.
SetReadyStatus_OnLatest ==
  /\ pc = "ready"
  /\ IF Exists(cur) THEN Store(cur, Marked(cr[cur], "Reconciled"))
                    ELSE UNCHANGED <<cr, watch>>
  /\ Return(FALSE, TRUE)
  /\ UNCHANGED <<kind, lastInc, now, cache, harbor, worldVars>>

SetReadyStatus ==
  /\ pc = "ready"
  /\ SetStatusAndReturn(Changed(mem, "Reconciled") \/ dirty,
                        "Reconciled", FALSE, TRUE)
  /\ UNCHANGED <<kind, lastInc, now, cache, harbor, worldVars>>

SetNoopStatus ==
  /\ pc = "noop"
  /\ SetStatusAndReturn(Changed(mem, "Noop"), "Noop", FALSE, TRUE)
  /\ UNCHANGED <<kind, lastInc, now, cache, harbor, worldVars>>

SetErrorStatus ==
  /\ pc = "error"
  /\ Fail(err)
  /\ UNCHANGED <<kind, lastInc, now, cache, harbor, worldVars>>

Reconcile ==
  \/ MarkReconcilingIfNeeded \/ GetHarborClientForObject \/ BuildHarborClient
  \/ FinalizeIfDeleting \/ EnsureFinalizer \/ EnsureSingletonOwner
  \/ BuildDesiredSettings \/ GetScanAllSchedule \/ GetConfigurations
  \/ ResolveProject \/ FindQuotaID \/ RecordQuotaID \/ GetQuota
  \/ CreateRemote \/ UpdateRemote \/ UpdateVanishedQuota \/ SetCreatedStatus \/ SetReadyStatus \/ SetNoopStatus
  \/ SetErrorStatus

-----------------------------------------------------------------------------
(* controller-runtime *)

\* The informer takes the next event into the cache and queues its resource.
Deliver ==
  /\ watch # <<>>
  /\ LET o == Head(watch)[1] IN
     /\ cache' = [cache EXCEPT ![o] = Head(watch)[2]]
     /\ queue' = queue \cup {o}
  /\ watch' = Tail(watch)
  /\ UNCHANGED <<kind, cr, lastInc, now, timer, localVars, harbor, worldVars>>

DriftTimer(o) ==
  /\ o \in timer
  /\ timer' = timer \ {o} /\ queue' = queue \cup {o}
  /\ UNCHANGED <<kind, apiVars, localVars, harbor, worldVars>>

\* The operator stops between two calls; its successor lists everything.
Crash ==
  /\ Fault
  /\ ForgetLocals
  /\ timer' = {} /\ queue' = {o \in Objects : Exists(o)}
  /\ cache' = cr /\ watch' = <<>>
  /\ UNCHANGED <<kind, cr, lastInc, now, harbor, conn, lastUid, secret, settings>>

-----------------------------------------------------------------------------
(* Users, through the API server *)

UserWrites(o, rec) ==
  /\ Len(watch) < MaxLag /\ Store(o, rec)
  /\ memFresh' = (memFresh /\ cur # o)
  /\ UNCHANGED <<kind, now, cache, queue, timer, pc, cur, mem, target, dirty,
                 err, harbor, worldVars>>

UserCreate(o) ==
  /\ ~Exists(o) /\ lastInc[o] < MaxInc
  /\ lastInc' = [lastInc EXCEPT ![o] = @ + 1]
  /\ \E d \in Payloads :
       UserWrites(o, [NoResource EXCEPT !.inc = lastInc[o] + 1, !.gen = 1,
                                        !.createdAt = now, !.data = d])

\* A change of the payload, or of reconcileNonce only.
UserEdit(o) ==
  /\ Exists(o) /\ cr[o].gen < MaxGen[kind]
  /\ \E d \in Payloads : UserWrites(o, [cr[o] EXCEPT !.gen = @ + 1, !.data = d])
  /\ UNCHANGED lastInc

\* A resource with a finalizer stays, marked for deletion, as a new generation.
UserDelete(o) ==
  /\ Exists(o) /\ ~cr[o].deleting
  /\ UserWrites(o, IF cr[o].fin
                   THEN [cr[o] EXCEPT !.deleting = TRUE, !.gen = @ + 1]
                   ELSE NoResource)
  /\ UNCHANGED lastInc

\* Only the seconds of creations matter.
Tick ==
  /\ now < MaxNow /\ now' = now + 1
  /\ \E o \in Objects : lastInc[o] < MaxInc
  /\ UNCHANGED <<kind, cr, lastInc, watch, cache, workerVars, harbor, worldVars>>

-----------------------------------------------------------------------------
(* The connections, their Secrets, settings, and other Harbor clients *)

\* The connection watch queues every dependent resource the cache knows.
EnqueueDependents(c) ==
  queue' = queue \cup {o \in Objects : cache[o].inc # 0 /\ ConnOf[o] = c}

DeleteConnection(c) ==
  /\ conn[c].uid # 0 /\ Fault
  /\ conn' = [conn EXCEPT ![c] = NoConnection]
  /\ EnqueueDependents(c)
  /\ UNCHANGED <<kind, apiVars, timer, localVars, harbor, lastUid, secret, settings>>

\* baseURL is immutable once a connection object exists.
CreateConnection(c) ==
  /\ conn[c].uid = 0 /\ lastUid < MaxUid
  /\ lastUid' = lastUid + 1
  /\ \E i \in Urls[c] : conn' = [conn EXCEPT ![c] = [uid |-> lastUid + 1, url |-> i]]
  /\ EnqueueDependents(c)
  /\ UNCHANGED <<kind, apiVars, timer, localVars, harbor, secret, settings, budget>>

LoseSecret ==
  /\ secret /\ Fault /\ secret' = FALSE
  /\ UNCHANGED <<kind, apiVars, workerVars, harbor, conn, lastUid, settings>>

RestoreSecret ==
  /\ ~secret /\ secret' = TRUE
  /\ UNCHANGED <<kind, apiVars, workerVars, harbor, conn, lastUid, settings, budget>>

BreakSettings ==
  /\ kind \in {"Configuration", "Quota"} /\ settings = "ok" /\ Fault
  /\ settings' \in {"unresolved"} \cup IF kind = "Quota" THEN {} ELSE {"readonly"}
  /\ UNCHANGED <<kind, apiVars, workerVars, harbor, conn, lastUid, secret>>

RepairSettings ==
  /\ settings # "ok" /\ settings' = "ok"
  /\ UNCHANGED <<kind, apiVars, workerVars, harbor, conn, lastUid, secret, budget>>

ForeignWrite ==
  /\ Fault
  /\ \E i \in Instances : \E d \in (Payloads \ {Empty, harbor[i].data}) :
       harbor' = [harbor EXCEPT ![i].data = d, ![i].writer = <<Env, 0>>]
  /\ UNCHANGED <<kind, apiVars, workerVars, conn, lastUid, secret, settings>>

\* The project is deleted and created again.
RecreateProject ==
  /\ kind = "Quota" /\ Fault
  /\ \E i \in Instances :
       harbor' = [harbor EXCEPT ![i] =
                    [data |-> None, writer |-> <<Env, 0>>, id |-> harbor[i].id + 1]]
  /\ UNCHANGED <<kind, apiVars, workerVars, conn, lastUid, secret, settings>>

-----------------------------------------------------------------------------

Next ==
  \/ \E o \in Objects : LoadResource(o)
  \/ Reconcile
  \/ Deliver
  \/ \E o \in Objects : DriftTimer(o)
  \/ \E o \in Objects : UserCreate(o) \/ UserEdit(o) \/ UserDelete(o)
  \/ \E c \in Conns : DeleteConnection(c) \/ CreateConnection(c)
  \/ Tick \/ Crash \/ LoseSecret \/ RestoreSecret
  \/ BreakSettings \/ RepairSettings \/ ForeignWrite \/ RecreateProject

Spec == Init /\ [][Next]_vars

\* The worker and the informer run, the work queue is first-in first-out, a
\* pending timer fires; the operator's users restore lost Secrets and settings.
Fairness ==
  /\ WF_vars(Reconcile) /\ WF_vars(Deliver)
  /\ \A o \in Objects : SF_vars(LoadResource(o)) /\ WF_vars(DriftTimer(o))
  /\ WF_vars(RestoreSecret) /\ WF_vars(RepairSettings)

FairSpec == Spec /\ Fairness

-----------------------------------------------------------------------------
(* Safety *)

\* Every variable keeps its type.
TypeOK ==
  /\ kind \in Kinds
  /\ cr \in [Objects -> Resource]
  /\ lastInc \in [Objects -> Nat] /\ now \in Nat
  /\ watch \in Seq(Objects \X Resource)
  /\ cache \in [Objects -> Resource]
  /\ queue \subseteq Objects /\ timer \subseteq Objects
  /\ pc \in PCs /\ cur \in Objects /\ mem \in Resource
  /\ memFresh \in BOOLEAN /\ target \in Instances /\ dirty \in BOOLEAN
  /\ err \in Reasons
  /\ harbor \in [Instances -> Setting]
  /\ conn \in [Conns -> Connection] /\ lastUid \in Nat
  /\ secret \in BOOLEAN /\ settings \in {"ok", "unresolved", "readonly"}
  /\ budget \in Nat

\* The resource lives, and the connection it recorded still exists.
Holds(o) ==
  /\ Exists(o) /\ ~cr[o].deleting
  /\ cr[o].bound # 0 /\ conn[ConnOf[o]].uid = cr[o].bound

\* "The oldest CR remains owner": while a resource that wrote the setting of an
\* instance lives and holds its connection, no younger resource overwrites what
\* it wrote, whichever connection object leads there, however old the cache,
\* and whatever crashed or failed (ensureSingletonOwner).
NoTakeover ==
  [][(CreateRemote \/ UpdateRemote) /\ kind # "Quota" =>
       \A i \in Instances, p \in Objects \ {cur} :
         /\ harbor'[i] # harbor[i]
         /\ harbor[i].writer = <<p, cr[p].inc>>
         /\ Holds(p) /\ conn[ConnOf[p]].url = i
         => Older(cur, mem, p, cr[p])]_vars

\* A resource writes to Harbor only while it is at the API server in the same
\* incarnation, holds the finalizer, and has recorded the connection whose
\* instance it writes to, if that connection still exists.
GuardedWrite ==
  [][(CreateRemote \/ UpdateRemote) =>
       \A i \in Instances :
         harbor'[i] # harbor[i] =>
           /\ cr[cur].inc = mem.inc /\ cr[cur].fin
           /\ cr[cur].bound = mem.bound
           /\ conn[ConnOf[cur]].uid = mem.bound => conn[ConnOf[cur]].url = i]_vars

Ready(o) == cr[o].obsGen = cr[o].gen /\ cr[o].reason \in ReadyReasons

\* When a resource of a kind that reads Harbor before it decides is Ready for its
\* current generation, and it was the last to write the setting of its instance,
\* the setting is its payload (setReadyStatus, markReady).  With a hash in status
\* it need not be: see StaleHash.
ReadyMeansApplied ==
  ~ByHash =>
    \A o \in Objects, i \in Instances :
      /\ Exists(o) /\ Ready(o) /\ cr[o].data # Empty
      /\ harbor[i].writer = <<o, cr[o].inc>>
      /\ conn[ConnOf[o]].uid = cr[o].bound /\ conn[ConnOf[o]].url = i
      => harbor[i].data = cr[o].data

-----------------------------------------------------------------------------
(* Liveness, under FairSpec *)

Resolves(o) == Exists(o) /\ ~cr[o].deleting /\ conn[ConnOf[o]].uid # 0

Rivals(o) ==
  {p \in Objects \ {o} :
     Resolves(p) /\ conn[ConnOf[p]].url = conn[ConnOf[o]].url}

IsOwner(o) == Resolves(o) /\ \A p \in Rivals(o) : Older(o, cr[o], p, cr[p])

Usable(o) == cr[o].bound \in {0, conn[ConnOf[o]].uid}

\* What the hash in status cannot tell: it fits the payload, and Harbor has another
\* setting.  Somebody else wrote since, or the resource's own write took effect for
\* an edit that was put back before the status could be written.
StaleHash(o) ==
  /\ ByHash /\ cr[o].hash = Hash(cr[o].data)
  /\ harbor[conn[ConnOf[o]].url].data \notin {None, cr[o].data}

\* An id that is not cleared, the condition saying NotFound already.
StaleQuota(o) ==
  /\ cr[o].reason = "NotFound"
  /\ cr[o].quotaId \notin {0, harbor[conn[ConnOf[o]].url].id}

\* Once disturbances end, the oldest resource of an instance (and a Quota that is
\* alone) is Ready and its payload is what Harbor has, unless its hash is stale,
\* or its quota id is, or it is bound to a connection object that was replaced.
OwnerConverges ==
  \A o \in Objects :
    <>[](IsOwner(o) /\ Usable(o) /\ ~StaleQuota(o) =>
           /\ Ready(o)
           /\ cr[o].data # Empty /\ ~StaleHash(o) =>
                harbor[conn[ConnOf[o]].url].data = cr[o].data)

\* Once disturbances end, every other resource of the instance says Conflict.
OthersReportConflict ==
  \A o \in Objects :
    <>[](Resolves(o) /\ Usable(o) /\ ~IsOwner(o) =>
           cr[o].obsGen = cr[o].gen /\ cr[o].reason = "Conflict")

\* A deleted resource goes away, under either deletionPolicy and even without a
\* connection, unless it is bound to a connection object that was replaced.
DeletionCompletes ==
  \A o \in Objects :
    []<>(~cr[o].deleting \/ (conn[ConnOf[o]].uid # 0 /\ ~Usable(o)))

=============================================================================
