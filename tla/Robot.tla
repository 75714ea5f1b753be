------------------------------- MODULE Robot -------------------------------
(***************************************************************************)
(* The Robot reconciler: a robot account in Harbor whose credential the    *)
(* operator keeps in a Kubernetes Secret.                                  *)
(*                                                                         *)
(* Harbor hands a credential out once, in the answer to the call that made *)
(* it (POST, or PATCH to refresh).  The operator then has the only copy,   *)
(* in memory, until it is in the Secret; the status that remembers the     *)
(* robot is a third write.  The Secret is read through a cache of its own  *)
(* and may belong to somebody else; it is not watched.                     *)
(*                                                                         *)
(* A definition named X_Something before X is X with a bug; it is used     *)
(* only to show that a property notices that bug.                          *)
(***************************************************************************)
EXTENDS Integers

CONSTANTS
  Objects,           \* Robot resources, by namespace/name
  RobotName,         \* the name each asks for in Harbor
  Secrets,           \* Kubernetes Secrets, by namespace/name
  Dest,              \* the Secret each resource names when it is created
  Data,              \* permissions, description and flags of a spec
  CreationPolicies,  \* values of spec.creationPolicy that users choose
  DeletionPolicies,  \* values of spec.deletionPolicy that users choose
  DriftDetection,    \* whether a drift detection interval is configured
  Env,               \* another user of Harbor and of the cluster
  None,              \* no owner, no credential
  MaxInc,            \* bound: how often a resource is created
  MaxGen,            \* bound: generations made by edits
  MaxUid,            \* bound: connection objects ever created
  MaxNow,            \* bound: robot lifetimes that pass
  MaxDisturb,        \* bound: faults, crashes, losses and others' changes
  LateEvents         \* bound: whether edits and lifetimes follow a disturbance

ASSUME ConstantsAssumption ==
  /\ Objects # {} /\ Data # {}
  /\ Dest \in [Objects -> Secrets]
  /\ DOMAIN RobotName = Objects
  /\ CreationPolicies # {}
  /\ CreationPolicies \subseteq {"Create", "Adopt", "CreateOrAdopt"}
  /\ DeletionPolicies # {} /\ DeletionPolicies \subseteq {"Delete", "Orphan"}
  /\ DriftDetection \in BOOLEAN
  /\ {Env, None} \cap Objects = {} /\ Env # None /\ None \notin Data

ASSUME BoundsAssumption ==
  /\ MaxInc \in Nat /\ MaxGen \in Nat /\ MaxUid \in Nat
  /\ MaxNow \in Nat /\ MaxDisturb \in Nat /\ LateEvents \in BOOLEAN

VARIABLES
  cr,          \* API server: the Robot resources
  lastInc,     \* API server: incarnations of each name so far
  cache,       \* informer cache of the resources
  cacheFresh,  \* whether that copy is the API server's version
  sec,         \* API server: the Secrets
  secCache,    \* informer cache of the Secrets
  secFresh,    \* whether that copy is the API server's version
  queue,       \* work queue
  timer,       \* resources with a RequeueAfter pending
  pc,          \* the worker's next call
  cur,         \* the resource it works on
  mem,         \* its in-memory copy
  memFresh,    \* whether that copy has the API server's current version
  seen,        \* the expiry GetRobotByID reported
  cred,        \* the credential in the worker's hands
  dirty,       \* statusChanged
  err,         \* the error on its way to status, if any
  robots,      \* Harbor's robot accounts
  lastId,      \* Harbor: ids given out so far
  now,         \* lifetimes passed
  conn,        \* UID of the connection object, 0 when there is none
  lastUid,     \* connection UIDs so far
  stored,      \* history: the credentials ever put into a Secret
  budget       \* disturbances still to come

crVars     == <<cr, lastInc, cache, cacheFresh>>
secVars    == <<sec, secCache, secFresh, stored>>
localVars  == <<pc, cur, mem, memFresh, seen, cred, dirty, err>>
robotVars  == <<robots, lastId>>
connVars   == <<conn, lastUid>>
vars == <<crVars, secVars, queue, timer, localVars, robotVars, now, connVars, budget>>

-----------------------------------------------------------------------------
(* State *)

NotReadyReasons ==
  {"", "Reconciling", "ConnectionNotFound", "SecretNotFound",
   "ConnectionChanged", "CreationDenied", "ReferenceError", "Conflict",
   "NotFound", "SecretError", "HarborError"}
ReadyReasons == {"Created", "Reconciled"}
Reasons == NotReadyReasons \cup ReadyReasons

\* A credential: the robot it opens and its number among that robot's.
Credential == Nat \X Nat

\* A resource; inc counts the incarnations of the name and is 0 for none,
\* rotated stands for lastRotatedAt and names the credential it announces.
Resource ==
  [inc: Nat, gen: Nat, deleting: BOOLEAN, fin: BOOLEAN, data: Data,
   dest: Secrets, creationPolicy: CreationPolicies,
   deletionPolicy: DeletionPolicies, obsGen: Nat, reason: Reasons, bound: Nat,
   id: Nat, exp: Nat, rotated: Credential \cup {None}]

AnyObject == CHOOSE o \in Objects : TRUE

NoResource ==
  [inc |-> 0, gen |-> 0, deleting |-> FALSE, fin |-> FALSE,
   data |-> CHOOSE d \in Data : TRUE, dest |-> Dest[AnyObject],
   creationPolicy |-> CHOOSE p \in CreationPolicies : TRUE,
   deletionPolicy |-> CHOOSE p \in DeletionPolicies : TRUE,
   obsGen |-> 0, reason |-> "", bound |-> 0, id |-> 0, exp |-> 0,
   rotated |-> None]

Exists(o) == cr[o].inc # 0

\* A Secret: who its ownership metadata names (None: there is no such Secret)
\* and the credential under the token key.
Secret == [owner: Objects \cup {Env, None}, cred: Credential \cup {None}]
NoSecret == [owner |-> None, cred |-> None]

\* A robot account: data is None if it is not what any spec asks for, exp is its expires_at, 0 for one that never expires.
RobotAccount ==
  [id: Nat, name: {RobotName[o] : o \in Objects}, data: Data \cup {None},
   cred: Nat, exp: Nat]

PCs == {"idle", "mark", "bind", "noSecret", "finalize", "unfinalize",
        "finalizer", "list", "adopted", "create", "rotateNew", "storeNew",
        "created", "get", "notFound", "update", "rotate", "store", "again",
        "ready", "error"}

Init ==
  /\ cr = [o \in Objects |-> NoResource]
  /\ lastInc = [o \in Objects |-> 0]
  /\ cache = [o \in Objects |-> NoResource]
  /\ cacheFresh = [o \in Objects |-> TRUE]
  /\ sec = [s \in Secrets |-> NoSecret]
  /\ secCache = [s \in Secrets |-> NoSecret]
  /\ secFresh = [s \in Secrets |-> TRUE]
  /\ queue = {} /\ timer = {}
  /\ pc = "idle" /\ cur = AnyObject /\ mem = NoResource /\ memFresh = FALSE
  /\ seen = 0 /\ cred = None /\ dirty = FALSE /\ err = ""
  /\ robots = {} /\ lastId = 0 /\ now = 0
  /\ lastUid = IF MaxUid > 0 THEN 1 ELSE 0
  /\ conn = lastUid
  /\ stored = {} /\ budget = MaxDisturb

-----------------------------------------------------------------------------
(* How a reconcile goes on, ends, and writes to the API server *)

\* The next call, with s, c and d for seen, cred and dirty.
Move(p, rec, s, c, d) ==
  /\ pc' = p /\ mem' = rec /\ seen' = s /\ cred' = c /\ dirty' = d
  /\ UNCHANGED <<queue, timer, cur, memFresh, err>>

Goto(p, rec) == Move(p, rec, seen, cred, dirty)

ForgetLocals ==
  /\ pc' = "idle" /\ cur' = AnyObject /\ mem' = NoResource /\ memFresh' = FALSE
  /\ seen' = 0 /\ cred' = None /\ dirty' = FALSE /\ err' = ""

Return(requeue, drift) ==
  /\ ForgetLocals
  /\ queue' = IF requeue THEN queue \cup {cur} ELSE queue
  /\ timer' = IF drift /\ DriftDetection THEN timer \cup {cur} ELSE timer

Store(o, rec) ==
  /\ cr' = [cr EXCEPT ![o] = rec]
  /\ cacheFresh' = [cacheFresh EXCEPT ![o] = FALSE]

KeepResources == UNCHANGED <<cr, cacheFresh>>

\* Optimistic concurrency: a write of a version that is no longer current fails.
Refused == ~memFresh /\ KeepResources /\ Return(TRUE, FALSE)

Persist(rec, p) ==
  \/ memFresh /\ Store(cur, rec) /\ Goto(p, rec)
  \/ Refused

PersistAndReturn(rec, requeue, drift) ==
  \/ memFresh /\ Store(cur, rec) /\ Return(requeue, drift)
  \/ Refused

Changed(rec, reason) == rec.obsGen # rec.gen \/ rec.reason # reason

Marked_UnknownReason(rec, reason) ==
  [rec EXCEPT !.obsGen = rec.gen, !.reason = "Unknown"]

Marked(rec, reason) == [rec EXCEPT !.obsGen = rec.gen, !.reason = reason]

SetStatusAndReturn(write, reason, requeue, drift) ==
  IF write
  THEN PersistAndReturn(Marked(mem, reason), requeue, drift)
  ELSE Return(requeue, drift) /\ KeepResources

Fail(reason) == SetStatusAndReturn(Changed(mem, reason), reason, TRUE, FALSE)

\* A call returned an error, which SetErrorStatus writes next.
CallFailed(reason) ==
  /\ pc' = "error" /\ err' = reason
  /\ UNCHANGED <<queue, timer, cur, mem, memFresh, seen, cred, dirty>>

Fault == budget > 0 /\ budget' = budget - 1
NoFault == UNCHANGED budget
InTime == budget = MaxDisturb \/ LateEvents

-----------------------------------------------------------------------------
(* The reconciler: what it shares with the other kinds *)

\* markReconcilingIfNeeded and ensureFinalizer write only if there is need to.
LoadedPC(rec) == IF rec.obsGen = rec.gen THEN "bind" ELSE "mark"

LoadResource(o) ==
  /\ pc = "idle" /\ o \in queue
  /\ queue' = queue \ {o}
  /\ IF cache[o].inc = 0
     THEN UNCHANGED localVars
     ELSE /\ pc' = LoadedPC(cache[o]) /\ cur' = o
          /\ mem' = cache[o] /\ memFresh' = cacheFresh[o]
          /\ UNCHANGED <<seen, cred, dirty, err>>
  /\ UNCHANGED <<crVars, secVars, timer, robotVars, now, connVars, budget>>

MarkReconcilingIfNeeded ==
  /\ pc = "mark"
  /\ Persist(Marked(mem, "Reconciling"), "bind")
  /\ UNCHANGED <<lastInc, cache, secVars, robotVars, now, connVars, budget>>

\* removeFinalizer: the resource being deleted, the API server drops it.
RemoveFinalizer ==
  IF mem.fin
  THEN PersistAndReturn(NoResource, FALSE, FALSE)
  ELSE Return(FALSE, FALSE) /\ KeepResources

\* finalizeWithoutHarborConnection for an object that is not found, else
\* setErrorStatus.
WithoutConnection(reason, notFound) ==
  IF mem.deleting /\ notFound /\ mem.deletionPolicy = "Orphan"
  THEN RemoveFinalizer
  ELSE Fail(reason)

AllowsCreation(policy) == policy \in {"Create", "CreateOrAdopt"}
AllowsAdoption(policy) == policy \in {"Adopt", "CreateOrAdopt"}

HeldPC(rec) ==
  CASE rec.id # 0 -> "get"
    [] rec.id = 0 /\ AllowsAdoption(rec.creationPolicy) -> "list"
    [] OTHER -> "create"

BoundPC(rec) ==
  CASE rec.deleting -> "finalize"
    [] ~rec.deleting /\ ~rec.fin -> "finalizer"
    [] OTHER -> HeldPC(rec)

\* The connection and the binding to it; the Secret with the connection's own
\* credentials, which is read next, may be missing.
GetHarborClientForObject ==
  /\ pc = "bind"
  /\ \/ conn = 0 /\ WithoutConnection("ConnectionNotFound", TRUE) /\ NoFault
     \/ conn # 0 /\ mem.bound \notin {0, conn}
        /\ WithoutConnection("ConnectionChanged", FALSE) /\ NoFault
     \/ conn # 0 /\ mem.bound = conn /\ KeepResources
        /\ \/ Goto(BoundPC(mem), mem) /\ NoFault
           \/ Goto("noSecret", mem) /\ Fault
     \/ conn # 0 /\ mem.bound = 0
        /\ LET bound == [mem EXCEPT !.bound = conn] IN
           \/ Persist(bound, BoundPC(mem)) /\ NoFault
           \/ Persist(bound, "noSecret") /\ Fault
  /\ UNCHANGED <<lastInc, cache, secVars, robotVars, now, connVars>>

\* buildHarborClient does not find the Secret of the connection.
BuildHarborClientFails ==
  /\ pc = "noSecret"
  /\ WithoutConnection("SecretNotFound", TRUE)
  /\ UNCHANGED <<lastInc, cache, secVars, robotVars, now, connVars, budget>>

Recorded == {x \in robots : x.id = mem.id}
Matching == {x \in robots : x.name = RobotName[cur]}

CleanupNeeded == mem.deletionPolicy # "Orphan" /\ mem.id # 0

FinalizeIfDeleting ==
  /\ pc = "finalize" /\ ~CleanupNeeded
  /\ RemoveFinalizer
  /\ UNCHANGED <<lastInc, cache, secVars, robotVars, now, connVars, budget>>

\* A robot that is gone already is an error.
DeleteRobot_NotFoundFails ==
  /\ pc = "finalize" /\ CleanupNeeded
  /\ robots' = robots \ Recorded
  /\ IF Recorded = {} THEN Return(TRUE, FALSE) ELSE Goto("unfinalize", mem)
  /\ UNCHANGED <<crVars, secVars, lastId, now, connVars, budget>>

\* The robot may be gone already (404); a failure does not reach status.
DeleteRobot ==
  /\ pc = "finalize" /\ CleanupNeeded
  /\ \/ robots' = robots \ Recorded /\ Goto("unfinalize", mem) /\ NoFault
     \/ robots' \in {robots, robots \ Recorded} /\ Return(TRUE, FALSE) /\ Fault
  /\ UNCHANGED <<crVars, secVars, lastId, now, connVars>>

FinalizeAfterCleanup ==
  /\ pc = "unfinalize"
  /\ RemoveFinalizer
  /\ UNCHANGED <<lastInc, cache, secVars, robotVars, now, connVars, budget>>

EnsureFinalizer ==
  /\ pc = "finalizer"
  /\ Persist([mem EXCEPT !.fin = TRUE], HeldPC(mem))
  /\ UNCHANGED <<lastInc, cache, secVars, robotVars, now, connVars, budget>>

SetErrorStatus ==
  /\ pc = "error"
  /\ Fail(err)
  /\ UNCHANGED <<lastInc, cache, secVars, robotVars, now, connVars, budget>>

-----------------------------------------------------------------------------
(* The reconciler: robots and their credentials *)

AdoptExisting ==
  /\ pc = "list"
  /\ \/ \E x \in Matching : Goto("adopted", [mem EXCEPT !.id = x.id]) /\ NoFault
     \/ Matching = {} /\ Goto("create", mem) /\ NoFault
     \/ CallFailed("HarborError") /\ Fault
  /\ UNCHANGED <<crVars, secVars, robotVars, now, connVars>>

\* findAndAdoptRobot writes the id at once; the credential stays unknown.
PersistAdoption ==
  /\ pc = "adopted"
  /\ Persist(mem, "get")
  /\ UNCHANGED <<lastInc, cache, secVars, robotVars, now, connVars, budget>>

RequireCreationAllowed ==
  /\ pc = "create" /\ ~AllowsCreation(mem.creationPolicy)
  /\ Fail("CreationDenied")
  /\ UNCHANGED <<lastInc, cache, secVars, robotVars, now, connVars, budget>>

\* Robots live for a while from now, or for ever if there is no expiry.
Expiry == IF MaxNow = 0 THEN 0 ELSE now + 1

NewRobot == [id |-> lastId + 1, name |-> RobotName[cur], data |-> mem.data,
             cred |-> 1, exp |-> Expiry]

\* The answer has the credential, or is empty and a refresh must produce one.
CreateRobot ==
  /\ pc = "create" /\ AllowsCreation(mem.creationPolicy)
  /\ \/ Matching # {} /\ CallFailed("Conflict") /\ UNCHANGED robotVars /\ NoFault
     \/ /\ Matching = {}
        /\ robots' = robots \cup {NewRobot} /\ lastId' = lastId + 1
        /\ LET known == [mem EXCEPT !.id = NewRobot.id] IN
           \/ Move("storeNew", known, 0, <<NewRobot.id, 1>>, FALSE) /\ NoFault
           \/ Goto("rotateNew", known) /\ NoFault
           \/ CallFailed("HarborError") /\ Fault
     \/ /\ CallFailed("ReferenceError") \/ CallFailed("HarborError")
        /\ Fault /\ UNCHANGED robotVars
  /\ UNCHANGED <<crVars, secVars, now, connVars>>

SetCreatedStatus ==
  /\ pc = "created"
  /\ SetStatusAndReturn(Changed(mem, "Created"), "Created", FALSE, TRUE)
  /\ UNCHANGED <<lastInc, cache, secVars, robotVars, now, connVars, budget>>

\* updateRobotExpiryStatus and shouldRotateRobot.
RecordExpiry(e) ==
  Move(IF e > 0 /\ now >= e THEN "rotate" ELSE "ready",
       [mem EXCEPT !.exp = e], 0, None, dirty \/ e # mem.exp)

\* syncRobotUsernameSecret: the cached Secret is this robot's, or missing.
SecretInOrder == secCache[mem.dest].owner \in {None, cur}

GetRobot ==
  /\ pc = "get"
  /\ \/ Recorded = {} /\ Goto("notFound", [mem EXCEPT !.id = 0]) /\ NoFault
     \/ Recorded # {} /\ ~SecretInOrder /\ CallFailed("SecretError") /\ NoFault
     \/ \E x \in Recorded :
          /\ SecretInOrder
          /\ IF x.data = mem.data THEN RecordExpiry(x.exp)
                                  ELSE Move("update", mem, x.exp, None, dirty)
          /\ NoFault
     \/ (CallFailed("ReferenceError") \/ CallFailed("HarborError")) /\ Fault
  /\ UNCHANGED <<crVars, secVars, robotVars, now, connVars>>

RequeueOnRemoteNotFound ==
  /\ pc = "notFound"
  /\ SetStatusAndReturn(Changed(mem, "NotFound"), "NotFound", TRUE, FALSE)
  /\ UNCHANGED <<lastInc, cache, secVars, robotVars, now, connVars, budget>>

Replace(x, y) == robots' = (robots \ {x}) \cup {y}

UpdateRobot ==
  /\ pc = "update"
  /\ \/ Recorded = {} /\ CallFailed("HarborError") /\ UNCHANGED robots /\ NoFault
     \/ \E x \in Recorded :
          /\ Replace(x, [x EXCEPT !.data = mem.data])
          /\ \/ RecordExpiry(seen) /\ NoFault
             \/ CallFailed("HarborError") /\ Fault
     \/ CallFailed("HarborError") /\ UNCHANGED robots /\ Fault
  /\ UNCHANGED <<crVars, secVars, lastId, now, connVars>>

\* A refresh makes a new credential, the old one no longer opens Harbor.
Refreshed(x) ==
  [x EXCEPT !.cred = @ + 1, !.exp = IF @ = 0 THEN 0 ELSE now + 1]

\* lastRotatedAt is set as soon as Harbor has answered.
RotateRobotSecret_Announced ==
  /\ pc \in {"rotateNew", "rotate"}
  /\ \E x \in Recorded :
       /\ Replace(x, Refreshed(x))
       /\ Move(IF pc = "rotateNew" THEN "storeNew" ELSE "store",
               [mem EXCEPT !.rotated = <<x.id, x.cred + 1>>], seen,
               <<x.id, x.cred + 1>>, dirty)
  /\ UNCHANGED <<crVars, secVars, lastId, now, connVars, budget>>

\* In createRobot for an answer without a secret, in reconcileExisting for a
\* robot that has expired.
RotateRobotSecret ==
  /\ pc \in {"rotateNew", "rotate"}
  /\ \/ Recorded = {} /\ CallFailed("HarborError") /\ UNCHANGED robots /\ NoFault
     \/ \E x \in Recorded :
          /\ Replace(x, Refreshed(x))
          /\ \/ /\ Move(IF pc = "rotateNew" THEN "storeNew" ELSE "store", mem,
                        seen, <<x.id, x.cred + 1>>, dirty)
                /\ NoFault
             \/ CallFailed("HarborError") /\ Fault
     \/ CallFailed("HarborError") /\ UNCHANGED robots /\ Fault
  /\ UNCHANGED <<crVars, secVars, lastId, now, connVars>>

\* The write carries no resourceVersion.
SecretWritable_AnyVersion(s) ==
  \/ secCache[s].owner = None /\ sec[s].owner = None
  \/ secCache[s].owner = cur /\ sec[s].owner # None

\* upsertOwnedSecretValues: a Secret the cache does not have is created, which
\* fails if there is one; one that it has must be this robot's, and the update
\* fails if the cached version is not the current one.
SecretWritable(s) ==
  \/ secCache[s].owner = None /\ sec[s].owner = None
  \/ secCache[s].owner = cur /\ secFresh[s]

PutSecret_OnlyOnce(s) ==
  /\ sec' = [sec EXCEPT ![s] = IF @.owner = None THEN [owner |-> cur, cred |-> cred] ELSE @]
  /\ secFresh' = [secFresh EXCEPT ![s] = FALSE]
  /\ stored' = stored \cup {cred}

PutSecret(s) ==
  /\ sec' = [sec EXCEPT ![s] = [owner |-> cur, cred |-> cred]]
  /\ secFresh' = [secFresh EXCEPT ![s] = FALSE]
  /\ stored' = stored \cup {cred}

UpsertRobotSecret ==
  /\ pc \in {"storeNew", "store"}
  /\ LET s == mem.dest
         known == [mem EXCEPT !.rotated = cred] IN
     \/ /\ SecretWritable(s) /\ PutSecret(s)
        /\ \/ /\ IF pc = "storeNew" THEN Move("created", known, 0, None, FALSE)
                                    ELSE Move("again", known, 0, None, TRUE)
              /\ NoFault
           \/ CallFailed("SecretError") /\ Fault
     \/ /\ ~SecretWritable(s) /\ CallFailed("SecretError")
        /\ UNCHANGED <<sec, secFresh, stored>> /\ NoFault
     \/ CallFailed("SecretError") /\ UNCHANGED <<sec, secFresh, stored>> /\ Fault
  /\ UNCHANGED <<crVars, secCache, robotVars, now, connVars>>

\* The expiry is read again after a rotation; an error is ignored.
GetRefreshed ==
  /\ pc = "again"
  /\ \/ \E x \in Recorded : Goto("ready", [mem EXCEPT !.exp = x.exp]) /\ NoFault
     \/ Recorded = {} /\ Goto("ready", mem) /\ NoFault
     \/ Goto("ready", mem) /\ Fault
  /\ UNCHANGED <<crVars, secVars, robotVars, now, connVars>>

SetReadyStatus ==
  /\ pc = "ready"
  /\ SetStatusAndReturn(Changed(mem, "Reconciled") \/ dirty,
                        "Reconciled", FALSE, TRUE)
  /\ UNCHANGED <<lastInc, cache, secVars, robotVars, now, connVars, budget>>

Reconcile ==
  \/ MarkReconcilingIfNeeded \/ GetHarborClientForObject \/ BuildHarborClientFails
  \/ FinalizeIfDeleting \/ DeleteRobot \/ FinalizeAfterCleanup
  \/ EnsureFinalizer \/ AdoptExisting \/ PersistAdoption
  \/ RequireCreationAllowed \/ CreateRobot \/ SetCreatedStatus \/ GetRobot
  \/ RequeueOnRemoteNotFound \/ UpdateRobot \/ RotateRobotSecret
  \/ UpsertRobotSecret \/ GetRefreshed \/ SetReadyStatus \/ SetErrorStatus

-----------------------------------------------------------------------------
(* controller-runtime *)

\* The informer catches up and its event queues the resource.
SyncCache(o) ==
  /\ ~cacheFresh[o]
  /\ cache' = [cache EXCEPT ![o] = cr[o]]
  /\ cacheFresh' = [cacheFresh EXCEPT ![o] = TRUE]
  /\ queue' = queue \cup {o}
  /\ UNCHANGED <<cr, lastInc, secVars, timer, localVars, robotVars, now,
                 connVars, budget>>

\* The Secrets' informer catches up; no reconciler listens to it.
SyncSecret(s) ==
  /\ ~secFresh[s]
  /\ secCache' = [secCache EXCEPT ![s] = sec[s]]
  /\ secFresh' = [secFresh EXCEPT ![s] = TRUE]
  /\ UNCHANGED <<crVars, sec, stored, queue, timer, localVars, robotVars, now,
                 connVars, budget>>

DriftTimer(o) ==
  /\ o \in timer
  /\ timer' = timer \ {o} /\ queue' = queue \cup {o}
  /\ UNCHANGED <<crVars, secVars, localVars, robotVars, now, connVars, budget>>

\* The operator stops between two calls; its successor lists everything.
Crash ==
  /\ Fault
  /\ ForgetLocals
  /\ timer' = {} /\ queue' = {o \in Objects : Exists(o)}
  /\ cache' = cr /\ cacheFresh' = [o \in Objects |-> TRUE]
  /\ secCache' = sec /\ secFresh' = [s \in Secrets |-> TRUE]
  /\ UNCHANGED <<cr, lastInc, sec, stored, robotVars, now, connVars>>

-----------------------------------------------------------------------------
(* Users, through the API server *)

UserWrites(o, rec) ==
  /\ Store(o, rec)
  /\ memFresh' = (memFresh /\ cur # o)
  /\ UNCHANGED <<cache, secVars, queue, timer, pc, cur, mem, seen, cred, dirty,
                 err, robotVars, now, connVars>>

UserCreate(o) ==
  /\ ~Exists(o) /\ lastInc[o] < MaxInc /\ NoFault
  /\ lastInc' = [lastInc EXCEPT ![o] = @ + 1]
  /\ \E d \in Data, cp \in CreationPolicies, dp \in DeletionPolicies :
       UserWrites(o, [NoResource EXCEPT !.inc = lastInc[o] + 1, !.gen = 1,
                        !.data = d, !.dest = Dest[o], !.creationPolicy = cp,
                        !.deletionPolicy = dp])

\* A change of the payload, the destination (spec.secretRef is not immutable) or
\* the policy, or of reconcileNonce only.
UserEdit(o) ==
  /\ Exists(o) /\ cr[o].gen < MaxGen /\ InTime /\ NoFault
  /\ \E d \in Data, s \in Secrets, dp \in DeletionPolicies :
       UserWrites(o, [cr[o] EXCEPT !.gen = @ + 1, !.data = d, !.dest = s,
                                   !.deletionPolicy = dp])
  /\ UNCHANGED lastInc

\* A resource with a finalizer stays, marked for deletion, as a new generation.
UserDelete(o) ==
  /\ Exists(o) /\ ~cr[o].deleting /\ NoFault
  /\ UserWrites(o, IF cr[o].fin
                   THEN [cr[o] EXCEPT !.deleting = TRUE, !.gen = @ + 1]
                   ELSE NoResource)
  /\ UNCHANGED lastInc

-----------------------------------------------------------------------------
(* Time, the connection, the Secrets, and other Harbor clients *)

\* A lifetime passes: days, in which the informer of the Secrets catches up.  A
\* reconcile looks at the clock once, so it may as well pass between two.
Tick ==
  /\ now < MaxNow /\ InTime /\ pc = "idle" /\ \A s \in Secrets : secFresh[s]
  /\ now' = now + 1
  /\ UNCHANGED <<crVars, secVars, queue, timer, localVars, robotVars, connVars,
                 budget>>

\* The connection watch queues every dependent resource the cache knows.
EnqueueDependents == queue' = queue \cup {o \in Objects : cache[o].inc # 0}

DeleteConnection ==
  /\ conn # 0 /\ Fault
  /\ conn' = 0 /\ EnqueueDependents
  /\ UNCHANGED <<crVars, secVars, timer, localVars, robotVars, now, lastUid>>

CreateConnection ==
  /\ conn = 0 /\ lastUid < MaxUid
  /\ lastUid' = lastUid + 1 /\ conn' = lastUid + 1
  /\ EnqueueDependents
  /\ UNCHANGED <<crVars, secVars, timer, localVars, robotVars, now, budget>>

SecretChanges(s, new) ==
  /\ sec' = [sec EXCEPT ![s] = new]
  /\ secFresh' = [secFresh EXCEPT ![s] = FALSE]
  /\ UNCHANGED <<crVars, secCache, stored, queue, timer, localVars, robotVars,
                 now, connVars>>

\* Someone creates a Secret under a name a robot may use, or takes a robot's
\* Secret over by changing its labels and annotations.
ForeignSecret(s) ==
  /\ sec[s].owner # Env /\ Fault
  /\ SecretChanges(s, [owner |-> Env, cred |-> None])

\* A Secret is removed: a robot's by accident, someone else's to make room.
RemoveSecret(s) ==
  \/ sec[s].owner = Env /\ NoFault /\ SecretChanges(s, NoSecret)
  \/ sec[s].owner \in Objects /\ Fault /\ SecretChanges(s, NoSecret)

\* Someone else creates, refreshes or deletes a robot account.
ForeignRobot ==
  /\ Fault
  /\ \/ \E o \in Objects :
          /\ \A x \in robots : x.name # RobotName[o]
          /\ robots' = robots \cup {[id |-> lastId + 1, name |-> RobotName[o],
                                     data |-> None, cred |-> 1, exp |-> Expiry]}
          /\ lastId' = lastId + 1
     \/ \E x \in robots : Replace(x, Refreshed(x)) /\ UNCHANGED lastId
     \/ \E x \in robots : robots' = robots \ {x} /\ UNCHANGED lastId
  /\ UNCHANGED <<crVars, secVars, queue, timer, localVars, now, connVars>>

-----------------------------------------------------------------------------

Next ==
  \/ \E o \in Objects : LoadResource(o)
  \/ Reconcile
  \/ \E o \in Objects : SyncCache(o) \/ DriftTimer(o)
  \/ \E s \in Secrets : SyncSecret(s)
  \/ \E o \in Objects :
       UserCreate(o) \/ UserEdit(o) \/ UserDelete(o)
  \/ \E s \in Secrets : ForeignSecret(s) \/ RemoveSecret(s)
  \/ Tick \/ Crash \/ DeleteConnection \/ CreateConnection \/ ForeignRobot

Spec == Init /\ [][Next]_vars

\* The worker and the informers run, the work queue is first-in first-out, a
\* pending timer fires, and a Secret in the way is removed.
Fairness ==
  /\ WF_vars(Reconcile)
  /\ \A o \in Objects : /\ SF_vars(LoadResource(o))
                        /\ WF_vars(SyncCache(o)) /\ WF_vars(DriftTimer(o))
  /\ \A s \in Secrets : /\ WF_vars(SyncSecret(s))
                        /\ WF_vars(sec[s].owner = Env /\ RemoveSecret(s))

FairSpec == Spec /\ Fairness

-----------------------------------------------------------------------------
(* Safety *)

\* Every variable keeps its type.
TypeOK ==
  /\ cr \in [Objects -> Resource] /\ cache \in [Objects -> Resource]
  /\ lastInc \in [Objects -> Nat] /\ cacheFresh \in [Objects -> BOOLEAN]
  /\ sec \in [Secrets -> Secret] /\ secCache \in [Secrets -> Secret]
  /\ secFresh \in [Secrets -> BOOLEAN]
  /\ queue \subseteq Objects /\ timer \subseteq Objects
  /\ pc \in PCs /\ cur \in Objects /\ mem \in Resource /\ memFresh \in BOOLEAN
  /\ seen \in Nat /\ cred \in Credential \cup {None} /\ dirty \in BOOLEAN
  /\ err \in Reasons
  /\ robots \subseteq RobotAccount /\ lastId \in Nat /\ now \in Nat
  /\ conn \in Nat /\ lastUid \in Nat
  /\ stored \subseteq Credential /\ budget \in Nat

\* "The controller does not adopt or overwrite unrelated existing Secrets": a
\* reconcile changes a Secret only if there is none at the API server or it is
\* this robot's, however old the cached copy it was decided on
\* (upsertOwnedSecretValues).
UnrelatedSecretsKept ==
  [][Reconcile => \A s \in Secrets :
       sec'[s] # sec[s] => sec[s].owner \in {None, cur}]_vars

\* Status announces a credential (lastRotatedAt) only if it has been in a
\* Secret: an error after Harbor's answer must not take the announcement along
\* with the id into status (createRobot, reconcileExisting).
AnnouncedAfterStored ==
  \A o \in Objects : cr[o].rotated # None => cr[o].rotated \in stored

-----------------------------------------------------------------------------
(* Liveness, under FairSpec *)

Live(o) == Exists(o) /\ ~cr[o].deleting
Ready(o) == cr[o].obsGen = cr[o].gen /\ cr[o].reason \in ReadyReasons

\* The destination Secret holds what opens the robot in Harbor today.
HasCredential(o) ==
  \E x \in robots :
    /\ x.id = cr[o].id /\ (x.exp = 0 \/ now < x.exp)
    /\ sec[cr[o].dest] = [owner |-> o, cred |-> <<x.id, x.cred>>]

\* If no call fails and nobody interferes, a CreateOrAdopt Robot ends up Ready
\* with its current credential in the Secret, whatever edits, old copies and
\* expiries come in between (createRobot, reconcileExisting).  The destination
\* stays: CredentialIsWritten is about what happens if it does not.
CredentialArrives ==
  \A o \in Objects :
    <>[](/\ Live(o) /\ cr[o].creationPolicy = "CreateOrAdopt"
         /\ budget = MaxDisturb
         => Ready(o) /\ HasCredential(o))

\* A deleted Robot goes away once disturbances end, unless its connection is
\* gone or was replaced.
DeletionCompletes ==
  \A o \in Objects :
    []<>(~cr[o].deleting \/ conn = 0 \/ cr[o].bound \notin {0, conn})

\* "The operator writes the generated robot secret to this location and expects
\* the Secret to either not exist yet or already be managed by this Robot":
\* once edits and disturbances end, a Ready Robot whose destination is in order
\* has its credential there.
CredentialIsWritten ==
  \A o \in Objects :
    <>[](Live(o) /\ Ready(o) /\ sec[cr[o].dest].owner \in {None, o}
         => HasCredential(o))

=============================================================================
