---------------------------- MODULE Membership ----------------------------
(***************************************************************************)
(* Member and UserGroupClaim.                                              *)
(*                                                                         *)
(* A claim sees to it that an external group is registered in Harbor, and  *)
(* never removes it.  A Member binds a user or a claimed group to the      *)
(* Harbor project.  The two kinds have a worker each and share the         *)
(* informer cache: the worker of the Members reads the claims there, the   *)
(* worker of the claims lists the Members there before it lets a claim go, *)
(* and an event of either kind queues the other.                           *)
(*                                                                         *)
(* A definition named X_Something before X is X with a bug; it is used     *)
(* only to show that a property notices that bug.                          *)
(***************************************************************************)
EXTENDS Integers

CONSTANTS
  Members,          \* the Member resources, by namespace/name
  Claims,           \* the UserGroupClaim resources
  Users,            \* Harbor users
  Groups,           \* external groups, by the name Harbor has for them
  RefOf,            \* the user or the claim each Member refers to
  GroupOf,          \* the group each claim is about
  Roles,            \* roles of a spec
  CreationPolicies, \* creation policies users choose from
  DeletionPolicies, \* deletion policies users choose from
  DriftDetection,   \* whether a drift detection interval is configured
  Env,              \* a Harbor client other than the operator
  Disturbances,     \* the kinds of disturbances there are
  StartUids,        \* UIDs the connection may have at the start, 0 for none
  MaxInc,           \* bound: how often a resource is created
  MaxGen,           \* bound: generations made by edits
  MaxUid,           \* bound: connection objects ever created
  MaxDisturb        \* bound: faults, crashes and out-of-band changes

Objects == Members \cup Claims
Entities == Users \cup Groups

ASSUME ConstantsAssumption ==
  /\ Objects # {} /\ Members \cap Claims = {}
  /\ Roles # {} /\ Env \notin Objects
  /\ Claims \cap Users = {} /\ Users \cap Groups = {}
  /\ RefOf \in [Members -> Users \cup Claims]
  /\ GroupOf \in [Claims -> Groups]
  /\ CreationPolicies \subseteq {"Create", "Adopt", "CreateOrAdopt"}
  /\ DeletionPolicies \subseteq {"Delete", "Orphan"}
  /\ DriftDetection \in BOOLEAN
  /\ Disturbances \subseteq {"call", "list", "secret", "crash", "connection",
                             "reference", "group", "membership"}
  /\ StartUids \subseteq {0, 1} /\ StartUids # {}

ASSUME BoundsAssumption ==
  MaxInc \in Nat /\ MaxGen \in Nat /\ MaxUid \in Nat /\ MaxDisturb \in Nat

VARIABLES
  cr,          \* API server: the resources
  lastInc,     \* API server: incarnations of each resource so far
  cache,       \* informer cache: a copy of each resource, maybe old
  cacheFresh,  \* whether that copy is the API server's current version
  queue,       \* work queues of both kinds
  timer,       \* resources with a RequeueAfter pending
  pc,          \* per worker: its next call
  cur,         \* per worker: the resource it works on
  mem,         \* per worker: its in-memory copy
  memFresh,    \* per worker: whether that copy is the current version
  err,         \* per worker: the error on its way to status, if any
  seen,        \* per worker: the id of what it found or made in Harbor
  group,       \* Harbor: the registered groups
  membership,  \* Harbor: the memberships of the project, one per entity
  lastId,      \* Harbor: the last id given out
  made,        \* history: the Members that ever made a membership
  pinned,      \* history: the Members at work with a claim when it was deleted
  conn,        \* UID of the connection object, 0 when there is none
  lastUid,     \* connection UIDs so far
  refs,        \* which of the Members' references resolve
  budget       \* disturbances still to come

apiVars    == <<cr, lastInc, cache, cacheFresh>>
localVars  == <<pc, cur, mem, memFresh, err, seen>>
workerVars == <<queue, timer, localVars>>
harborVars == <<group, membership, lastId, made>>
worldVars  == <<conn, lastUid, refs, budget>>
vars == <<apiVars, workerVars, harborVars, pinned, worldVars>>

-----------------------------------------------------------------------------
(* State *)

Workers == {"member", "claim"}
WorkerOf(o) == IF o \in Members THEN "member" ELSE "claim"
AnyObject == CHOOSE o \in Objects : TRUE

HasClaim(m) == RefOf[m] \in Claims
References == {"Project"} \cup IF \A m \in Members : HasClaim(m) THEN {}
                               ELSE {"User"}
EntityOf(m) == IF HasClaim(m) THEN GroupOf[RefOf[m]] ELSE RefOf[m]

NotReadyReasons ==
  {"", "Reconciling", "ConnectionNotFound", "SecretNotFound",
   "ConnectionChanged", "ReferenceError", "ClaimNotReady", "CreationDenied",
   "AlreadyExists", "Incompatible", "StillReferenced", "HarborError"}
Reasons == NotReadyReasons \cup {"Reconciled"}

\* A resource of either kind; role and policies are a Member's only.  id is the
\* membership id (recorded together with the project's) or the group id.
Resource ==
  [inc: Nat, gen: Nat, deleting: BOOLEAN, fin: BOOLEAN, role: Roles,
   creationPolicy: {"Create", "Adopt", "CreateOrAdopt"},
   deletionPolicy: {"Delete", "Orphan"},
   obsGen: Nat, reason: Reasons, bound: Nat, id: Nat]

NoResource ==
  [inc |-> 0, gen |-> 0, deleting |-> FALSE, fin |-> FALSE,
   role |-> CHOOSE r \in Roles : TRUE, creationPolicy |-> "Create",
   deletionPolicy |-> "Delete", obsGen |-> 0, reason |-> "", bound |-> 0,
   id |-> 0]

Exists(o) == cr[o].inc # 0

Clients == (Members \X Nat) \cup {<<Env, 0>>}

\* A group may be registered with another type or DN than the claim's.
Registration == [id: Nat, compatible: BOOLEAN]
NoGroup == [id |-> 0, compatible |-> TRUE]

Binding == [id: Nat, role: Roles, maker: Clients, writer: Clients]
NoBinding == [id |-> 0, role |-> NoResource.role,
              maker |-> <<Env, 0>>, writer |-> <<Env, 0>>]

PCs == {"idle", "mark", "bind", "noSecret", "finalizer", "error", "ready",
        "list", "create", "update", "finalize", "purge", "unfinalize",
        "referenced", "find", "register", "findAgain"}

Init ==
  /\ cr = [o \in Objects |-> NoResource]
  /\ lastInc = [o \in Objects |-> 0]
  /\ cache = [o \in Objects |-> NoResource]
  /\ cacheFresh = [o \in Objects |-> TRUE]
  /\ queue = {} /\ timer = {}
  /\ pc = [w \in Workers |-> "idle"]
  /\ cur = [w \in Workers |-> AnyObject]
  /\ mem = [w \in Workers |-> NoResource]
  /\ memFresh = [w \in Workers |-> FALSE]
  /\ err = [w \in Workers |-> ""] /\ seen = [w \in Workers |-> 0]
  /\ group = [g \in Groups |-> NoGroup]
  /\ membership = [e \in Entities |-> NoBinding]
  /\ lastId = 0 /\ made = {} /\ pinned = [c \in Claims |-> {}]
  /\ lastUid \in StartUids /\ conn = lastUid
  /\ refs = References
  /\ budget = MaxDisturb

-----------------------------------------------------------------------------
(* How a reconcile goes on, ends, and writes to the API server *)

Goto(w, p, rec, id) ==
  /\ pc' = [pc EXCEPT ![w] = p]
  /\ mem' = [mem EXCEPT ![w] = rec]
  /\ seen' = [seen EXCEPT ![w] = id]
  /\ UNCHANGED <<queue, timer, cur, memFresh, err>>

Return(w, requeue, drift) ==
  /\ pc' = [pc EXCEPT ![w] = "idle"]
  /\ cur' = [cur EXCEPT ![w] = AnyObject]
  /\ mem' = [mem EXCEPT ![w] = NoResource]
  /\ memFresh' = [memFresh EXCEPT ![w] = FALSE]
  /\ err' = [err EXCEPT ![w] = ""]
  /\ seen' = [seen EXCEPT ![w] = 0]
  /\ queue' = IF requeue THEN queue \cup {cur[w]} ELSE queue
  /\ timer' = IF drift /\ DriftDetection THEN timer \cup {cur[w]} ELSE timer

\* Optimistic concurrency: the API server takes a write of the version it holds.
Store(w, rec) ==
  /\ cr' = [cr EXCEPT ![cur[w]] = rec]
  /\ cacheFresh' = [cacheFresh EXCEPT ![cur[w]] = FALSE]

Refused(w) ==
  ~memFresh[w] /\ UNCHANGED <<cr, cacheFresh>> /\ Return(w, TRUE, FALSE)

Persist(w, rec, p) ==
  \/ memFresh[w] /\ Store(w, rec) /\ Goto(w, p, rec, seen[w])
  \/ Refused(w)

PersistAndReturn(w, rec, requeue, drift) ==
  \/ memFresh[w] /\ Store(w, rec) /\ Return(w, requeue, drift)
  \/ Refused(w)

Marked_UnknownReason(rec, reason) ==
  [rec EXCEPT !.obsGen = rec.gen, !.reason = "Unknown"]

Marked(rec, reason) == [rec EXCEPT !.obsGen = rec.gen, !.reason = reason]

\* The conditions are put on whatever the API server holds by now.
SetStatusAndReturn_OnLatest(w, rec, reason, requeue, drift) ==
  /\ IF Exists(cur[w])
     THEN Store(w, [Marked(cr[cur[w]], reason) EXCEPT !.id = rec.id])
     ELSE UNCHANGED <<cr, cacheFresh>>
  /\ Return(w, requeue, drift)

\* Status is written only if a condition, observedGeneration or (a Member's
\* last step) an id changes.
SetStatusAndReturn(w, rec, reason, requeue, drift) ==
  IF Marked(rec, reason) # mem[w]
  THEN PersistAndReturn(w, Marked(rec, reason), requeue, drift)
  ELSE Return(w, requeue, drift) /\ UNCHANGED <<cr, cacheFresh>>

Fail(w, reason) == SetStatusAndReturn(w, mem[w], reason, TRUE, FALSE)

\* A Harbor call returned an error, which SetErrorStatus writes next.
CallFailed(w, reason) ==
  /\ pc' = [pc EXCEPT ![w] = "error"]
  /\ err' = [err EXCEPT ![w] = reason]
  /\ UNCHANGED <<queue, timer, cur, mem, memFresh, seen>>

Fault(k) == k \in Disturbances /\ budget > 0 /\ budget' = budget - 1

-----------------------------------------------------------------------------
(* Steps both reconcilers take *)

StartPC_IgnoresDeletion(w, rec) ==
  IF w = "member" \/ rec.fin THEN "bind" ELSE "finalizer"

\* Where a reconcile goes once status is marked, and once it has a client.
StartPC(w, rec) ==
  IF w = "member" THEN "bind"
  ELSE IF rec.deleting THEN "referenced"
  ELSE IF rec.fin THEN "bind" ELSE "finalizer"
BoundPC(w, rec) ==
  IF w = "claim" THEN "find"
  ELSE IF rec.deleting THEN "finalize"
  ELSE IF rec.fin THEN "list" ELSE "finalizer"
HeldPC(w) == IF w = "claim" THEN "bind" ELSE "list"

LoadResource(o) ==
  LET w == WorkerOf(o) IN
  /\ pc[w] = "idle" /\ o \in queue
  /\ queue' = queue \ {o}
  /\ IF cache[o].inc = 0
     THEN UNCHANGED localVars
     ELSE /\ pc' = [pc EXCEPT ![w] = IF cache[o].obsGen = cache[o].gen
                                     THEN StartPC(w, cache[o]) ELSE "mark"]
          /\ cur' = [cur EXCEPT ![w] = o]
          /\ mem' = [mem EXCEPT ![w] = cache[o]]
          /\ memFresh' = [memFresh EXCEPT ![w] = cacheFresh[o]]
          /\ UNCHANGED <<err, seen>>
  /\ UNCHANGED <<apiVars, timer, harborVars, pinned, worldVars>>

MarkReconcilingIfNeeded(w) ==
  /\ pc[w] = "mark"
  /\ Persist(w, Marked(mem[w], "Reconciling"), StartPC(w, mem[w]))
  /\ UNCHANGED <<lastInc, cache, harborVars, pinned, worldVars>>

RemoveFinalizer(w) ==
  IF mem[w].fin
  THEN PersistAndReturn(w, NoResource, FALSE, FALSE)
  ELSE Return(w, FALSE, FALSE) /\ UNCHANGED <<cr, cacheFresh>>

\* finalizeWithoutHarborConnection (Members only), else setErrorStatus.
WithoutConnection(w, reason, notFound) ==
  IF w = "member" /\ mem[w].deleting /\ notFound
     /\ mem[w].deletionPolicy = "Orphan"
  THEN RemoveFinalizer(w)
  ELSE Fail(w, reason)

GetHarborClientForObject(w) ==
  /\ pc[w] = "bind"
  /\ \/ conn = 0 /\ WithoutConnection(w, "ConnectionNotFound", TRUE)
        /\ UNCHANGED budget
     \/ conn # 0 /\ mem[w].bound \notin {0, conn}
        /\ WithoutConnection(w, "ConnectionChanged", FALSE) /\ UNCHANGED budget
     \/ conn # 0 /\ mem[w].bound = conn
        /\ \/ Goto(w, BoundPC(w, mem[w]), mem[w], 0) /\ UNCHANGED budget
           \/ Goto(w, "noSecret", mem[w], 0) /\ Fault("secret")
        /\ UNCHANGED <<cr, cacheFresh>>
     \/ conn # 0 /\ mem[w].bound = 0
        /\ LET bound == [mem[w] EXCEPT !.bound = conn] IN
           \/ Persist(w, bound, BoundPC(w, mem[w])) /\ UNCHANGED budget
           \/ Persist(w, bound, "noSecret") /\ Fault("secret")
  /\ UNCHANGED <<lastInc, cache, harborVars, pinned, conn, lastUid, refs>>

\* buildHarborClient does not find the Secret of the connection.
BuildHarborClientFails(w) ==
  /\ pc[w] = "noSecret"
  /\ WithoutConnection(w, "SecretNotFound", TRUE)
  /\ UNCHANGED <<lastInc, cache, harborVars, pinned, worldVars>>

EnsureFinalizer_Skipped(w) ==
  /\ pc[w] = "finalizer" /\ Goto(w, HeldPC(w), mem[w], seen[w])
  /\ UNCHANGED <<apiVars, harborVars, pinned, worldVars>>

EnsureFinalizer(w) ==
  /\ pc[w] = "finalizer"
  /\ Persist(w, [mem[w] EXCEPT !.fin = TRUE], HeldPC(w))
  /\ UNCHANGED <<lastInc, cache, harborVars, pinned, worldVars>>

\* finalizeIfDeleting after the cleanup, and the end of a claim.
FinalizeAfterCleanup(w) ==
  /\ pc[w] = "unfinalize"
  /\ RemoveFinalizer(w)
  /\ UNCHANGED <<lastInc, cache, harborVars, pinned, worldVars>>

\* A list is read page by page: it shows nothing of what does not exist, and
\* can miss an object when others are removed between two pages (getPaged).
NotListed(x) ==
  \/ x.id = 0 /\ UNCHANGED budget
  \/ x.id # 0 /\ Fault("list")

SetErrorStatus(w) ==
  /\ pc[w] = "error"
  /\ Fail(w, err[w])
  /\ UNCHANGED <<lastInc, cache, harborVars, pinned, worldVars>>

-----------------------------------------------------------------------------
(* The reconciler of the Members *)

M == mem["member"]
MyEntity == EntityOf(cur["member"])
MyBinding == membership[MyEntity]
Me == <<cur["member"], M.inc>>

AllowsCreation(policy) == policy \in {"Create", "CreateOrAdopt"}
AllowsAdoption_Always(policy) == TRUE

AllowsAdoption(policy) == policy \in {"Adopt", "CreateOrAdopt"}

\* resolveUserName, resolveUserGroup: the claim is read in the cache.
ClaimReady(c, bound) ==
  /\ cache[c].inc # 0 /\ cache[c].id # 0
  /\ cache[c].reason = "Reconciled"
  /\ cache[c].bound = bound
EntityResolved ==
  IF HasClaim(cur["member"]) THEN ClaimReady(RefOf[cur["member"]], M.bound)
                             ELSE "User" \in refs

DesiredEntityUnresolved ==
  /\ pc["member"] = "list"
  /\ \/ "Project" \notin refs /\ Fail("member", "ReferenceError")
     \/ /\ "Project" \in refs /\ ~EntityResolved
        /\ Fail("member", IF HasClaim(cur["member"]) THEN "ClaimNotReady"
                                                     ELSE "ReferenceError")
  /\ UNCHANGED <<lastInc, cache, harborVars, pinned, worldVars>>

\* "A Member that has already recorded the exact Harbor identity is owned by
\* this CR"; one that is Ready takes any membership it finds.
Owned(x) ==
  AllowsAdoption(M.creationPolicy) \/ M.id = x.id \/ M.reason = "Reconciled"

ListProjectMembers ==
  /\ pc["member"] = "list" /\ "Project" \in refs /\ EntityResolved
  /\ \/ /\ MyBinding.id # 0
        /\ IF Owned(MyBinding)
           THEN /\ Goto("member", IF MyBinding.role = M.role THEN "ready"
                                                             ELSE "update",
                        M, MyBinding.id)
                /\ UNCHANGED <<cr, cacheFresh>>
           ELSE Fail("member", "AlreadyExists")
        /\ UNCHANGED budget
     \/ /\ NotListed(MyBinding)
        /\ IF AllowsCreation(M.creationPolicy)
           THEN Goto("member", "create", M, 0) /\ UNCHANGED <<cr, cacheFresh>>
           ELSE Fail("member", "CreationDenied")
     \/ CallFailed("member", "HarborError") /\ Fault("call")
        /\ UNCHANGED <<cr, cacheFresh>>
  /\ UNCHANGED <<lastInc, cache, harborVars, pinned, conn, lastUid, refs>>

\* Harbor registers the group of a membership it does not know.
CreateProjectMember ==
  /\ pc["member"] = "create"
  /\ \/ /\ MyBinding.id # 0 /\ CallFailed("member", "HarborError")
        /\ UNCHANGED <<harborVars, budget>>
     \/ /\ MyBinding.id = 0
        /\ membership' = [membership EXCEPT ![MyEntity] =
             [id |-> lastId + 1, role |-> M.role, maker |-> Me, writer |-> Me]]
        /\ made' = made \cup {Me}
        /\ IF MyEntity \in Groups /\ group[MyEntity].id = 0
           THEN /\ lastId' = lastId + 2
                /\ group' = [group EXCEPT ![MyEntity] =
                               [id |-> lastId + 2, compatible |-> TRUE]]
           ELSE lastId' = lastId + 1 /\ UNCHANGED group
        /\ \/ Goto("member", "ready", M, lastId + 1) /\ UNCHANGED budget
           \/ CallFailed("member", "HarborError") /\ Fault("call")
     \/ CallFailed("member", "HarborError") /\ Fault("call") /\ UNCHANGED harborVars
  /\ UNCHANGED <<apiVars, pinned, conn, lastUid, refs>>

UpdateProjectMemberRole ==
  /\ pc["member"] = "update"
  /\ \/ /\ MyBinding.id # seen["member"] /\ CallFailed("member", "HarborError")
        /\ UNCHANGED <<membership, budget>>
     \/ /\ MyBinding.id = seen["member"]
        /\ membership' = [membership EXCEPT ![MyEntity].role = M.role,
                                            ![MyEntity].writer = Me]
        /\ \/ Goto("member", "ready", M, seen["member"]) /\ UNCHANGED budget
           \/ CallFailed("member", "HarborError") /\ Fault("call")
     \/ CallFailed("member", "HarborError") /\ Fault("call") /\ UNCHANGED membership
  /\ UNCHANGED <<apiVars, group, lastId, made, pinned, conn, lastUid, refs>>

\* The ids are written only along with a change of the conditions.
SetMemberReady_ConditionsOnly ==
  /\ pc["member"] = "ready"
  /\ SetStatusAndReturn("member", IF Marked(M, "Reconciled") = M THEN M
                                  ELSE [M EXCEPT !.id = seen["member"]],
                        "Reconciled", FALSE, TRUE)
  /\ UNCHANGED <<lastInc, cache, harborVars, pinned, worldVars>>

SetMemberReady ==
  /\ pc["member"] = "ready"
  /\ SetStatusAndReturn("member", [M EXCEPT !.id = seen["member"]],
                        "Reconciled", FALSE, TRUE)
  /\ UNCHANGED <<lastInc, cache, harborVars, pinned, worldVars>>

\* The membership of a recorded id, whoever it is for by now.
Without(id) ==
  [e \in Entities |-> IF membership[e].id = id THEN NoBinding ELSE membership[e]]

\* A membership that is gone already is an error.
DeleteProjectMember_NotFoundFails(id) ==
  /\ membership' = Without(id) /\ UNCHANGED budget
  /\ IF Without(id) = membership THEN Return("member", TRUE, FALSE)
     ELSE Goto("member", "unfinalize", M, 0)

DeleteProjectMember(id) ==
  \/ /\ membership' = Without(id)
     /\ \/ Goto("member", "unfinalize", M, 0) /\ UNCHANGED budget
        \/ Return("member", TRUE, FALSE) /\ Fault("call")
  \/ Return("member", TRUE, FALSE) /\ Fault("call") /\ UNCHANGED membership

EnsureMemberAbsent_Unrecorded ==
  /\ pc["member"] = "finalize"
  /\ RemoveFinalizer("member")
  /\ UNCHANGED <<lastInc, cache, harborVars, pinned, worldVars>>

\* finalizeIfDeleting: by the recorded ids, else by what the spec resolves to;
\* a failure goes back to the queue and leaves status as it is.
EnsureMemberAbsent ==
  /\ pc["member"] = "finalize"
  /\ \/ /\ \/ M.deletionPolicy = "Orphan"
           \/ M.id = 0 /\ "Project" \notin refs
        /\ RemoveFinalizer("member")
        /\ UNCHANGED <<membership, budget>>
     \/ /\ M.deletionPolicy # "Orphan" /\ M.id # 0
        /\ DeleteProjectMember(M.id) /\ UNCHANGED <<cr, cacheFresh>>
     \/ /\ M.deletionPolicy # "Orphan" /\ M.id = 0 /\ "Project" \in refs
        /\ \/ ~EntityResolved /\ Return("member", TRUE, FALSE)
              /\ UNCHANGED budget
           \/ /\ EntityResolved
              /\ \/ MyBinding.id # 0 /\ UNCHANGED budget
                    /\ Goto("member", "purge", M, MyBinding.id)
                 \/ NotListed(MyBinding) /\ Goto("member", "unfinalize", M, 0)
                 \/ Return("member", TRUE, FALSE) /\ Fault("call")
        /\ UNCHANGED <<cr, cacheFresh, membership>>
  /\ UNCHANGED <<lastInc, cache, group, lastId, made, pinned, conn, lastUid, refs>>

DeleteListedMember ==
  /\ pc["member"] = "purge"
  /\ DeleteProjectMember(seen["member"])
  /\ UNCHANGED <<apiVars, group, lastId, made, pinned, conn, lastUid, refs>>

ReconcileMember ==
  \/ MarkReconcilingIfNeeded("member") \/ GetHarborClientForObject("member")
  \/ BuildHarborClientFails("member") \/ EnsureFinalizer("member")
  \/ DesiredEntityUnresolved \/ ListProjectMembers \/ CreateProjectMember
  \/ UpdateProjectMemberRole \/ SetMemberReady
  \/ EnsureMemberAbsent \/ DeleteListedMember
  \/ FinalizeAfterCleanup("member") \/ SetErrorStatus("member")

-----------------------------------------------------------------------------
(* The reconciler of the claims *)

C == mem["claim"]
MyGroup == GroupOf[cur["claim"]]

HasActiveMembers_NotDeleting ==
  \E m \in Members : /\ cache[m].inc # 0 /\ ~cache[m].deleting
                     /\ RefOf[m] = cur["claim"]

HasActiveMembers ==
  \E m \in Members : cache[m].inc # 0 /\ RefOf[m] = cur["claim"]

FinalizeClaim ==
  /\ pc["claim"] = "referenced"
  /\ IF HasActiveMembers
     THEN Fail("claim", "StillReferenced")
     ELSE Goto("claim", "unfinalize", C, 0) /\ UNCHANGED <<cr, cacheFresh>>
  /\ UNCHANGED <<lastInc, cache, harborVars, pinned, worldVars>>

\* findUserGroup, first and again after Harbor refused a creation.
FindUserGroup ==
  /\ pc["claim"] \in {"find", "findAgain"}
  /\ \/ /\ group[MyGroup].id # 0
        /\ IF group[MyGroup].compatible
           THEN /\ Goto("claim", "ready", C, group[MyGroup].id)
                /\ UNCHANGED <<cr, cacheFresh>>
           ELSE Fail("claim", "Incompatible")
        /\ UNCHANGED budget
     \/ /\ NotListed(group[MyGroup])
        /\ IF pc["claim"] = "find" THEN Goto("claim", "register", C, 0)
                                   ELSE CallFailed("claim", "HarborError")
        /\ UNCHANGED <<cr, cacheFresh>>
     \/ CallFailed("claim", "HarborError") /\ Fault("call")
        /\ UNCHANGED <<cr, cacheFresh>>
  /\ UNCHANGED <<lastInc, cache, harborVars, pinned, conn, lastUid, refs>>

CreateUserGroup ==
  /\ pc["claim"] = "register"
  /\ \/ /\ group[MyGroup].id # 0 /\ Goto("claim", "findAgain", C, 0)
        /\ UNCHANGED <<group, lastId, budget>>
     \/ /\ group[MyGroup].id = 0
        /\ lastId' = lastId + 1
        /\ group' = [group EXCEPT ![MyGroup] =
                       [id |-> lastId + 1, compatible |-> TRUE]]
        /\ \/ Goto("claim", "ready", C, lastId + 1) /\ UNCHANGED budget
           \/ CallFailed("claim", "HarborError") /\ Fault("call")
     \/ CallFailed("claim", "HarborError") /\ Fault("call")
        /\ UNCHANGED <<group, lastId>>
  /\ UNCHANGED <<apiVars, membership, made, pinned, conn, lastUid, refs>>

SetClaimReady_NewIdOnly ==
  /\ pc["claim"] = "ready"
  /\ IF C.id = seen["claim"]
     THEN Return("claim", FALSE, TRUE) /\ UNCHANGED <<cr, cacheFresh>>
     ELSE PersistAndReturn("claim", [Marked(C, "Reconciled") EXCEPT
                                       !.id = seen["claim"]], FALSE, TRUE)
  /\ UNCHANGED <<lastInc, cache, harborVars, pinned, worldVars>>

\* The group id found is written only along with a change of the conditions.
SetClaimReady ==
  /\ pc["claim"] = "ready"
  /\ LET rec == Marked(C, "Reconciled") IN
     IF rec = C
     THEN Return("claim", FALSE, TRUE) /\ UNCHANGED <<cr, cacheFresh>>
     ELSE PersistAndReturn("claim", [rec EXCEPT !.id = seen["claim"]], FALSE, TRUE)
  /\ UNCHANGED <<lastInc, cache, harborVars, pinned, worldVars>>

ReconcileClaim ==
  \/ MarkReconcilingIfNeeded("claim") \/ GetHarborClientForObject("claim")
  \/ BuildHarborClientFails("claim") \/ EnsureFinalizer("claim")
  \/ FinalizeClaim \/ FindUserGroup \/ CreateUserGroup \/ SetClaimReady
  \/ FinalizeAfterCleanup("claim") \/ SetErrorStatus("claim")

-----------------------------------------------------------------------------
(* controller-runtime *)

\* The watches: an event of a Member queues its claim, one of a claim queues the
\* Members that refer to it.
EnqueuedBy(o) ==
  {o} \cup IF o \in Members THEN {RefOf[o]} \cap Claims
                            ELSE {m \in Members : cache[m].inc # 0 /\ RefOf[m] = o}

SyncCache(o) ==
  /\ ~cacheFresh[o]
  /\ cache' = [cache EXCEPT ![o] = cr[o]]
  /\ cacheFresh' = [cacheFresh EXCEPT ![o] = TRUE]
  /\ queue' = queue \cup EnqueuedBy(o)
  /\ UNCHANGED <<cr, lastInc, timer, localVars, harborVars, pinned, worldVars>>

DriftTimer(o) ==
  /\ o \in timer
  /\ timer' = timer \ {o} /\ queue' = queue \cup {o}
  /\ UNCHANGED <<apiVars, localVars, harborVars, pinned, worldVars>>

\* The operator stops between two calls; its successor lists everything.
Crash ==
  /\ Fault("crash")
  /\ pc' = [w \in Workers |-> "idle"]
  /\ cur' = [w \in Workers |-> AnyObject]
  /\ mem' = [w \in Workers |-> NoResource]
  /\ memFresh' = [w \in Workers |-> FALSE]
  /\ err' = [w \in Workers |-> ""] /\ seen' = [w \in Workers |-> 0]
  /\ timer' = {} /\ queue' = {o \in Objects : Exists(o)}
  /\ cache' = cr /\ cacheFresh' = [o \in Objects |-> TRUE]
  /\ UNCHANGED <<cr, lastInc, harborVars, pinned, conn, lastUid, refs>>

-----------------------------------------------------------------------------
(* Users, through the API server *)

UserWrites(o, rec) ==
  /\ cr' = [cr EXCEPT ![o] = rec]
  /\ cacheFresh' = [cacheFresh EXCEPT ![o] = FALSE]
  /\ memFresh' = [memFresh EXCEPT ![WorkerOf(o)] = @ /\ cur[WorkerOf(o)] # o]
  /\ UNCHANGED <<cache, queue, timer, pc, cur, mem, err, seen, harborVars, worldVars>>

NewMember(role, cp, dp) ==
  [NoResource EXCEPT !.gen = 1, !.role = role, !.creationPolicy = cp,
                     !.deletionPolicy = dp]
NewClaim == [NoResource EXCEPT !.gen = 1]

UserCreate(o) ==
  /\ ~Exists(o) /\ lastInc[o] < MaxInc
  /\ lastInc' = [lastInc EXCEPT ![o] = @ + 1]
  /\ \/ o \in Claims /\ UserWrites(o, [NewClaim EXCEPT !.inc = lastInc[o] + 1])
     \/ o \in Members
        /\ \E r \in Roles, cp \in CreationPolicies, dp \in DeletionPolicies :
             UserWrites(o, [NewMember(r, cp, dp) EXCEPT !.inc = lastInc[o] + 1])
  /\ UNCHANGED pinned

\* A change of a Member's role or policy, or of reconcileNonce only; the rest of
\* both specs is immutable.
UserEdit(o) ==
  /\ Exists(o) /\ cr[o].gen < MaxGen
  /\ \E r \in Roles, dp \in DeletionPolicies :
       /\ o \in Claims => r = cr[o].role /\ dp = cr[o].deletionPolicy
       /\ UserWrites(o, [cr[o] EXCEPT !.gen = @ + 1, !.role = r,
                                      !.deletionPolicy = dp])
  /\ UNCHANGED <<lastInc, pinned>>

\* A resource with a finalizer stays, marked for deletion, as a new generation.
UserDelete(o) ==
  /\ Exists(o) /\ ~cr[o].deleting
  /\ UserWrites(o, IF cr[o].fin
                   THEN [cr[o] EXCEPT !.deleting = TRUE, !.gen = @ + 1]
                   ELSE NoResource)
  /\ pinned' = IF o \in Claims /\ cr[o].fin
               THEN [pinned EXCEPT ![o] =
                       {<<m, cr[m].inc>> : m \in {n \in Members :
                          Exists(n) /\ cr[n].fin /\ RefOf[n] = o}}]
               ELSE pinned
  /\ UNCHANGED lastInc

-----------------------------------------------------------------------------
(* The connection, the references, and other Harbor clients *)

\* The connection watch queues every dependent resource the cache knows.
EnqueueDependents == queue' = queue \cup {o \in Objects : cache[o].inc # 0}

DeleteConnection ==
  /\ conn # 0 /\ Fault("connection")
  /\ conn' = 0 /\ EnqueueDependents
  /\ UNCHANGED <<apiVars, timer, localVars, harborVars, pinned, lastUid, refs>>

CreateConnection ==
  /\ conn = 0 /\ lastUid < MaxUid
  /\ lastUid' = lastUid + 1 /\ conn' = lastUid + 1
  /\ EnqueueDependents
  /\ UNCHANGED <<apiVars, timer, localVars, harborVars, pinned, refs, budget>>

LoseReference(r) ==
  /\ r \in refs /\ Fault("reference") /\ refs' = refs \ {r}
  /\ UNCHANGED <<apiVars, workerVars, harborVars, pinned, conn, lastUid>>

ReferenceResolves(r) ==
  /\ r \notin refs /\ refs' = refs \cup {r}
  /\ UNCHANGED <<apiVars, workerVars, harborVars, pinned, conn, lastUid, budget>>

\* Another client registers a group, its way, or removes it and its membership.
ForeignGroup(g) ==
  /\ Fault("group")
  /\ \/ /\ group[g].id = 0
        /\ lastId' = lastId + 1
        /\ \E ok \in BOOLEAN :
             group' = [group EXCEPT ![g] = [id |-> lastId + 1, compatible |-> ok]]
        /\ UNCHANGED membership
     \/ /\ group[g].id # 0
        /\ group' = [group EXCEPT ![g] = NoGroup]
        /\ membership' = [membership EXCEPT ![g] = NoBinding]
        /\ UNCHANGED lastId
  /\ UNCHANGED <<apiVars, workerVars, made, pinned, conn, lastUid, refs>>

ForeignMembership(e) ==
  /\ Fault("membership")
  /\ \/ /\ membership[e].id = 0 /\ (e \in Groups => group[e].id # 0)
        /\ lastId' = lastId + 1
        /\ \E r \in Roles :
             membership' = [membership EXCEPT ![e] =
               [id |-> lastId + 1, role |-> r,
                maker |-> <<Env, 0>>, writer |-> <<Env, 0>>]]
     \/ /\ membership[e].id # 0 /\ UNCHANGED lastId
        /\ \/ membership' = [membership EXCEPT ![e] = NoBinding]
           \/ \E r \in Roles \ {membership[e].role} :
                membership' = [membership EXCEPT ![e].role = r,
                                                 ![e].writer = <<Env, 0>>]
  /\ UNCHANGED <<apiVars, workerVars, group, made, pinned, conn, lastUid, refs>>

-----------------------------------------------------------------------------

Next ==
  \/ \E o \in Objects : LoadResource(o) \/ SyncCache(o) \/ DriftTimer(o)
  \/ ReconcileMember \/ ReconcileClaim
  \/ \E o \in Objects : UserCreate(o) \/ UserEdit(o) \/ UserDelete(o)
  \/ Crash \/ DeleteConnection \/ CreateConnection
  \/ \E r \in References : LoseReference(r) \/ ReferenceResolves(r)
  \/ \E g \in Groups : ForeignGroup(g)
  \/ \E e \in Entities : ForeignMembership(e)

Spec == Init /\ [][Next]_vars

\* Both workers and the informers run, the work queues are first-in first-out, a
\* pending timer fires, and a lost Project or User comes back.
Fairness ==
  /\ WF_vars(ReconcileMember) /\ WF_vars(ReconcileClaim)
  /\ \A o \in Objects : /\ SF_vars(LoadResource(o))
                        /\ WF_vars(SyncCache(o))
                        /\ WF_vars(DriftTimer(o))
  /\ \A r \in References : WF_vars(ReferenceResolves(r))

FairSpec == Spec /\ Fairness

-----------------------------------------------------------------------------
(* Safety *)

\* Every variable keeps its type.
TypeOK ==
  /\ cr \in [Objects -> Resource]
  /\ lastInc \in [Objects -> Nat]
  /\ cache \in [Objects -> Resource]
  /\ cacheFresh \in [Objects -> BOOLEAN]
  /\ queue \subseteq Objects /\ timer \subseteq Objects
  /\ pc \in [Workers -> PCs] /\ cur \in [Workers -> Objects]
  /\ mem \in [Workers -> Resource] /\ memFresh \in [Workers -> BOOLEAN]
  /\ err \in [Workers -> Reasons] /\ seen \in [Workers -> Nat]
  /\ group \in [Groups -> Registration]
  /\ membership \in [Entities -> Binding]
  /\ lastId \in Nat /\ made \subseteq Clients
  /\ pinned \in [Claims -> SUBSET (Members \X Nat)]
  /\ lastUid \in Nat /\ conn \in Nat
  /\ refs \subseteq References /\ budget \in Nat

\* A call by which the operator may change a membership, other than the deletion
\* of what a Member without recorded ids finds: a worker that finalizes an old
\* copy of a Member does that again after the Member is gone.
Mutation == CreateProjectMember \/ UpdateProjectMemberRole \/ EnsureMemberAbsent

\* Whatever copy of a Member its worker acts on, it changes memberships only for
\* a Member that is still at the API server in the same incarnation, holds the
\* finalizer there and has recorded the connection it is changed through
\* (getHarborClientForObject, ensureFinalizer).
GuardedMembership ==
  [][Mutation /\ membership' # membership =>
       /\ cr[cur["member"]].inc = M.inc
       /\ cr[cur["member"]].fin
       /\ cr[cur["member"]].bound = M.bound /\ M.bound # 0]_vars

\* A claim that is deleted stays until the Members at work with it when it was
\* deleted are gone, although its worker lists them in a cache that lags and a
\* Member being deleted counts until the end ("blocks claim deletion while
\* active Members still reference it", hasActiveMembers).
ClaimOutlivesItsMembers ==
  [][\A c \in Claims :
       Exists(c) /\ cr[c].fin /\ cr'[c].inc = 0
       => \A x \in pinned[c] : cr[x[1]].inc # x[2]]_vars

\* A Member that recorded its membership leaves the API server under Delete only
\* once that membership is gone, crashes, failed calls, edits of the policy and
\* claims that no longer resolve notwithstanding (ensureMemberAbsent).
MembershipGoneFirst ==
  [][\A m \in Members :
       /\ Exists(m) /\ cr'[m].inc = 0
       /\ cr[m].deletionPolicy = "Delete" /\ cr[m].id # 0
       => \A e \in Entities : membership'[e].id # cr[m].id]_vars

\* Under creationPolicy Create a Member that never made a membership does not
\* change the role of one, however old its copy (requireCreationAllowed,
\* allowsAdoption, the owned test).  UnknownMembershipNeedsAdoption is the stronger
\* promise the code's comment makes, which fails.
RolesLeftToOthers ==
  [][\A e \in Entities :
       /\ UpdateProjectMemberRole /\ membership'[e] # membership[e]
       /\ M.creationPolicy = "Create"
       => Me \in made]_vars

Ready(o) == cr[o].obsGen = cr[o].gen /\ cr[o].reason = "Reconciled"

\* When a Member is Ready for its current generation and was the last to write
\* the membership it records, the membership has the role of that generation.
ReadyMeansRole ==
  \A m \in Members, e \in Entities :
    /\ Exists(m) /\ Ready(m)
    /\ membership[e].id = cr[m].id
    /\ membership[e].writer = <<m, cr[m].inc>>
    => membership[e].role = cr[m].role

-----------------------------------------------------------------------------
(* Liveness, under FairSpec *)

Usable(o) == conn # 0 /\ cr[o].bound \in {0, conn}

\* The claim would resolve for a Member with this binding.
ClaimResolves(c, bound) ==
  /\ Exists(c) /\ cr[c].id # 0
  /\ cr[c].reason = "Reconciled" /\ cr[c].bound = bound

\* What a Member being deleted cannot finish without: its connection, and, while
\* it recorded no membership, its claim.
CannotFinalize(m) ==
  \/ conn = 0 /\ cr[m].deletionPolicy = "Delete"
  \/ conn # 0 /\ ~Usable(m)
  \/ /\ cr[m].deletionPolicy = "Delete" /\ cr[m].id = 0 /\ HasClaim(m)
     /\ ~ClaimResolves(RefOf[m], cr[m].bound)

\* A deleted Member goes away, unless it CannotFinalize.
MemberDeletionCompletes ==
  \A m \in Members : []<>(~cr[m].deleting \/ CannotFinalize(m))

\* A deleted claim goes away once no Member refers to it, whatever became of its
\* connection.
ClaimDeletionCompletes ==
  \A c \in Claims :
    []<>(~cr[c].deleting \/ \E m \in Members : Exists(m) /\ RefOf[m] = c)

\* What the operator can bring to the state its spec asks for; an external group
\* that is registered otherwise is in the way.
Reconcilable(o) ==
  /\ Exists(o) /\ ~cr[o].deleting /\ Usable(o)
  /\ o \in Claims => group[GroupOf[o]].compatible
  /\ o \in Members => cr[o].creationPolicy = "CreateOrAdopt"

ClaimReconcilable(m) == HasClaim(m) => Reconcilable(RefOf[m])

\* Once disturbances end, every resource with a usable connection, a Member also
\* with a claim that can be reconciled, is Ready and stays so.
ResourcesGetReady ==
  /\ \A c \in Claims : <>[](Reconcilable(c) => Ready(c))
  /\ \A m \in Members :
       <>[](Reconcilable(m) /\ ClaimReconcilable(m) => Ready(m))

\* With drift detection the membership a CreateOrAdopt Member of a user records
\* then also exists and has its role.
MembersConverge ==
  \A m \in Members :
    <>[](Reconcilable(m) /\ ~HasClaim(m) =>
           /\ membership[EntityOf(m)].id = cr[m].id
           /\ membership[EntityOf(m)].role = cr[m].role)

-----------------------------------------------------------------------------
(* What the documentation says and the code does not do *)

\* "On CR deletion, it uses those IDs to remove the corresponding member without
\* depending on referenced Project, User, or UserGroupClaim resources still
\* existing": with its connection in place a deleted Member goes away.
DeletionNeedsNoClaim ==
  \A m \in Members :
    []<>(~cr[m].deleting \/ ~Usable(m))

\* "A different or previously unknown membership still requires an adoption
\* policy": under Create the operator changes the role of the membership on record
\* only (ensureMemberPresent).
UnknownMembershipNeedsAdoption ==
  [][\A e \in Entities :
       /\ UpdateProjectMemberRole /\ membership'[e] # membership[e]
       /\ M.creationPolicy = "Create"
       => membership[e].id = M.id]_vars

=============================================================================
