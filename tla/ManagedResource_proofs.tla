----------------------- MODULE ManagedResource_proofs -----------------------
(***************************************************************************)
(* Type correctness of ManagedResource, for every set of resources, kind,  *)
(* policy, payload and bound.                                              *)
(***************************************************************************)
EXTENDS ManagedResource, TLAPS

-----------------------------------------------------------------------------
(* Types *)

\* TypeOK is not inductive alone: the id of a new Harbor object is a number only
\* because the worker is bound to a Harbor instance when it creates one.
TypeInv ==
  /\ TypeOK
  /\ pc \notin {"idle", "mark", "bind"} => mem.bound # 0

LEMMA NoResourceType == NoResource \in Resource /\ NoResource.inc = 0
BY ConstantsAssumption, BoundsAssumption DEF NoResource, Resource, Reasons, NotReadyReasons

LEMMA TypeInit == Init => TypeInv
<1> SUFFICES ASSUME Init PROVE TypeInv
  OBVIOUS
<1>1. /\ cr \in [Objects -> Resource] /\ cache \in [Objects -> Resource]
      /\ mem \in Resource /\ lastInc \in [Objects -> Nat]
  BY NoResourceType DEF Init
<1>2. /\ lastUid \in 0..MaxUid /\ conn \in 0..MaxUid /\ budget \in Nat
  <2>1. /\ lastUid = IF MaxUid > 0 THEN 1 ELSE 0
        /\ conn = lastUid /\ budget = MaxDisturb
    BY DEF Init
  <2> QED BY <2>1, BoundsAssumption
<1>5. lastId \in [1..MaxUid -> Nat]
  BY DEF Init
<1>3. cacheFresh \in [Objects -> BOOLEAN] /\ memFresh \in BOOLEAN
  BY DEF Init
<1>4. /\ queue \subseteq Objects /\ timer \subseteq Objects
      /\ pc \in PCs /\ cur \in Objects /\ err \in Reasons
      /\ harbor \subseteq HarborObject /\ kind \in Kinds
      /\ secret \in BOOLEAN /\ refReady \in BOOLEAN /\ pc = "idle"
  BY DEF Init, PCs, Reasons, NotReadyReasons
<1> QED BY <1>1, <1>2, <1>3, <1>4, <1>5 DEF TypeInv, TypeOK

\* The ways a reconcile step ends, each keeping the worker's and the API server's
\* types.
StepType ==
  /\ cr \in [Objects -> Resource]
  /\ cacheFresh \in [Objects -> BOOLEAN]
  /\ queue \subseteq Objects /\ timer \subseteq Objects
  /\ pc \in PCs /\ cur \in Objects
  /\ mem \in Resource /\ memFresh \in BOOLEAN
  /\ err \in Reasons
  /\ pc \notin {"idle", "mark", "bind"} => mem.bound # 0

LEMMA ReturnType ==
  ASSUME TypeInv, NEW r, NEW d, Return(r, d), UNCHANGED <<cr, cacheFresh>>
  PROVE  StepType'
BY NoResourceType DEF TypeInv, TypeOK, Return, StepType, PCs, Reasons, NotReadyReasons

LEMMA GotoType ==
  ASSUME TypeInv, NEW p \in PCs, NEW rec \in Resource, Goto(p, rec),
         p \notin {"idle", "mark", "bind"} => rec.bound # 0,
         UNCHANGED <<cr, cacheFresh>>
  PROVE  StepType'
BY DEF TypeInv, TypeOK, Goto, StepType

LEMMA PersistType ==
  ASSUME TypeInv, NEW p \in PCs, NEW rec \in Resource, Persist(rec, p),
         p \notin {"idle", "mark", "bind"} => rec.bound # 0
  PROVE  StepType'
<1>1. CASE Accepted /\ Store(rec) /\ Goto(p, rec)
  BY <1>1 DEF TypeInv, TypeOK, Goto, Store, StepType
<1>2. CASE Refused
  BY <1>2, ReturnType DEF Refused
<1> QED BY <1>1, <1>2 DEF Persist

LEMMA PersistAndReturnType ==
  ASSUME TypeInv, NEW rec \in Resource, NEW r, NEW d, PersistAndReturn(rec, r, d)
  PROVE  StepType'
<1>1. CASE Accepted /\ Store(rec) /\ Return(r, d)
  BY <1>1, NoResourceType
  DEF TypeInv, TypeOK, Return, Store, StepType, PCs, Reasons, NotReadyReasons
<1>2. CASE Refused
  BY <1>2, ReturnType DEF Refused
<1> QED BY <1>1, <1>2 DEF PersistAndReturn

LEMMA MarkedType ==
  ASSUME NEW rec \in Resource, NEW reason \in Reasons
  PROVE  Marked(rec, reason) \in Resource /\ Marked(rec, reason).bound = rec.bound
BY DEF Marked, Resource

LEMMA SetStatusType ==
  ASSUME TypeInv, NEW reason \in Reasons, NEW r, NEW d,
         SetStatusAndReturn(reason, r, d)
  PROVE  StepType'
BY MarkedType, PersistAndReturnType, ReturnType DEF SetStatusAndReturn, TypeInv, TypeOK

LEMMA CallFailedType ==
  ASSUME TypeInv, NEW reason \in Reasons, CallFailed(reason), mem.bound # 0,
         UNCHANGED <<cr, cacheFresh>>
  PROVE  StepType'
BY DEF TypeInv, TypeOK, CallFailed, StepType, PCs

LEMMA RemoveFinalizerType ==
  ASSUME TypeInv, RemoveFinalizer
  PROVE  StepType'
BY NoResourceType, PersistAndReturnType, ReturnType DEF RemoveFinalizer

LEMMA WithoutConnectionType ==
  ASSUME TypeInv, NEW reason \in Reasons, NEW nf, WithoutConnection(reason, nf)
  PROVE  StepType'
BY RemoveFinalizerType, SetStatusType DEF WithoutConnection, Fail

\* The step keeps the types if it keeps Harbor's and the budget's.
LEMMA StepTypeSuffices ==
  ASSUME TypeInv, StepType',
         UNCHANGED <<kind, lastInc, cache, conn, lastUid, secret, refReady>>,
         harbor' \subseteq HarborObject, lastId' \in [1..MaxUid -> Nat],
         budget' \in Nat
  PROVE  TypeInv'
BY DEF TypeInv, TypeOK, StepType

LEMMA StepTypeUnchanged ==
  ASSUME TypeInv, StepType',
         UNCHANGED <<kind, lastInc, cache, harborVars, worldVars>>
  PROVE  TypeInv'
BY DEF TypeInv, TypeOK, StepType, harborVars, worldVars

LEMMA PCTypes ==
  ASSUME NEW rec
  PROVE  /\ ApplyPC(rec) \in PCs \ {"idle", "mark", "bind"}
         /\ AcquiredPC(rec) \in PCs \ {"idle", "mark", "bind"}
         /\ AcquirePC(rec) \in PCs \ {"idle", "mark", "bind"}
         /\ HeldPC(rec) \in PCs \ {"idle", "mark", "bind"}
         /\ ResolvedPC(rec) \in PCs \ {"idle", "mark", "bind"}
BY DEF ApplyPC, AcquiredPC, AcquirePC, HeldPC, ResolvedPC, PCs

LEMMA FaultType == ASSUME budget \in Nat, Fault PROVE budget' \in Nat
BY DEF Fault

\* The ways a Harbor call leaves the worker.
LEMMA NewObjectType ==
  ASSUME TypeInv, pc = "create"
  PROVE  NewObject \in HarborObject
<1>1. mem.bound \in 1..MaxUid /\ mem.data \in Data /\ mem.inc \in Nat
  BY BoundsAssumption DEF TypeInv, TypeOK, Resource
<1>2. Me \in Clients /\ HarborName[cur] \in {HarborName[o] : o \in Objects}
  BY <1>1 DEF Me, Clients, TypeInv, TypeOK
<1>3. lastId[mem.bound] + 1 \in Nat
  BY <1>1 DEF TypeInv, TypeOK
<1> QED BY <1>1, <1>2, <1>3 DEF NewObject, HarborObject

LEMMA OverwriteType ==
  ASSUME TypeInv, NEW x \in harbor
  PROVE  Overwrite(x) \in HarborObject
<1>1. mem.data \in Data /\ mem.inc \in Nat /\ x \in HarborObject
  BY DEF TypeInv, TypeOK, Resource
<1>2. Me \in Clients
  BY <1>1 DEF Me, Clients, TypeInv, TypeOK
<1> QED BY <1>1, <1>2 DEF Overwrite, HarborObject

LEMMA ReconcileType == TypeInv /\ Reconcile => TypeInv'
<1> SUFFICES ASSUME TypeInv, Reconcile PROVE TypeInv'
  OBVIOUS
<1>0. /\ mem \in Resource /\ "HarborError" \in Reasons /\ "Conflict" \in Reasons
      /\ "NotFound" \in Reasons /\ "Reconciling" \in Reasons /\ err \in Reasons
      /\ "Created" \in Reasons /\ "Reconciled" \in Reasons
      /\ "ConnectionNotFound" \in Reasons /\ "SecretNotFound" \in Reasons
      /\ "ConnectionChanged" \in Reasons /\ "ReferenceError" \in Reasons
      /\ "CreationDenied" \in Reasons /\ budget \in Nat
      /\ harbor \subseteq HarborObject /\ lastId \in [1..MaxUid -> Nat]
  BY DEF TypeInv, TypeOK, Reasons, ReadyReasons, NotReadyReasons
<1>1. CASE MarkReconcilingIfNeeded
  BY <1>1, <1>0, MarkedType, GotoType, PersistType, StepTypeUnchanged
  DEF MarkReconcilingIfNeeded, PCs
<1>2. CASE GetHarborClientForObject
  <2>1. CASE conn = 0 /\ WithoutConnection("ConnectionNotFound", TRUE)
    BY <1>2, <2>1, <1>0, WithoutConnectionType, StepTypeUnchanged
    DEF GetHarborClientForObject
  <2>2. CASE WithoutConnection("ConnectionChanged", FALSE)
    BY <1>2, <2>2, <1>0, WithoutConnectionType, StepTypeUnchanged
    DEF GetHarborClientForObject
  <2>3. CASE conn # 0 /\ mem.bound = conn /\ Goto("client", mem)
             /\ UNCHANGED <<cr, cacheFresh>>
    BY <1>2, <2>3, <1>0, GotoType, StepTypeUnchanged
    DEF GetHarborClientForObject, PCs
  <2>4. CASE conn # 0 /\ mem.bound = 0 /\ Persist([mem EXCEPT !.bound = conn], "client")
    <3>1. [mem EXCEPT !.bound = conn] \in Resource
          /\ [mem EXCEPT !.bound = conn].bound # 0
      BY <2>4 DEF TypeInv, TypeOK, Resource
    <3> QED BY <1>2, <2>4, <3>1, PersistType, StepTypeUnchanged
        DEF GetHarborClientForObject, PCs
  <2> QED BY <1>2, <2>1, <2>2, <2>3, <2>4 DEF GetHarborClientForObject
<1>3. CASE BuildHarborClient
  BY <1>3, <1>0, GotoType, WithoutConnectionType, StepTypeUnchanged
  DEF BuildHarborClient, PCs, TypeInv
<1>4. CASE FinalizeIfDeleting
  BY <1>4, RemoveFinalizerType, StepTypeUnchanged DEF FinalizeIfDeleting
<1>5. CASE DeleteRemote
  <2>0. mem.bound # 0 /\ UNCHANGED <<cr, cacheFresh>>
    BY <1>5 DEF DeleteRemote, TypeInv, apiVars
  <2>1. CleanupFailed => StepType'
    BY <2>0, <1>0, ReturnType, CallFailedType DEF CleanupFailed
  <2>2. Goto("unfinalize", mem) => StepType'
    BY <2>0, <1>0, GotoType DEF PCs
  <2>3. StepType' /\ harbor' \subseteq HarborObject /\ budget' \in Nat
    BY <1>5, <2>1, <2>2, <1>0, FaultType DEF DeleteRemote
  <2> QED BY <1>5, <2>3, <1>0, StepTypeSuffices DEF DeleteRemote, apiVars
<1>6. CASE FinalizeAfterCleanup
  BY <1>6, RemoveFinalizerType, StepTypeUnchanged DEF FinalizeAfterCleanup
<1>7. CASE EnsureFinalizer
  <2>1. /\ [mem EXCEPT !.fin = TRUE] \in Resource
        /\ [mem EXCEPT !.fin = TRUE].bound = mem.bound /\ mem.bound # 0
    BY <1>7, <1>0 DEF Resource, EnsureFinalizer, TypeInv
  <2> QED BY <1>7, <2>1, <1>0, PCTypes, GotoType, PersistType, StepTypeUnchanged
      DEF EnsureFinalizer
<1>8. CASE ResolveReferences
  BY <1>8, <1>0, PCTypes, GotoType, SetStatusType, StepTypeUnchanged
  DEF ResolveReferences, Fail, TypeInv
<1>9. CASE AdoptExisting
  <2>0. mem.bound # 0 /\ UNCHANGED <<cr, cacheFresh>>
    BY <1>9 DEF AdoptExisting, TypeInv, apiVars
  <2>1. ASSUME NEW x \in Matching, Goto("adopted", [mem EXCEPT !.id = x.id])
        PROVE  StepType'
    <3>1. x \in HarborObject
      BY <1>0 DEF Matching
    <3>2. [mem EXCEPT !.id = x.id] \in Resource
          /\ [mem EXCEPT !.id = x.id].bound = mem.bound
      BY <3>1, <1>0 DEF HarborObject, Resource
    <3> QED BY <2>0, <2>1, <3>2, GotoType DEF PCs
  <2>2. Goto(AcquiredPC(mem), mem) => StepType'
    BY <2>0, <1>0, PCTypes, GotoType
  <2>3. CallFailed("HarborError") => StepType'
    BY <2>0, <1>0, CallFailedType
  <2>4. StepType' /\ budget' \in Nat
    BY <1>9, <2>1, <2>2, <2>3, <1>0, FaultType DEF AdoptExisting
  <2> QED BY <1>9, <2>4, <1>0, StepTypeSuffices DEF AdoptExisting, apiVars, harborVars
<1>10. CASE PersistAdoption
  BY <1>10, <1>0, PCTypes, PersistType, PersistAndReturnType, StepTypeUnchanged
  DEF PersistAdoption, TypeInv
<1>11. CASE RequireCreationAllowed
  BY <1>11, <1>0, SetStatusType, StepTypeUnchanged DEF RequireCreationAllowed, Fail
<1>12. CASE CreateRemote
  <2>0. mem.bound # 0 /\ UNCHANGED <<cr, cacheFresh>> /\ NewObject \in HarborObject
    BY <1>12, NewObjectType DEF CreateRemote, TypeInv, apiVars
  <2>1. /\ [mem EXCEPT !.id = NewObject.id] \in Resource
        /\ [mem EXCEPT !.id = NewObject.id].bound = mem.bound
    BY <2>0, <1>0 DEF HarborObject, Resource
  <2>2. Goto("lookup", mem) \/ Goto("created", [mem EXCEPT !.id = NewObject.id])
        => StepType'
    BY <2>0, <2>1, <1>0, GotoType DEF PCs
  <2>3. CallFailed("HarborError") \/ CallFailed("Conflict") => StepType'
    BY <2>0, <1>0, CallFailedType
  <2>4. [lastId EXCEPT ![mem.bound] = @ + 1] \in [1..MaxUid -> Nat]
    <3>1. mem.bound \in 1..MaxUid
      BY <2>0, <1>0, BoundsAssumption DEF Resource
    <3>2. lastId[mem.bound] + 1 \in Nat
      BY <3>1, <1>0
    <3> QED BY <3>2, <1>0
  <2>5. /\ StepType' /\ budget' \in Nat
        /\ harbor' \subseteq HarborObject /\ lastId' \in [1..MaxUid -> Nat]
    BY <1>12, <2>0, <2>2, <2>3, <2>4, <1>0, FaultType DEF CreateRemote, harborVars
  <2> QED BY <1>12, <2>5, StepTypeSuffices DEF CreateRemote, apiVars
<1>13. CASE LookupRemote
  <2>0. mem.bound # 0 /\ UNCHANGED <<cr, cacheFresh>>
    BY <1>13 DEF LookupRemote, TypeInv, apiVars
  <2>1. ASSUME NEW x \in Matching, NEW p \in {"created", "adopted"},
               Goto(p, [mem EXCEPT !.id = x.id])
        PROVE  StepType'
    <3>1. x \in HarborObject
      BY <1>0 DEF Matching
    <3>2. [mem EXCEPT !.id = x.id] \in Resource
          /\ [mem EXCEPT !.id = x.id].bound = mem.bound
      BY <3>1, <1>0 DEF HarborObject, Resource
    <3> QED BY <2>0, <2>1, <3>2, GotoType DEF PCs
  <2>2. Goto("created", mem) => StepType'
    BY <2>0, <1>0, GotoType DEF PCs
  <2>3. CallFailed("HarborError") => StepType'
    BY <2>0, <1>0, CallFailedType
  <2>4. StepType' /\ budget' \in Nat
    BY <1>13, <2>1, <2>2, <2>3, <1>0, FaultType DEF LookupRemote
  <2> QED BY <1>13, <2>4, <1>0, StepTypeSuffices DEF LookupRemote, apiVars, harborVars
<1>14. CASE SetCreatedStatus
  BY <1>14, <1>0, SetStatusType, StepTypeUnchanged DEF SetCreatedStatus
<1>15. CASE GetRemote
  <2>0. mem.bound # 0 /\ UNCHANGED <<cr, cacheFresh>>
    BY <1>15 DEF GetRemote, TypeInv, apiVars
  <2>1. Goto("notFound", [mem EXCEPT !.id = 0]) => StepType'
    <3>1. [mem EXCEPT !.id = 0] \in Resource /\ [mem EXCEPT !.id = 0].bound = mem.bound
      BY <1>0 DEF Resource
    <3> QED BY <2>0, <3>1, GotoType DEF PCs
  <2>2. Goto("ready", mem) \/ Goto("update", mem) => StepType'
    BY <2>0, <1>0, GotoType DEF PCs
  <2>3. CallFailed("HarborError") => StepType'
    BY <2>0, <1>0, CallFailedType
  <2>4. StepType' /\ budget' \in Nat
    BY <1>15, <2>1, <2>2, <2>3, <1>0, FaultType DEF GetRemote
  <2> QED BY <1>15, <2>4, <1>0, StepTypeSuffices DEF GetRemote, apiVars, harborVars
<1>16. CASE RequeueOnRemoteNotFound
  BY <1>16, <1>0, SetStatusType, StepTypeUnchanged DEF RequeueOnRemoteNotFound
<1>17. CASE UpdateRemote
  <2>0. mem.bound # 0 /\ UNCHANGED <<cr, cacheFresh>>
    BY <1>17 DEF UpdateRemote, TypeInv, apiVars
  <2>1. Goto("ready", mem) \/ CallFailed("HarborError") => StepType'
    BY <2>0, <1>0, GotoType, CallFailedType DEF PCs
  <2>2. ASSUME NEW x \in Recorded, harbor' = (harbor \ {x}) \cup {Overwrite(x)}
        PROVE  harbor' \subseteq HarborObject
    BY <2>2, <1>0, OverwriteType DEF Recorded
  <2>3. StepType' /\ budget' \in Nat /\ harbor' \subseteq HarborObject
    BY <1>17, <2>1, <2>2, <1>0, FaultType DEF UpdateRemote
  <2> QED BY <1>17, <2>3, <1>0, StepTypeSuffices DEF UpdateRemote, apiVars
<1>18. CASE SetReadyStatus
  BY <1>18, <1>0, SetStatusType, StepTypeUnchanged DEF SetReadyStatus
<1>19. CASE SetErrorStatus
  BY <1>19, <1>0, SetStatusType, StepTypeUnchanged DEF SetErrorStatus, Fail
<1> QED
  BY <1>1, <1>2, <1>3, <1>4, <1>5, <1>6, <1>7, <1>8, <1>9, <1>10, <1>11, <1>12,
     <1>13, <1>14, <1>15, <1>16, <1>17, <1>18, <1>19 DEF Reconcile

\* Writes of a user keep the types.
LEMMA UserWritesType ==
  ASSUME TypeInv, NEW o \in Objects, NEW rec \in Resource, UserWrites(o, rec),
         lastInc' \in [Objects -> Nat]
  PROVE  TypeInv'
BY DEF TypeInv, TypeOK, UserWrites, harborVars, worldVars

LEMMA CreatedType ==
  ASSUME NEW n \in Nat, NEW d \in Data,
         NEW cp \in CreationPolicies, NEW dp \in DeletionPolicies
  PROVE  NewResource(n, d, cp, dp) \in Resource
<1>1. /\ cp \in {"Create", "Adopt", "CreateOrAdopt"}
      /\ dp \in {"Delete", "Orphan"}
  BY ConstantsAssumption
<1> QED BY <1>1, NoResourceType DEF NewResource, Resource

LEMMA EditedType ==
  ASSUME NEW rec \in Resource, NEW d \in Data, NEW dp \in DeletionPolicies
  PROVE  [rec EXCEPT !.gen = @ + 1, !.data = d, !.deletionPolicy = dp] \in Resource
<1>1. dp \in {"Delete", "Orphan"} /\ rec.gen + 1 \in Nat
  BY ConstantsAssumption DEF Resource
<1> QED BY <1>1 DEF Resource

LEMMA DeletedType ==
  ASSUME NEW rec \in Resource
  PROVE  [rec EXCEPT !.deleting = TRUE, !.gen = @ + 1] \in Resource
<1>1. rec.gen + 1 \in Nat
  BY DEF Resource
<1> QED BY <1>1 DEF Resource

LEMMA TypeStep == TypeInv /\ [Next]_vars => TypeInv'
<1> SUFFICES ASSUME TypeInv, [Next]_vars PROVE TypeInv'
  OBVIOUS
<1>1. CASE Reconcile
  BY <1>1, ReconcileType
<1>2. ASSUME NEW o \in Objects, LoadResource(o) PROVE TypeInv'
  <2>1. CASE cache[o].inc = 0
    BY <1>2, <2>1, NoResourceType
    DEF LoadResource, TypeInv, TypeOK, PCs, apiVars, harborVars, worldVars
  <2>2. CASE cache[o].inc # 0
    BY <1>2, <2>2
    DEF LoadResource, TypeInv, TypeOK, PCs, apiVars, harborVars, worldVars
  <2> QED BY <2>1, <2>2
<1>3. ASSUME NEW o \in Objects, SyncCache(o) PROVE TypeInv'
  BY <1>3 DEF SyncCache, TypeInv, TypeOK, harborVars, worldVars
<1>4. ASSUME NEW o \in Objects, DriftTimer(o) PROVE TypeInv'
  BY <1>4 DEF DriftTimer, TypeInv, TypeOK, apiVars, harborVars, worldVars
<1>5. ASSUME NEW o \in Objects, UserCreate(o) PROVE TypeInv'
  <2>1. PICK d \in Data, cp \in CreationPolicies, dp \in DeletionPolicies :
          UserWrites(o, NewResource(lastInc[o] + 1, d, cp, dp))
    BY <1>5 DEF UserCreate
  <2>2. NewResource(lastInc[o] + 1, d, cp, dp) \in Resource
    <3>1. lastInc[o] + 1 \in Nat
      BY DEF TypeInv, TypeOK
    <3> QED BY <3>1, CreatedType
  <2>3. lastInc' \in [Objects -> Nat]
    BY <1>5 DEF UserCreate, TypeInv, TypeOK
  <2> QED BY <2>1, <2>2, <2>3, UserWritesType
<1>6. ASSUME NEW o \in Objects, UserEdit(o) PROVE TypeInv'
  <2>1. PICK d \in Data, dp \in DeletionPolicies :
          UserWrites(o, [cr[o] EXCEPT !.gen = @ + 1, !.data = d,
                                      !.deletionPolicy = dp])
    BY <1>6 DEF UserEdit
  <2>2. [cr[o] EXCEPT !.gen = @ + 1, !.data = d, !.deletionPolicy = dp] \in Resource
    BY EditedType DEF TypeInv, TypeOK
  <2>3. lastInc' \in [Objects -> Nat]
    BY <1>6 DEF UserEdit, TypeInv, TypeOK
  <2> QED BY <2>1, <2>2, <2>3, UserWritesType
<1>7. ASSUME NEW o \in Objects, UserDelete(o) PROVE TypeInv'
  <2>1. [cr[o] EXCEPT !.deleting = TRUE, !.gen = @ + 1] \in Resource
    BY DeletedType DEF TypeInv, TypeOK
  <2>2. lastInc' \in [Objects -> Nat]
    BY <1>7 DEF UserDelete, TypeInv, TypeOK
  <2> QED BY <1>7, <2>1, <2>2, NoResourceType, UserWritesType DEF UserDelete
<1>8. CASE Crash
  <2>1. /\ mem' \in Resource /\ err' \in Reasons
        /\ pc' = "idle" /\ pc' \in PCs /\ queue' \subseteq Objects /\ timer' = {}
    BY <1>8, NoResourceType DEF Crash, PCs, Reasons, NotReadyReasons
  <2>3. budget' \in Nat
    BY <1>8, FaultType DEF Crash, TypeInv, TypeOK
  <2>2. /\ cr' \in [Objects -> Resource] /\ cache' \in [Objects -> Resource]
        /\ cacheFresh' \in [Objects -> BOOLEAN] /\ memFresh' \in BOOLEAN
    BY <1>8 DEF Crash, TypeInv, TypeOK
  <2> QED BY <1>8, <2>1, <2>2, <2>3 DEF Crash, TypeInv, TypeOK, harborVars
<1>9. CASE DeleteConnection
  BY <1>9, BoundsAssumption
  DEF DeleteConnection, Fault, EnqueueDependents, TypeInv, TypeOK, apiVars, harborVars
<1>10. CASE CreateConnection
  BY <1>10, BoundsAssumption
  DEF CreateConnection, EnqueueDependents, TypeInv, TypeOK, apiVars, harborVars
<1>11. CASE LoseSecret \/ RestoreSecret \/ LoseReference \/ ReferenceResolves
  <2>1. /\ UNCHANGED <<kind, apiVars, workerVars, harborVars, conn, lastUid>>
        /\ secret' \in BOOLEAN /\ refReady' \in BOOLEAN
        /\ Fault \/ UNCHANGED budget
    BY <1>11
    DEF LoseSecret, RestoreSecret, LoseReference, ReferenceResolves, TypeInv, TypeOK
  <2>2. budget' \in Nat
    BY <2>1, FaultType DEF TypeInv, TypeOK
  <2> QED BY <2>1, <2>2 DEF TypeInv, TypeOK, apiVars, workerVars, harborVars
<1>12. CASE ForeignCreate
  <2>1. PICK h \in 1..MaxUid, o \in Objects, d \in Data :
          /\ harbor' = harbor \cup
               {[at |-> h, id |-> lastId[h] + 1, name |-> HarborName[o],
                 data |-> d, maker |-> <<Env, 0>>, writer |-> <<Env, 0>>]}
          /\ lastId' = [lastId EXCEPT ![h] = @ + 1]
    BY <1>12 DEF ForeignCreate
  <2>2. lastId \in [1..MaxUid -> Nat] /\ lastId[h] + 1 \in Nat
    BY DEF TypeInv, TypeOK
  <2>3. harbor' \subseteq HarborObject /\ lastId' \in [1..MaxUid -> Nat]
    BY <2>1, <2>2 DEF HarborObject, Clients, TypeInv, TypeOK
  <2> QED BY <1>12, <2>3
      DEF ForeignCreate, Fault, TypeInv, TypeOK, apiVars, workerVars
<1>13. CASE ForeignUpdate
  <2>1. PICK x \in harbor : \E d \in Data \ {x.data} :
          harbor' = (harbor \ {x}) \cup {[x EXCEPT !.data = d, !.writer = <<Env, 0>>]}
    BY <1>13 DEF ForeignUpdate
  <2>2. harbor' \subseteq HarborObject
    BY <2>1 DEF HarborObject, Clients, TypeInv, TypeOK
  <2> QED BY <1>13, <2>2
      DEF ForeignUpdate, Fault, TypeInv, TypeOK, apiVars, workerVars
<1>14. CASE ForeignDelete
  BY <1>14 DEF ForeignDelete, Fault, TypeInv, TypeOK, apiVars, workerVars
<1>15. CASE UNCHANGED vars
  BY <1>15
  DEF vars, TypeInv, TypeOK, apiVars, workerVars, harborVars, worldVars
<1> QED
  BY <1>1, <1>2, <1>3, <1>4, <1>5, <1>6, <1>7, <1>8, <1>9, <1>10, <1>11, <1>12,
     <1>13, <1>14, <1>15 DEF Next

\* Every behaviour keeps every variable in its type; in particular every id and
\* every reason the reconcilers compute is one the status can hold.
THEOREM TypeCorrect == Spec => []TypeOK
<1>1. TypeInv => TypeOK
  BY DEF TypeInv
<1> QED BY <1>1, TypeInit, TypeStep, PTL DEF Spec

=============================================================================
