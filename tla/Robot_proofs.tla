---------------------------- MODULE Robot_proofs ----------------------------
(***************************************************************************)
(* Types and safety of Robot, for every set of resources, Secrets, names,  *)
(* policies, payloads and every bound.                                     *)
(***************************************************************************)
EXTENDS Robot, TLAPS

-----------------------------------------------------------------------------
(* The inductive invariant *)

\* The resources that announce only credentials of the set S.
Known(S) == {rec \in Resource : rec.rotated # None => rec.rotated \in S}

\* What a step of the worker keeps: types, and that neither the API server's
\* resources nor the worker's copy announce a credential that was not stored.
WorkerOK ==
  /\ cr \in [Objects -> Known(stored)]
  /\ cacheFresh \in [Objects -> BOOLEAN]
  /\ queue \subseteq Objects /\ timer \subseteq Objects
  /\ pc \in PCs /\ cur \in Objects
  /\ mem \in Known(stored) /\ memFresh \in BOOLEAN
  /\ seen \in Nat /\ cred \in Credential \cup {None} /\ dirty \in BOOLEAN
  /\ err \in Reasons
  /\ pc \in {"storeNew", "store"} => cred \in Credential

SecretsOK ==
  /\ sec \in [Secrets -> Secret] /\ secCache \in [Secrets -> Secret]
  /\ secFresh \in [Secrets -> BOOLEAN] /\ stored \subseteq Credential
  /\ \A s \in Secrets : secFresh[s] => secCache[s] = sec[s]

RobotsOK == robots \subseteq RobotAccount /\ lastId \in Nat

CacheOK == cache \in [Objects -> Known(stored)] /\ lastInc \in [Objects -> Nat]

WorldOK == now \in Nat /\ conn \in Nat /\ lastUid \in Nat /\ budget \in Nat

IInv == WorkerOK /\ SecretsOK /\ RobotsOK /\ CacheOK /\ WorldOK

-----------------------------------------------------------------------------
(* Resources *)

LEMMA KnownGrows ==
  ASSUME NEW S, NEW U, S \subseteq U PROVE Known(S) \subseteq Known(U)
BY DEF Known

LEMMA NoResourceKnown ==
  ASSUME NEW S 
  PROVE  /\ NoResource \in Known(S) /\ NoResource \in Resource
         /\ NoResource.inc = 0 /\ NoResource.rotated = None
<1>1. /\ AnyObject \in Objects /\ Dest[AnyObject] \in Secrets
      /\ (CHOOSE d \in Data : TRUE) \in Data
      /\ (CHOOSE p \in CreationPolicies : TRUE) \in CreationPolicies
      /\ (CHOOSE p \in DeletionPolicies : TRUE) \in DeletionPolicies
  BY ConstantsAssumption DEF AnyObject
<1>2. NoResource \in Resource /\ NoResource.rotated = None /\ NoResource.inc = 0
  BY <1>1 DEF NoResource, Resource, Reasons, NotReadyReasons
<1> QED BY <1>2 DEF Known

LEMMA MarkedKnown ==
  ASSUME NEW S, NEW rec \in Known(S), NEW reason \in Reasons
  PROVE  Marked(rec, reason) \in Known(S)
BY DEF Marked, Known, Resource

LEMMA FieldsKnown ==
  ASSUME NEW S, NEW rec \in Known(S), NEW n \in Nat
  PROVE  /\ [rec EXCEPT !.id = n] \in Known(S)
         /\ [rec EXCEPT !.exp = n] \in Known(S)
         /\ [rec EXCEPT !.bound = n] \in Known(S)
         /\ [rec EXCEPT !.fin = TRUE] \in Known(S)
BY DEF Known, Resource

LEMMA RotatedKnown ==
  ASSUME NEW S, NEW rec \in Known(S), NEW c \in Credential, c \in S
  PROVE  [rec EXCEPT !.rotated = c] \in Known(S)
BY DEF Known, Resource

LEMMA UserKnown ==
  ASSUME NEW S, NEW rec \in Known(S), NEW n \in Nat, NEW d \in Data,
         NEW s \in Secrets, NEW cp \in CreationPolicies, NEW dp \in DeletionPolicies
  PROVE  /\ [NoResource EXCEPT !.inc = n + 1, !.gen = 1, !.data = d, !.dest = s,
               !.creationPolicy = cp, !.deletionPolicy = dp] \in Known(S)
         /\ [rec EXCEPT !.gen = @ + 1, !.data = d, !.dest = s,
                        !.deletionPolicy = dp] \in Known(S)
         /\ [rec EXCEPT !.deleting = TRUE, !.gen = @ + 1] \in Known(S)
<1>1. NoResource \in Resource /\ NoResource.rotated = None /\ n + 1 \in Nat
  BY NoResourceKnown
<1>2. rec \in Resource /\ rec.gen + 1 \in Nat
  BY DEF Known, Resource
<1>3. [NoResource EXCEPT !.inc = n + 1, !.gen = 1, !.data = d, !.dest = s,
               !.creationPolicy = cp, !.deletionPolicy = dp] \in Known(S)
  <2>1. [NoResource EXCEPT !.inc = n + 1, !.gen = 1, !.data = d, !.dest = s,
               !.creationPolicy = cp, !.deletionPolicy = dp] \in Resource
    BY <1>1 DEF Resource
  <2>2. [NoResource EXCEPT !.inc = n + 1, !.gen = 1, !.data = d, !.dest = s,
               !.creationPolicy = cp, !.deletionPolicy = dp].rotated = None
    BY <1>1 DEF Resource
  <2> QED BY <2>1, <2>2 DEF Known
<1>4. [rec EXCEPT !.gen = @ + 1, !.data = d, !.dest = s,
                  !.deletionPolicy = dp] \in Known(S)
  BY <1>2 DEF Known, Resource
<1>5. [rec EXCEPT !.deleting = TRUE, !.gen = @ + 1] \in Known(S)
  BY <1>2 DEF Known, Resource
<1> QED BY <1>3, <1>4, <1>5

-----------------------------------------------------------------------------
(* Initial states *)

LEMMA Initially == Init => IInv
<1> SUFFICES ASSUME Init PROVE IInv
  OBVIOUS
<1>1. WorkerOK
  <2>1. /\ cr \in [Objects -> Known(stored)] /\ mem \in Known(stored)
    BY NoResourceKnown DEF Init
  <2>2. pc \in PCs /\ err \in Reasons /\ cur \in Objects
    BY ConstantsAssumption DEF Init, PCs, Reasons, NotReadyReasons, AnyObject
  <2>3. /\ cacheFresh \in [Objects -> BOOLEAN] /\ queue = {} /\ timer = {} /\ pc = "idle"
        /\ memFresh = FALSE /\ seen = 0 /\ cred = None /\ dirty = FALSE
    BY DEF Init
  <2> QED BY <2>1, <2>2, <2>3 DEF WorkerOK
<1>2. SecretsOK
  <2>1. NoSecret \in Secret
    BY DEF NoSecret, Secret
  <2> QED BY <2>1 DEF Init, SecretsOK
<1>3. RobotsOK
  BY DEF Init, RobotsOK
<1>4. CacheOK
  BY NoResourceKnown DEF Init, CacheOK
<1>5. WorldOK
  <2>1. lastUid = (IF MaxUid > 0 THEN 1 ELSE 0) /\ conn = lastUid
        /\ budget = MaxDisturb /\ now = 0
    BY DEF Init
  <2> QED BY <2>1, BoundsAssumption DEF WorldOK
<1> QED BY <1>1, <1>2, <1>3, <1>4, <1>5 DEF IInv

-----------------------------------------------------------------------------
(* The ways a reconcile step ends *)

LEMMA ReturnOK ==
  ASSUME WorkerOK, NEW r, NEW d, Return(r, d), KeepResources,
         stored \subseteq stored'
  PROVE  WorkerOK'
<1>1. /\ pc' = "idle" /\ cur' = AnyObject /\ mem' = NoResource
      /\ memFresh' = FALSE /\ seen' = 0 /\ cred' = None /\ dirty' = FALSE
      /\ err' = "" /\ cr' = cr /\ cacheFresh' = cacheFresh
  BY DEF Return, ForgetLocals, KeepResources
<1>2. queue' \subseteq Objects /\ timer' \subseteq Objects
  BY DEF WorkerOK, Return
<1>3. cr' \in [Objects -> Known(stored')] /\ mem' \in Known(stored')
  BY <1>1, KnownGrows, NoResourceKnown DEF WorkerOK
<1>4. pc' \in PCs /\ err' \in Reasons /\ cur' \in Objects
  BY <1>1, ConstantsAssumption DEF PCs, Reasons, NotReadyReasons, AnyObject
<1> QED BY <1>1, <1>2, <1>3, <1>4 DEF WorkerOK

LEMMA MoveOK ==
  ASSUME WorkerOK, NEW p \in PCs, NEW rec \in Known(stored'), NEW s \in Nat,
         NEW c \in Credential \cup {None}, NEW d \in BOOLEAN,
         p \in {"storeNew", "store"} => c \in Credential,
         Move(p, rec, s, c, d), KeepResources, stored \subseteq stored'
  PROVE  WorkerOK'
<1>1. cr' \in [Objects -> Known(stored')]
  BY KnownGrows DEF WorkerOK, KeepResources
<1> QED BY <1>1 DEF WorkerOK, Move, KeepResources

LEMMA GotoOK ==
  ASSUME WorkerOK, NEW p \in PCs \ {"storeNew", "store"},
         NEW rec \in Known(stored), Goto(p, rec),
         KeepResources, UNCHANGED stored
  PROVE  WorkerOK'
BY DEF WorkerOK, Goto, Move, KeepResources

LEMMA CallFailedOK ==
  ASSUME WorkerOK, NEW reason \in Reasons, CallFailed(reason), KeepResources,
         stored \subseteq stored'
  PROVE  WorkerOK'
<1>1. cr' \in [Objects -> Known(stored')] /\ mem' \in Known(stored')
  BY KnownGrows DEF WorkerOK, KeepResources, CallFailed
<1>2. pc' = "error" /\ "error" \in PCs
  BY DEF CallFailed, PCs
<1> QED BY <1>1, <1>2 DEF WorkerOK, CallFailed, KeepResources

LEMMA PersistOK ==
  ASSUME WorkerOK, NEW p \in PCs \ {"storeNew", "store"},
         NEW rec \in Known(stored), Persist(rec, p),
         UNCHANGED stored
  PROVE  WorkerOK'
<1>1. CASE Store(cur, rec) /\ Goto(p, rec)
  BY <1>1 DEF WorkerOK, Store, Goto, Move
<1>2. CASE Refused
  BY <1>2, ReturnOK DEF Refused
<1> QED BY <1>1, <1>2 DEF Persist

LEMMA PersistAndReturnOK ==
  ASSUME WorkerOK, NEW rec \in Known(stored), NEW r, NEW d,
         PersistAndReturn(rec, r, d), UNCHANGED stored
  PROVE  WorkerOK'
<1>1. CASE Store(cur, rec) /\ Return(r, d)
  <2>1. /\ cr' \in [Objects -> Known(stored')]
        /\ cacheFresh' \in [Objects -> BOOLEAN]
    BY <1>1 DEF WorkerOK, Store
  <2>2. /\ pc' = "idle" /\ cur' = AnyObject /\ mem' = NoResource
        /\ memFresh' = FALSE /\ seen' = 0 /\ cred' = None /\ dirty' = FALSE
        /\ err' = "" /\ queue' \subseteq Objects /\ timer' \subseteq Objects
    BY <1>1 DEF WorkerOK, Return, ForgetLocals
  <2>3. pc' \in PCs /\ err' \in Reasons /\ cur' \in Objects
    BY <2>2, ConstantsAssumption DEF PCs, Reasons, NotReadyReasons, AnyObject
  <2>4. mem' \in Known(stored')
    BY <2>2, NoResourceKnown
  <2> QED BY <2>1, <2>2, <2>3, <2>4 DEF WorkerOK
<1>2. CASE Refused
  BY <1>2, ReturnOK DEF Refused
<1> QED BY <1>1, <1>2 DEF PersistAndReturn

LEMMA SetStatusOK ==
  ASSUME WorkerOK, NEW w, NEW reason \in Reasons, NEW r, NEW d,
         SetStatusAndReturn(w, reason, r, d), UNCHANGED stored
  PROVE  WorkerOK'
<1>1. Marked(mem, reason) \in Known(stored)
  BY MarkedKnown DEF WorkerOK
<1>2. \/ PersistAndReturn(Marked(mem, reason), r, d)
      \/ Return(r, d) /\ KeepResources
  BY DEF SetStatusAndReturn
<1> QED BY <1>1, <1>2, PersistAndReturnOK, ReturnOK

LEMMA FailOK ==
  ASSUME WorkerOK, NEW reason \in Reasons, Fail(reason), UNCHANGED stored
  PROVE  WorkerOK'
BY SetStatusOK DEF Fail

LEMMA RemoveFinalizerOK ==
  ASSUME WorkerOK, RemoveFinalizer, UNCHANGED stored
  PROVE  WorkerOK'
BY NoResourceKnown, PersistAndReturnOK, ReturnOK DEF RemoveFinalizer

LEMMA WithoutConnectionOK ==
  ASSUME WorkerOK, NEW reason \in Reasons, NEW nf,
         WithoutConnection(reason, nf), UNCHANGED stored
  PROVE  WorkerOK'
BY RemoveFinalizerOK, FailOK DEF WithoutConnection

LEMMA PCTypes ==
  ASSUME NEW rec
  PROVE  /\ HeldPC(rec) \in PCs \ {"storeNew", "store"}
         /\ BoundPC(rec) \in PCs \ {"storeNew", "store"}
         /\ LoadedPC(rec) \in PCs \ {"storeNew", "store"}
<1>1. HeldPC(rec) \in PCs \ {"storeNew", "store"}
  BY DEF HeldPC, PCs
<1>2. BoundPC(rec) \in PCs \ {"storeNew", "store"}
  BY <1>1 DEF BoundPC, PCs
<1> QED BY <1>1, <1>2 DEF LoadedPC, PCs

LEMMA FaultType == ASSUME WorldOK, Fault \/ NoFault PROVE budget' \in Nat
BY DEF Fault, NoFault, WorldOK

LEMMA ReasonTypes ==
  /\ "HarborError" \in Reasons /\ "Conflict" \in Reasons /\ "NotFound" \in Reasons
  /\ "Reconciling" \in Reasons /\ "Created" \in Reasons /\ "Reconciled" \in Reasons
  /\ "ConnectionNotFound" \in Reasons /\ "SecretNotFound" \in Reasons
  /\ "ConnectionChanged" \in Reasons /\ "ReferenceError" \in Reasons
  /\ "CreationDenied" \in Reasons /\ "SecretError" \in Reasons
BY DEF Reasons, ReadyReasons, NotReadyReasons

\* A step that leaves the Secrets alone keeps the invariant if it keeps its part
\* about the worker, the one about Harbor's robots and the budget.
LEMMA FrameOK ==
  ASSUME IInv, WorkerOK', RobotsOK', budget' \in Nat,
         UNCHANGED <<lastInc, cache, secVars, now, connVars>>
  PROVE  IInv'
<1>1. CacheOK' /\ SecretsOK'
  BY DEF IInv, CacheOK, SecretsOK, secVars
<1>2. WorldOK'
  BY DEF IInv, WorldOK, connVars
<1> QED BY <1>1, <1>2 DEF IInv

LEMMA WorkerFrameOK ==
  ASSUME IInv, WorkerOK', UNCHANGED <<lastInc, cache, secVars, robotVars, now, connVars>>,
         budget' \in Nat
  PROVE  IInv'
<1>1. RobotsOK'
  BY DEF IInv, RobotsOK, robotVars
<1> QED BY <1>1, FrameOK

\* A replaced account is an account.
LEMMA ReplaceOK ==
  ASSUME RobotsOK, NEW x \in robots, NEW y \in RobotAccount, Replace(x, y),
         UNCHANGED lastId
  PROVE  RobotsOK'
BY DEF RobotsOK, Replace

LEMMA RefreshedOK ==
  ASSUME NEW x \in RobotAccount, WorldOK
  PROVE  Refreshed(x) \in RobotAccount /\ <<x.id, x.cred + 1>> \in Credential
<1>1. x.cred + 1 \in Nat /\ now + 1 \in Nat /\ x.id \in Nat
  BY DEF RobotAccount, WorldOK
<1>2. (IF x.exp = 0 THEN 0 ELSE now + 1) \in Nat
  BY <1>1
<1>3. Refreshed(x) = [x EXCEPT !.cred = x.cred + 1,
                               !.exp = IF x.exp = 0 THEN 0 ELSE now + 1]
  BY DEF Refreshed, RobotAccount
<1>4. Refreshed(x) \in RobotAccount
  BY <1>1, <1>2, <1>3 DEF RobotAccount
<1> QED BY <1>1, <1>4 DEF Credential

LEMMA RecordExpiryOK ==
  ASSUME WorkerOK, NEW e \in Nat, RecordExpiry(e), KeepResources, UNCHANGED stored
  PROVE  WorkerOK'
<1>1. [mem EXCEPT !.exp = e] \in Known(stored')
  BY FieldsKnown DEF WorkerOK
<1>2. (IF e > 0 /\ now >= e THEN "rotate" ELSE "ready") \in PCs \ {"storeNew", "store"}
  BY DEF PCs
<1>3. (dirty \/ e # mem.exp) \in BOOLEAN /\ 0 \in Nat /\ None \in Credential \cup {None}
  OBVIOUS
<1> QED BY <1>1, <1>2, <1>3, MoveOK DEF RecordExpiry

-----------------------------------------------------------------------------
(* The reconcile steps *)

LEMMA ReconcileOK == IInv /\ Reconcile => IInv'
<1> SUFFICES ASSUME IInv, Reconcile PROVE IInv'
  OBVIOUS
<1>0. /\ WorkerOK /\ WorldOK /\ RobotsOK /\ mem \in Known(stored) /\ mem \in Resource
      /\ err \in Reasons /\ seen \in Nat /\ cred \in Credential \cup {None}
      /\ dirty \in BOOLEAN
  BY DEF IInv, WorkerOK, Known
<1>00. NoFault \/ UNCHANGED budget => budget' \in Nat
  BY <1>0 DEF NoFault, WorldOK
<1>1. CASE MarkReconcilingIfNeeded
  <2>1. Marked(mem, "Reconciling") \in Known(stored) /\ "bind" \in PCs \ {"storeNew", "store"}
    BY <1>0, MarkedKnown, ReasonTypes DEF PCs
  <2> QED BY <1>0, <1>00, <1>1, <2>1, PersistOK, WorkerFrameOK
      DEF MarkReconcilingIfNeeded, secVars
<1>2. CASE GetHarborClientForObject
  <2>1. /\ budget' \in Nat /\ UNCHANGED stored
        /\ UNCHANGED <<lastInc, cache, secVars, robotVars, now, connVars>>
    BY <1>0, <1>2, FaultType DEF GetHarborClientForObject, secVars
  <2>2. WithoutConnection("ConnectionNotFound", TRUE)
        \/ WithoutConnection("ConnectionChanged", FALSE) => WorkerOK'
    BY <1>0, <2>1, WithoutConnectionOK, ReasonTypes
  <2>3. /\ BoundPC(mem) \in PCs \ {"storeNew", "store"}
        /\ "noSecret" \in PCs \ {"storeNew", "store"}
    BY PCTypes DEF PCs
  <2>4. ASSUME NEW p \in PCs \ {"storeNew", "store"}, KeepResources, Goto(p, mem)
        PROVE  WorkerOK'
    BY <1>0, <2>1, <2>4, GotoOK
  <2>5. ASSUME NEW p \in PCs \ {"storeNew", "store"},
               Persist([mem EXCEPT !.bound = conn], p)
        PROVE  WorkerOK'
    <3>1. conn \in Nat
      BY <1>0 DEF WorldOK
    <3>2. [mem EXCEPT !.bound = conn] \in Known(stored)
      BY <1>0, <3>1, FieldsKnown
    <3> QED BY <1>0, <2>1, <2>5, <3>2, PersistOK
  <2>6. WorkerOK'
    BY <1>2, <2>2, <2>3, <2>4, <2>5 DEF GetHarborClientForObject
  <2> QED BY <2>1, <2>6, WorkerFrameOK
<1>20. CASE BuildHarborClientFails
  BY <1>0, <1>00, <1>20, WithoutConnectionOK, ReasonTypes, WorkerFrameOK
     DEF BuildHarborClientFails, secVars
<1>3. CASE FinalizeIfDeleting
  BY <1>0, <1>00, <1>3, RemoveFinalizerOK, WorkerFrameOK DEF FinalizeIfDeleting, secVars
<1>4. CASE DeleteRobot
  <2>1. /\ budget' \in Nat /\ KeepResources /\ UNCHANGED stored
        /\ UNCHANGED <<lastInc, cache, secVars, now, connVars>>
    BY <1>0, <1>4, FaultType DEF DeleteRobot, secVars, crVars, KeepResources
  <2>2. RobotsOK'
    BY <1>0, <1>4 DEF DeleteRobot, RobotsOK
  <2>3. Goto("unfinalize", mem) => WorkerOK'
    BY <1>0, <2>1, GotoOK DEF PCs
  <2>4. Return(TRUE, FALSE) => WorkerOK'
    BY <1>0, <2>1, ReturnOK
  <2>5. WorkerOK'
    BY <1>4, <2>3, <2>4 DEF DeleteRobot
  <2> QED BY <2>1, <2>2, <2>5, FrameOK
<1>5. CASE FinalizeAfterCleanup
  BY <1>0, <1>00, <1>5, RemoveFinalizerOK, WorkerFrameOK DEF FinalizeAfterCleanup, secVars
<1>6. CASE EnsureFinalizer
  <2>1. [mem EXCEPT !.fin = TRUE] \in Known(stored)
    BY <1>0, FieldsKnown
  <2> QED BY <1>0, <1>00, <1>6, <2>1, PersistOK, PCTypes, WorkerFrameOK
      DEF EnsureFinalizer, secVars
<1>7. CASE AdoptExisting
  <2>1. /\ budget' \in Nat /\ KeepResources /\ UNCHANGED stored
        /\ UNCHANGED <<lastInc, cache, secVars, robotVars, now, connVars>>
    BY <1>0, <1>7, FaultType DEF AdoptExisting, secVars, crVars, KeepResources
  <2>2. ASSUME NEW x \in Matching, Goto("adopted", [mem EXCEPT !.id = x.id])
        PROVE  WorkerOK'
    <3>1. x.id \in Nat
      BY <1>0 DEF Matching, RobotsOK, RobotAccount
    <3>2. [mem EXCEPT !.id = x.id] \in Known(stored) /\ "adopted" \in PCs \ {"storeNew", "store"}
      BY <1>0, <3>1, FieldsKnown DEF PCs
    <3> QED BY <1>0, <2>1, <2>2, <3>2, GotoOK
  <2>3. Goto("create", mem) => WorkerOK'
    BY <1>0, <2>1, GotoOK DEF PCs
  <2>4. CallFailed("HarborError") => WorkerOK'
    BY <1>0, <2>1, CallFailedOK, ReasonTypes
  <2>5. WorkerOK'
    BY <1>7, <2>2, <2>3, <2>4 DEF AdoptExisting
  <2> QED BY <2>1, <2>5, WorkerFrameOK
<1>8. CASE PersistAdoption
  <2>1. "get" \in PCs \ {"storeNew", "store"}
    BY DEF PCs
  <2> QED BY <1>0, <1>00, <1>8, <2>1, PersistOK, WorkerFrameOK DEF PersistAdoption, secVars
<1>9. CASE RequireCreationAllowed
  BY <1>0, <1>00, <1>9, FailOK, ReasonTypes, WorkerFrameOK
  DEF RequireCreationAllowed, secVars
<1>10. CASE CreateRobot
  <2>1. /\ budget' \in Nat /\ KeepResources /\ UNCHANGED stored
        /\ UNCHANGED <<lastInc, cache, secVars, now, connVars>>
    BY <1>0, <1>10, FaultType DEF CreateRobot, secVars, crVars, KeepResources
  <2>2. NewRobot \in RobotAccount /\ NewRobot.id = lastId + 1 /\ lastId + 1 \in Nat
    <3>1. /\ lastId + 1 \in Nat /\ mem.data \in Data /\ now + 1 \in Nat
          /\ RobotName[cur] \in {RobotName[o] : o \in Objects}
      BY <1>0 DEF RobotsOK, WorldOK, WorkerOK, Resource
    <3>2. Expiry \in Nat
      BY <3>1 DEF Expiry
    <3> QED BY <3>1, <3>2 DEF NewRobot, RobotAccount
  <2>3. RobotsOK'
    BY <1>0, <1>10, <2>2 DEF CreateRobot, RobotsOK, robotVars
  <2>4. CallFailed("Conflict") \/ CallFailed("HarborError")
        \/ CallFailed("ReferenceError") => WorkerOK'
    BY <1>0, <2>1, CallFailedOK, ReasonTypes
  <2>5. [mem EXCEPT !.id = NewRobot.id] \in Known(stored)
    BY <1>0, <2>2, FieldsKnown
  <2>6. Move("storeNew", [mem EXCEPT !.id = NewRobot.id], 0, <<NewRobot.id, 1>>, FALSE)
        => WorkerOK'
    <3>1. <<NewRobot.id, 1>> \in Credential /\ "storeNew" \in PCs
      BY <2>2 DEF Credential, PCs
    <3> QED BY <1>0, <2>1, <2>5, <3>1, MoveOK
  <2>7. Goto("rotateNew", [mem EXCEPT !.id = NewRobot.id]) => WorkerOK'
    BY <1>0, <2>1, <2>5, GotoOK DEF PCs
  <2>8. WorkerOK'
    BY <1>10, <2>4, <2>6, <2>7 DEF CreateRobot
  <2> QED BY <2>1, <2>3, <2>8, FrameOK
<1>11. CASE SetCreatedStatus
  BY <1>0, <1>00, <1>11, SetStatusOK, ReasonTypes, WorkerFrameOK DEF SetCreatedStatus, secVars
<1>12. CASE GetRobot
  <2>1. /\ budget' \in Nat /\ KeepResources /\ UNCHANGED stored
        /\ UNCHANGED <<lastInc, cache, secVars, robotVars, now, connVars>>
    BY <1>0, <1>12, FaultType DEF GetRobot, secVars, crVars, KeepResources
  <2>2. Goto("notFound", [mem EXCEPT !.id = 0]) => WorkerOK'
    <3>1. [mem EXCEPT !.id = 0] \in Known(stored) /\ "notFound" \in PCs \ {"storeNew", "store"}
      BY <1>0, FieldsKnown DEF PCs
    <3> QED BY <1>0, <2>1, <3>1, GotoOK
  <2>3. CallFailed("SecretError") \/ CallFailed("ReferenceError")
        \/ CallFailed("HarborError") => WorkerOK'
    BY <1>0, <2>1, CallFailedOK, ReasonTypes
  <2>4. ASSUME NEW x \in Recorded,
               RecordExpiry(x.exp) \/ Move("update", mem, x.exp, None, dirty)
        PROVE  WorkerOK'
    <3>1. x.exp \in Nat /\ "update" \in PCs \ {"storeNew", "store"} /\ None \in Credential \cup {None}
      BY <1>0 DEF Recorded, RobotsOK, RobotAccount, PCs
    <3>2. mem \in Known(stored')
      BY <1>0, <2>1
    <3> QED BY <1>0, <2>1, <2>4, <3>1, <3>2, RecordExpiryOK, MoveOK
  <2>5. WorkerOK'
    BY <1>12, <2>2, <2>3, <2>4 DEF GetRobot
  <2> QED BY <2>1, <2>5, WorkerFrameOK
<1>13. CASE RequeueOnRemoteNotFound
  BY <1>0, <1>00, <1>13, SetStatusOK, ReasonTypes, WorkerFrameOK
  DEF RequeueOnRemoteNotFound, secVars
<1>14. CASE UpdateRobot
  <2>1. /\ budget' \in Nat /\ KeepResources /\ UNCHANGED stored /\ UNCHANGED lastId
        /\ UNCHANGED <<lastInc, cache, secVars, now, connVars>>
    BY <1>0, <1>14, FaultType DEF UpdateRobot, secVars, crVars, KeepResources
  <2>2. ASSUME NEW x \in Recorded, Replace(x, [x EXCEPT !.data = mem.data])
        PROVE  RobotsOK'
    <3>1. x \in robots /\ x \in RobotAccount /\ mem.data \in Data
      BY <1>0 DEF Recorded, RobotsOK, Resource
    <3>2. [x EXCEPT !.data = mem.data] \in RobotAccount
      BY <3>1 DEF RobotAccount
    <3> QED BY <1>0, <2>1, <2>2, <3>1, <3>2, ReplaceOK
  <2>3. RobotsOK'
    <3>1. UNCHANGED robots => RobotsOK'
      BY <1>0, <2>1 DEF RobotsOK
    <3> QED BY <1>14, <2>2, <3>1 DEF UpdateRobot
  <2>4. CallFailed("HarborError") \/ RecordExpiry(seen) => WorkerOK'
    BY <1>0, <2>1, CallFailedOK, RecordExpiryOK, ReasonTypes
  <2>5. WorkerOK'
    BY <1>14, <2>4 DEF UpdateRobot
  <2> QED BY <2>1, <2>3, <2>5, FrameOK
<1>15. CASE RotateRobotSecret
  <2>1. /\ budget' \in Nat /\ KeepResources /\ UNCHANGED stored /\ UNCHANGED lastId
        /\ UNCHANGED <<lastInc, cache, secVars, now, connVars>>
    BY <1>0, <1>15, FaultType DEF RotateRobotSecret, secVars, crVars, KeepResources
  <2>2. ASSUME NEW x \in Recorded
        PROVE  /\ x \in robots /\ Refreshed(x) \in RobotAccount
               /\ <<x.id, x.cred + 1>> \in Credential
    BY <1>0, RefreshedOK DEF Recorded, RobotsOK
  <2>3. RobotsOK'
    <3>1. UNCHANGED robots => RobotsOK'
      BY <1>0, <2>1 DEF RobotsOK
    <3>2. ASSUME NEW x \in Recorded, Replace(x, Refreshed(x)) PROVE RobotsOK'
      BY <1>0, <2>1, <2>2, <3>2, ReplaceOK
    <3> QED BY <1>15, <3>1, <3>2 DEF RotateRobotSecret
  <2>4. ASSUME NEW x \in Recorded,
               Move(IF pc = "rotateNew" THEN "storeNew" ELSE "store", mem, seen,
                    <<x.id, x.cred + 1>>, dirty)
        PROVE  WorkerOK'
    <3>1. (IF pc = "rotateNew" THEN "storeNew" ELSE "store") \in PCs
      BY DEF PCs
    <3>2. mem \in Known(stored') /\ <<x.id, x.cred + 1>> \in Credential
      BY <1>0, <2>1, <2>2
    <3> QED BY <1>0, <2>1, <2>4, <3>1, <3>2, MoveOK
  <2>5. CallFailed("HarborError") => WorkerOK'
    BY <1>0, <2>1, CallFailedOK, ReasonTypes
  <2>6. WorkerOK'
    BY <1>15, <2>4, <2>5 DEF RotateRobotSecret
  <2> QED BY <2>1, <2>3, <2>6, FrameOK
<1>16. CASE UpsertRobotSecret
  <2> DEFINE s == mem.dest
             known == [mem EXCEPT !.rotated = cred]
  <2>1. /\ budget' \in Nat /\ KeepResources /\ cred \in Credential /\ s \in Secrets
        /\ UNCHANGED <<lastInc, cache, secCache, robotVars, now, connVars>>
    BY <1>0, <1>16, FaultType
    DEF UpsertRobotSecret, crVars, KeepResources, WorkerOK, Resource
  <2>2. /\ SecretsOK'
        /\ stored \subseteq stored'
    <3>1. CASE PutSecret(s)
      <4>1. cur \in Objects
        BY <1>0 DEF WorkerOK
      <4>2. [owner |-> cur, cred |-> cred] \in Secret
        BY <2>1, <4>1 DEF Secret
      <4>3. /\ sec' \in [Secrets -> Secret] /\ secFresh' \in [Secrets -> BOOLEAN]
            /\ stored' \subseteq Credential /\ stored \subseteq stored'
        BY <2>1, <3>1, <4>2 DEF PutSecret, IInv, SecretsOK
      <4>4. \A t \in Secrets : secFresh'[t] => t # s /\ secFresh[t] /\ sec'[t] = sec[t]
        BY <2>1, <3>1 DEF PutSecret, IInv, SecretsOK
      <4> QED BY <2>1, <4>3, <4>4 DEF IInv, SecretsOK
    <3>2. CASE UNCHANGED <<sec, secFresh, stored>>
      BY <2>1, <3>2 DEF IInv, SecretsOK
    <3> QED BY <1>16, <3>1, <3>2 DEF UpsertRobotSecret
  <2>3. CallFailed("SecretError") => WorkerOK'
    BY <1>0, <2>1, <2>2, CallFailedOK, ReasonTypes
  <2>4. ASSUME PutSecret(s),
               \/ Move("created", known, 0, None, FALSE)
               \/ Move("again", known, 0, None, TRUE)
        PROVE  WorkerOK'
    <3>1. mem \in Known(stored') /\ cred \in stored'
      BY <1>0, <2>2, <2>4, KnownGrows DEF PutSecret
    <3>2. known \in Known(stored')
      BY <2>1, <3>1, RotatedKnown
    <3>3. /\ "created" \in PCs \ {"storeNew", "store"}
          /\ "again" \in PCs \ {"storeNew", "store"}
      BY DEF PCs
    <3> QED BY <1>0, <2>1, <2>2, <2>4, <3>2, <3>3, MoveOK
  <2>5. WorkerOK'
    BY <1>16, <2>3, <2>4 DEF UpsertRobotSecret
  <2>6. CacheOK' /\ RobotsOK' /\ WorldOK'
    BY <2>1, <2>2, KnownGrows DEF IInv, CacheOK, RobotsOK, WorldOK, robotVars, connVars
  <2> QED BY <2>2, <2>5, <2>6 DEF IInv
<1>17. CASE GetRefreshed
  <2>1. /\ budget' \in Nat /\ KeepResources /\ UNCHANGED stored
        /\ UNCHANGED <<lastInc, cache, secVars, robotVars, now, connVars>>
    BY <1>0, <1>17, FaultType DEF GetRefreshed, secVars, crVars, KeepResources
  <2>2. ASSUME NEW x \in Recorded, Goto("ready", [mem EXCEPT !.exp = x.exp])
        PROVE  WorkerOK'
    <3>1. x.exp \in Nat /\ "ready" \in PCs \ {"storeNew", "store"}
      BY <1>0 DEF Recorded, RobotsOK, RobotAccount, PCs
    <3>2. [mem EXCEPT !.exp = x.exp] \in Known(stored)
      BY <1>0, <3>1, FieldsKnown
    <3> QED BY <1>0, <2>1, <2>2, <3>1, <3>2, GotoOK
  <2>3. Goto("ready", mem) => WorkerOK'
    BY <1>0, <2>1, GotoOK DEF PCs
  <2>4. WorkerOK'
    BY <1>17, <2>2, <2>3 DEF GetRefreshed
  <2> QED BY <2>1, <2>4, WorkerFrameOK
<1>18. CASE SetReadyStatus
  BY <1>0, <1>00, <1>18, SetStatusOK, ReasonTypes, WorkerFrameOK DEF SetReadyStatus, secVars
<1>19. CASE SetErrorStatus
  BY <1>0, <1>00, <1>19, FailOK, WorkerFrameOK DEF SetErrorStatus, secVars
<1> QED
  BY <1>1, <1>2, <1>3, <1>4, <1>5, <1>6, <1>7, <1>8, <1>9, <1>10, <1>11, <1>12,
     <1>13, <1>14, <1>15, <1>16, <1>17, <1>18, <1>19, <1>20 DEF Reconcile

-----------------------------------------------------------------------------
(* The other steps *)

\* A write of a user to a resource.
LEMMA UserWritesOK ==
  ASSUME IInv, NEW o \in Objects, NEW rec \in Known(stored), UserWrites(o, rec),
         lastInc' \in [Objects -> Nat], NoFault
  PROVE  IInv'
<1>1. WorkerOK'
  BY DEF IInv, WorkerOK, UserWrites, Store, secVars
<1>2. SecretsOK' /\ RobotsOK' /\ CacheOK' /\ WorldOK'
  BY DEF IInv, SecretsOK, RobotsOK, CacheOK, WorldOK, UserWrites, NoFault, secVars,
         robotVars, connVars
<1> QED BY <1>1, <1>2 DEF IInv

\* A step of something outside the operator that leaves the resources, the caches
\* and the worker's locals alone.
LEMMA OutsideOK ==
  ASSUME IInv, UNCHANGED <<crVars, localVars, stored, timer>>,
         queue' \subseteq Objects, SecretsOK', RobotsOK', WorldOK'
  PROVE  IInv'
<1>1. WorkerOK' /\ CacheOK'
  BY DEF IInv, WorkerOK, CacheOK, crVars, localVars
<1> QED BY <1>1 DEF IInv

LEMMA CrashOK == ASSUME IInv, Crash PROVE IInv'
<1>1. /\ pc' = "idle" /\ cur' = AnyObject /\ mem' = NoResource
      /\ memFresh' = FALSE /\ seen' = 0 /\ cred' = None /\ dirty' = FALSE
      /\ err' = "" /\ timer' = {} /\ queue' \subseteq Objects
      /\ cache' = cr /\ cacheFresh' \in [Objects -> BOOLEAN]
      /\ secCache' = sec /\ secFresh' = [s \in Secrets |-> TRUE]
      /\ UNCHANGED <<cr, lastInc, sec, stored, robotVars, now, connVars>>
  BY DEF Crash, ForgetLocals
<1>2. WorkerOK'
  <2>1. pc' \in PCs /\ err' \in Reasons /\ cur' \in Objects
    BY <1>1, ConstantsAssumption DEF PCs, Reasons, NotReadyReasons, AnyObject
  <2>2. mem' \in Known(stored') /\ cr' \in [Objects -> Known(stored')]
    BY <1>1, NoResourceKnown DEF IInv, WorkerOK
  <2> QED BY <1>1, <2>1, <2>2 DEF WorkerOK
<1>3. SecretsOK' /\ RobotsOK' /\ CacheOK'
  BY <1>1 DEF IInv, WorkerOK, SecretsOK, RobotsOK, CacheOK, robotVars
<1>4. WorldOK'
  BY <1>1, FaultType DEF Crash, IInv, WorldOK, connVars
<1> QED BY <1>2, <1>3, <1>4 DEF IInv

LEMMA SecretChangesOK ==
  ASSUME IInv, NEW s \in Secrets, NEW new \in Secret, SecretChanges(s, new),
         Fault \/ NoFault
  PROVE  IInv'
<1>1. SecretsOK'
  <2>1. /\ sec' \in [Secrets -> Secret] /\ secFresh' \in [Secrets -> BOOLEAN]
        /\ UNCHANGED <<secCache, stored>>
    BY DEF SecretChanges, IInv, SecretsOK
  <2>2. \A t \in Secrets : secFresh'[t] => t # s /\ secFresh[t] /\ sec'[t] = sec[t]
    BY DEF SecretChanges, IInv, SecretsOK
  <2> QED BY <2>1, <2>2 DEF IInv, SecretsOK
<1>2. RobotsOK' /\ WorldOK'
  BY FaultType DEF SecretChanges, IInv, RobotsOK, WorldOK, robotVars, connVars
<1> QED BY <1>1, <1>2, OutsideOK DEF SecretChanges, IInv, WorkerOK

LEMMA ForeignRobotOK == ASSUME IInv, ForeignRobot PROVE IInv'
<1>1. ASSUME NEW o \in Objects,
             robots' = robots \cup {[id |-> lastId + 1, name |-> RobotName[o],
                                     data |-> None, cred |-> 1, exp |-> Expiry]},
             lastId' = lastId + 1
      PROVE  RobotsOK'
  <2>1. lastId + 1 \in Nat /\ now + 1 \in Nat
    BY DEF IInv, RobotsOK, WorldOK
  <2>2. Expiry \in Nat
    BY <2>1 DEF Expiry
  <2> QED BY <1>1, <2>1, <2>2 DEF IInv, RobotsOK, RobotAccount
<1>2. ASSUME NEW x \in robots, Replace(x, Refreshed(x)), UNCHANGED lastId
      PROVE  RobotsOK'
  <2>1. RobotsOK /\ WorldOK /\ x \in RobotAccount
    BY DEF IInv, RobotsOK
  <2> QED BY <1>2, <2>1, RefreshedOK, ReplaceOK
<1>3. ASSUME NEW x \in robots, robots' = robots \ {x}, UNCHANGED lastId
      PROVE  RobotsOK'
  BY <1>3 DEF IInv, RobotsOK
<1>4. RobotsOK'
  BY <1>1, <1>2, <1>3 DEF ForeignRobot
<1>5. WorldOK' /\ SecretsOK'
  BY FaultType DEF ForeignRobot, IInv, WorldOK, SecretsOK, secVars, connVars
<1> QED BY <1>4, <1>5, OutsideOK DEF ForeignRobot, IInv, WorkerOK, secVars

LEMMA Inductive == IInv /\ [Next]_vars => IInv'
<1> SUFFICES ASSUME IInv, [Next]_vars PROVE IInv'
  OBVIOUS
<1>1. CASE Reconcile
  BY <1>1, ReconcileOK
<1>2. ASSUME NEW o \in Objects, LoadResource(o) PROVE IInv'
  <2>1. WorkerOK'
    <3>1. cache[o] \in Known(stored) /\ cacheFresh[o] \in BOOLEAN
      BY DEF IInv, WorkerOK, CacheOK
    <3>2. CASE cache[o].inc = 0
      BY <1>2, <3>2 DEF LoadResource, IInv, WorkerOK, localVars, crVars, secVars
    <3>3. CASE cache[o].inc # 0
      BY <1>2, <3>1, <3>3, PCTypes DEF LoadResource, IInv, WorkerOK, crVars, secVars
    <3> QED BY <3>2, <3>3
  <2>2. SecretsOK' /\ RobotsOK' /\ CacheOK' /\ WorldOK'
    BY <1>2 DEF LoadResource, IInv, SecretsOK, RobotsOK, CacheOK, WorldOK, crVars,
                secVars, robotVars, connVars
  <2> QED BY <2>1, <2>2 DEF IInv
<1>3. ASSUME NEW o \in Objects, SyncCache(o) PROVE IInv'
  <2>1. WorkerOK' /\ CacheOK'
    BY <1>3 DEF SyncCache, IInv, WorkerOK, CacheOK, localVars, secVars
  <2>2. SecretsOK' /\ RobotsOK' /\ WorldOK'
    BY <1>3 DEF SyncCache, IInv, SecretsOK, RobotsOK, WorldOK, secVars, robotVars,
                connVars
  <2> QED BY <2>1, <2>2 DEF IInv
<1>4. ASSUME NEW o \in Objects, DriftTimer(o) PROVE IInv'
  <2>1. WorkerOK' /\ CacheOK'
    BY <1>4 DEF DriftTimer, IInv, WorkerOK, CacheOK, localVars, secVars, crVars
  <2>2. SecretsOK' /\ RobotsOK' /\ WorldOK'
    BY <1>4 DEF DriftTimer, IInv, SecretsOK, RobotsOK, WorldOK, secVars, robotVars,
                connVars
  <2> QED BY <2>1, <2>2 DEF IInv
<1>5. ASSUME NEW s \in Secrets, SyncSecret(s) PROVE IInv'
  <2>1. SecretsOK'
    BY <1>5 DEF SyncSecret, IInv, SecretsOK
  <2>2. RobotsOK' /\ WorldOK'
    BY <1>5 DEF SyncSecret, IInv, RobotsOK, WorldOK, robotVars, connVars
  <2> QED BY <1>5, <2>1, <2>2, OutsideOK DEF SyncSecret, IInv, WorkerOK
<1>6. ASSUME NEW o \in Objects, UserCreate(o) PROVE IInv'
  <2>1. PICK d \in Data, cp \in CreationPolicies, dp \in DeletionPolicies :
          UserWrites(o, [NoResource EXCEPT !.inc = lastInc[o] + 1, !.gen = 1,
                           !.data = d, !.dest = Dest[o], !.creationPolicy = cp,
                           !.deletionPolicy = dp])
    BY <1>6 DEF UserCreate
  <2>2. Dest[o] \in Secrets
    BY ConstantsAssumption
  <2>3. lastInc[o] \in Nat /\ cr[o] \in Known(stored)
    BY DEF IInv, CacheOK, WorkerOK
  <2>4. lastInc' \in [Objects -> Nat]
    <3>1. lastInc' = [lastInc EXCEPT ![o] = lastInc[o] + 1] /\ lastInc[o] + 1 \in Nat
      BY <1>6, <2>3 DEF UserCreate
    <3> QED BY <3>1 DEF IInv, CacheOK
  <2>5. [NoResource EXCEPT !.inc = lastInc[o] + 1, !.gen = 1, !.data = d,
           !.dest = Dest[o], !.creationPolicy = cp, !.deletionPolicy = dp]
        \in Known(stored)
    BY <2>2, <2>3, UserKnown
  <2> QED BY <1>6, <2>1, <2>4, <2>5, UserWritesOK DEF UserCreate
<1>7. ASSUME NEW o \in Objects, UserEdit(o) PROVE IInv'
  <2>1. PICK d \in Data, s \in Secrets, dp \in DeletionPolicies :
          UserWrites(o, [cr[o] EXCEPT !.gen = @ + 1, !.data = d, !.dest = s,
                                      !.deletionPolicy = dp])
    BY <1>7 DEF UserEdit
  <2>2. cr[o] \in Known(stored) /\ lastInc' \in [Objects -> Nat]
    BY <1>7 DEF UserEdit, IInv, CacheOK, WorkerOK
  <2>3. [cr[o] EXCEPT !.gen = @ + 1, !.data = d, !.dest = s,
                      !.deletionPolicy = dp] \in Known(stored)
    BY <2>2, UserKnown, ConstantsAssumption
  <2> QED BY <1>7, <2>1, <2>2, <2>3, UserWritesOK DEF UserEdit
<1>8. ASSUME NEW o \in Objects, UserDelete(o) PROVE IInv'
  <2>1. cr[o] \in Known(stored) /\ lastInc' \in [Objects -> Nat]
    BY <1>8 DEF UserDelete, IInv, CacheOK, WorkerOK
  <2>2. [cr[o] EXCEPT !.deleting = TRUE, !.gen = @ + 1] \in Known(stored)
    <3>1. PICK d \in Data, cp \in CreationPolicies, dp \in DeletionPolicies : TRUE
      BY ConstantsAssumption
    <3>2. Dest[o] \in Secrets
      BY ConstantsAssumption
    <3> QED BY <2>1, <3>1, <3>2, UserKnown, BoundsAssumption
  <2> QED BY <1>8, <2>1, <2>2, NoResourceKnown, UserWritesOK DEF UserDelete
<1>9. CASE \E s \in Secrets : ForeignSecret(s) \/ RemoveSecret(s)
  <2>1. PICK s \in Secrets : ForeignSecret(s) \/ RemoveSecret(s)
    BY <1>9
  <2>2. [owner |-> Env, cred |-> None] \in Secret /\ NoSecret \in Secret
    BY DEF Secret, NoSecret
  <2> QED BY <2>1, <2>2, SecretChangesOK DEF ForeignSecret, RemoveSecret
<1>10. CASE Tick
  <2>1. WorldOK' /\ SecretsOK' /\ RobotsOK'
    BY <1>10 DEF Tick, IInv, WorldOK, SecretsOK, RobotsOK, secVars, robotVars, connVars
  <2> QED BY <1>10, <2>1, OutsideOK DEF Tick, IInv, WorkerOK, secVars
<1>11. CASE Crash
  BY <1>11, CrashOK
<1>12. CASE DeleteConnection
  <2>1. WorldOK' /\ SecretsOK' /\ RobotsOK' /\ queue' \subseteq Objects
    BY <1>12, FaultType
    DEF DeleteConnection, EnqueueDependents, IInv, WorkerOK, WorldOK, SecretsOK,
        RobotsOK, secVars, robotVars
  <2> QED BY <1>12, <2>1, OutsideOK DEF DeleteConnection, secVars
<1>13. CASE CreateConnection
  <2>1. WorldOK' /\ SecretsOK' /\ RobotsOK' /\ queue' \subseteq Objects
    BY <1>13
    DEF CreateConnection, EnqueueDependents, IInv, WorkerOK, WorldOK, SecretsOK,
        RobotsOK, secVars, robotVars
  <2> QED BY <1>13, <2>1, OutsideOK DEF CreateConnection, secVars
<1>14. CASE ForeignRobot
  BY <1>14, ForeignRobotOK
<1>15. CASE UNCHANGED vars
  <2>1. WorkerOK' /\ CacheOK'
    BY <1>15 DEF vars, IInv, WorkerOK, CacheOK, crVars, localVars, secVars
  <2>2. SecretsOK' /\ RobotsOK' /\ WorldOK'
    BY <1>15 DEF vars, IInv, SecretsOK, RobotsOK, WorldOK, secVars, robotVars, connVars
  <2> QED BY <2>1, <2>2 DEF IInv
<1> QED
  BY <1>1, <1>2, <1>3, <1>4, <1>5, <1>6, <1>7, <1>8, <1>9, <1>10, <1>11, <1>12,
     <1>13, <1>14, <1>15 DEF Next

\* Every behaviour keeps the invariant.
THEOREM Invariant == Spec => []IInv
BY Initially, Inductive, PTL DEF Spec

-----------------------------------------------------------------------------
(* What it promises *)

\* Every variable keeps its type; in particular what a reconcile puts into a
\* Secret is a credential Harbor handed out.
THEOREM TypeCorrect == Spec => []TypeOK
<1>1. IInv => TypeOK
  <2> SUFFICES ASSUME IInv PROVE TypeOK
    OBVIOUS
  <2>1. cr \in [Objects -> Resource] /\ cache \in [Objects -> Resource]
        /\ mem \in Resource
    BY DEF IInv, WorkerOK, CacheOK, Known
  <2> QED BY <2>1 DEF IInv, WorkerOK, CacheOK, SecretsOK, RobotsOK, WorldOK, TypeOK
<1> QED BY <1>1, Invariant, PTL

\* A credential in lastRotatedAt has been in a Secret, whatever failed, crashed
\* or was edited between Harbor's answer and the status write.
THEOREM Announcements == Spec => []AnnouncedAfterStored
<1>1. IInv => AnnouncedAfterStored
  BY DEF IInv, WorkerOK, Known, AnnouncedAfterStored
<1> QED BY <1>1, Invariant, PTL

\* A reconcile changes a Secret only if there was none or it was this robot's,
\* although it decides on a cached copy (upsertOwnedSecretValues).
THEOREM SecretsKept == Spec => UnrelatedSecretsKept
<1>1. ASSUME IInv, Reconcile, NEW s \in Secrets, sec'[s] # sec[s]
      PROVE  sec[s].owner \in {None, cur}
  <2>1. UpsertRobotSecret
    BY <1>1
    DEF Reconcile, MarkReconcilingIfNeeded, GetHarborClientForObject,
        BuildHarborClientFails, FinalizeIfDeleting, DeleteRobot, FinalizeAfterCleanup, EnsureFinalizer,
        AdoptExisting, PersistAdoption, RequireCreationAllowed, CreateRobot,
        SetCreatedStatus, GetRobot, RequeueOnRemoteNotFound, UpdateRobot,
        RotateRobotSecret, GetRefreshed, SetReadyStatus, SetErrorStatus, secVars
  <2>2. SecretWritable(mem.dest) /\ PutSecret(mem.dest)
    BY <1>1, <2>1 DEF UpsertRobotSecret
  <2>3. s = mem.dest
    BY <1>1, <2>2 DEF PutSecret, IInv, SecretsOK
  <2>4. secFresh[s] => secCache[s] = sec[s]
    BY <1>1 DEF IInv, SecretsOK
  <2> QED BY <2>2, <2>3, <2>4 DEF SecretWritable
<1>2. IInv /\ [Next]_vars =>
        [Reconcile => \A s \in Secrets :
           sec'[s] # sec[s] => sec[s].owner \in {None, cur}]_vars
  BY <1>1
<1> QED BY <1>2, Invariant, PTL DEF Spec, UnrelatedSecretsKept

=============================================================================
