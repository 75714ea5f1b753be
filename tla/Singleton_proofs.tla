-------------------------- MODULE Singleton_proofs --------------------------
(***************************************************************************)
(* Proofs, for every value of the constants, of Singleton's types and of   *)
(* GuardedWrite, from an inductive invariant.                              *)
(*                                                                         *)
(* Four places hold a version of a resource: the API server, the events on *)
(* their way to the informer, the cache and the worker.  The invariant     *)
(* says of each how it compares with the API server (CopyOK), that the     *)
(* events end with what the API server has (LatestOK) and never go back    *)
(* behind what was shown (ShownOK), and of a worker whose write would be   *)
(* accepted that nothing it did not write itself is on its way (FreshOK).  *)
(***************************************************************************)
EXTENDS Singleton, SequenceTheorems, TLAPS

-----------------------------------------------------------------------------
(* The inductive invariant *)

\* What is known of a copy c of a resource, when the API server has rec, the
\* resource was created n times, and last is the last connection's UID.
CopyOK(c, rec, n, last) ==
  c.inc # 0 =>
    /\ c.inc <= n /\ c.bound <= last
    /\ c.deleting => c.fin
    /\ c.inc = rec.inc => /\ c.fin => rec.fin
                          /\ c.deleting => rec.deleting
                          /\ c.bound # 0 => rec.bound = c.bound
                          /\ rec.createdAt = c.createdAt
    /\ c.inc # rec.inc /\ c.fin => c.deleting

KnownCopy(o, c) == CopyOK(c, cr[o], lastInc[o], lastUid)

EventsOf(o) == {i \in DOMAIN watch : watch[i][1] = o}

CopiesOK ==
  /\ \A o \in Objects : KnownCopy(o, cr[o]) /\ KnownCopy(o, cache[o])
  /\ \A o \in Objects : \A i \in EventsOf(o) : KnownCopy(o, watch[i][2])

\* The informer ends up with what the API server has.
LatestOK(o) ==
  \/ EventsOf(o) = {} /\ cache[o] = cr[o]
  \/ \E i \in EventsOf(o) : watch[i][2] = cr[o] /\ \A j \in EventsOf(o) : j <= i

\* Once the informer has shown the current incarnation, it shows no other.
ShownOK(o) ==
  cr[o].inc # 0 =>
    /\ cache[o].inc = cr[o].inc =>
         \A i \in EventsOf(o) : watch[i][2].inc = cr[o].inc
    /\ \A i, j \in EventsOf(o) :
         i <= j /\ watch[i][2].inc = cr[o].inc => watch[j][2].inc = cr[o].inc

\* A copy of the worker's incarnation, as far as the worker changes it.
Alike(c, d) == c.inc = d.inc /\ c.deleting = d.deleting

FreshOK ==
  memFresh =>
    /\ Alike(cr[cur], mem) /\ cr[cur].fin = mem.fin /\ cr[cur].bound = mem.bound
    /\ Alike(cache[cur], mem)
    /\ \A i \in EventsOf(cur) : Alike(watch[i][2], mem)

QuotaPCs == {"project", "findQuota", "recordQuota", "getQuota"}
ElectedPCs == {"settings", "getSchedule", "getConfig", "create"}
HoldingPCs == {"owner", "update", "created", "ready", "noop"}
              \cup QuotaPCs \cup ElectedPCs

\* What the next call p of the worker says of its copy c.
PositionOK(p, c) ==
  /\ p # "idle" => c.inc # 0
  /\ p \notin {"idle", "mark", "bind"} => c.bound # 0
  /\ p = "finalizer" \/ p \in HoldingPCs => ~c.deleting
  /\ p = "finalize" => c.deleting
  /\ p \in HoldingPCs => c.fin
  /\ p \in QuotaPCs => kind = "Quota"
  /\ p \in ElectedPCs \cup {"owner"} => kind # "Quota"

\* The Harbor client of the worker talks to the instance its resource is bound to.
TargetOK ==
  pc \notin {"idle", "mark", "bind"} =>
    /\ target \in Urls[ConnOf[cur]]
    /\ conn[ConnOf[cur]].uid = mem.bound => conn[ConnOf[cur]].url = target

\* UIDs are given out once.
ConnOK ==
  \A c \in Conns :
    /\ conn[c].uid <= lastUid
    /\ conn[c].uid # 0 => conn[c].url \in Urls[c]

\* While the worker is at work with the current incarnation, or that wrote to
\* Harbor, the informer has shown it.
MemShownOK == pc # "idle" /\ mem.inc = cr[cur].inc => cache[cur].inc = mem.inc
WritersOK ==
  \A i \in Instances, p \in Objects, n \in Nat :
    harbor[i].writer = <<p, n>> /\ n # 0 =>
      n <= lastInc[p] /\ (n = cr[p].inc => cache[p].inc = n)

ApiOK == CopiesOK /\ \A o \in Objects : LatestOK(o) /\ ShownOK(o)

WorkerOK ==
  /\ pc # "idle" => KnownCopy(cur, mem)
  /\ pc = "idle" => ~memFresh
  /\ FreshOK /\ PositionOK(pc, mem) /\ TargetOK /\ MemShownOK

IInv == TypeOK /\ ApiOK /\ WorkerOK /\ ConnOK /\ WritersOK

-----------------------------------------------------------------------------
(* Constants *)

LEMMA ReasonTypes ==
  /\ "" \in Reasons /\ "Reconciling" \in Reasons /\ "ConnectionNotFound" \in Reasons
  /\ "SecretNotFound" \in Reasons /\ "ConnectionChanged" \in Reasons
  /\ "Conflict" \in Reasons /\ "SettingsError" \in Reasons /\ "NotFound" \in Reasons
  /\ "HarborError" \in Reasons /\ "Created" \in Reasons /\ "Reconciled" \in Reasons
  /\ "Noop" \in Reasons
BY DEF Reasons, NotReadyReasons, ReadyReasons

LEMMA NoResourceType ==
  /\ NoResource \in Resource
  /\ NoResource.inc = 0 /\ ~NoResource.fin /\ ~NoResource.deleting
  /\ NoResource.bound = 0
<1>1. (CHOOSE d \in Data : TRUE) \in Data
  BY ConstantsAssumption
<1> QED BY <1>1, ReasonTypes DEF NoResource, Resource

LEMMA AnyTypes ==
  AnyObject \in Objects /\ AnyInstance \in Instances /\ NoConnection \in Connection
BY ConstantsAssumption DEF AnyObject, AnyInstance, NoConnection, Connection

-----------------------------------------------------------------------------
(* Types *)

ApiTypes ==
  /\ cr \in [Objects -> Resource] /\ watch \in Seq(Objects \X Resource)

LocalTypes ==
  /\ queue \subseteq Objects /\ timer \subseteq Objects
  /\ pc \in PCs /\ cur \in Objects /\ mem \in Resource
  /\ memFresh \in BOOLEAN /\ target \in Instances /\ dirty \in BOOLEAN
  /\ err \in Reasons

OtherTypes ==
  /\ kind \in Kinds /\ lastInc \in [Objects -> Nat] /\ now \in Nat
  /\ cache \in [Objects -> Resource] /\ harbor \in [Instances -> Setting]
  /\ conn \in [Conns -> Connection] /\ lastUid \in Nat
  /\ secret \in BOOLEAN /\ settings \in {"ok", "unresolved", "readonly"}
  /\ budget \in Nat

LEMMA TypeParts == TypeOK <=> ApiTypes /\ LocalTypes /\ OtherTypes
BY DEF TypeOK, ApiTypes, LocalTypes, OtherTypes

LEMMA ForgetTypes ==
  ASSUME TypeOK, ForgetLocals, queue' \subseteq Objects, timer' \subseteq Objects
  PROVE  LocalTypes'
BY AnyTypes, NoResourceType, ReasonTypes DEF ForgetLocals, LocalTypes, PCs

LEMMA ReturnTypes ==
  ASSUME TypeOK, NEW r \in BOOLEAN, NEW d \in BOOLEAN, Return(r, d)
  PROVE  LocalTypes'
BY ForgetTypes DEF Return, TypeOK

LEMMA GotoTypes ==
  ASSUME TypeOK, NEW p \in PCs, NEW rec \in Resource, Goto(p, rec) \/ GotoDirty(p, rec)
  PROVE  LocalTypes'
BY DEF TypeOK, LocalTypes, Goto, GotoDirty

LEMMA CallFailedTypes ==
  ASSUME TypeOK, NEW reason \in Reasons, CallFailed(reason)
  PROVE  LocalTypes'
BY DEF TypeOK, LocalTypes, CallFailed, PCs

LEMMA StoreTypes ==
  ASSUME TypeOK, NEW o \in Objects, NEW rec \in Resource, Store(o, rec)
  PROVE  ApiTypes'
<1>1. cr' \in [Objects -> Resource]
  BY DEF TypeOK, Store
<1>2. watch' \in Seq(Objects \X Resource)
  <2>1. <<o, rec>> \in Objects \X Resource /\ watch \in Seq(Objects \X Resource)
    BY DEF TypeOK
  <2> QED BY <2>1, AppendProperties DEF Store
<1> QED BY <1>1, <1>2 DEF ApiTypes

LEMMA SameApiTypes ==
  ASSUME TypeOK, UNCHANGED <<cr, watch>>
  PROVE  ApiTypes'
BY DEF TypeOK, ApiTypes

LEMMA PersistTypes ==
  ASSUME TypeOK, NEW rec \in Resource, NEW p \in PCs, Persist(rec, p)
  PROVE  ApiTypes' /\ LocalTypes'
<1>1. CASE Store(cur, rec) /\ Goto(p, rec)
  BY <1>1, StoreTypes, GotoTypes DEF TypeOK
<1>2. CASE UNCHANGED <<cr, watch>> /\ Return(TRUE, FALSE)
  BY <1>2, SameApiTypes, ReturnTypes
<1> QED BY <1>1, <1>2 DEF Persist, Refused

LEMMA PersistAndReturnTypes ==
  ASSUME TypeOK, NEW rec \in Resource, NEW r \in BOOLEAN, NEW d \in BOOLEAN,
         PersistAndReturn(rec, r, d)
  PROVE  ApiTypes' /\ LocalTypes'
<1>1. CASE Store(cur, rec) /\ Return(r, d)
  BY <1>1, StoreTypes, ReturnTypes DEF TypeOK
<1>2. CASE UNCHANGED <<cr, watch>> /\ Return(TRUE, FALSE)
  BY <1>2, SameApiTypes, ReturnTypes
<1> QED BY <1>1, <1>2 DEF PersistAndReturn, Refused

LEMMA MarkedType ==
  ASSUME NEW rec \in Resource, NEW reason \in Reasons
  PROVE  Marked(rec, reason) \in Resource
BY DEF Marked, Resource

LEMMA SetStatusTypes ==
  ASSUME TypeOK, NEW w \in BOOLEAN, NEW reason \in Reasons,
         NEW r \in BOOLEAN, NEW d \in BOOLEAN, SetStatusAndReturn(w, reason, r, d)
  PROVE  ApiTypes' /\ LocalTypes'
<1>1. mem \in Resource
  BY DEF TypeOK
<1>2. CASE PersistAndReturn(Marked(mem, reason), r, d)
  BY <1>1, <1>2, MarkedType, PersistAndReturnTypes
<1>3. CASE Return(r, d) /\ UNCHANGED <<cr, watch>>
  BY <1>3, SameApiTypes, ReturnTypes
<1> QED BY <1>2, <1>3 DEF SetStatusAndReturn

LEMMA FailTypes ==
  ASSUME TypeOK, NEW reason \in Reasons, Fail(reason)
  PROVE  ApiTypes' /\ LocalTypes'
<1>1. Changed(mem, reason) \in BOOLEAN
  BY DEF Changed
<1> QED BY <1>1, SetStatusTypes DEF Fail

LEMMA RemoveFinalizerTypes ==
  ASSUME TypeOK, RemoveFinalizer
  PROVE  ApiTypes' /\ LocalTypes'
<1>1. CASE PersistAndReturn(NoResource, FALSE, FALSE)
  BY <1>1, NoResourceType, PersistAndReturnTypes
<1>2. CASE Return(FALSE, FALSE) /\ UNCHANGED <<cr, watch>>
  BY <1>2, SameApiTypes, ReturnTypes
<1> QED BY <1>1, <1>2 DEF RemoveFinalizer

LEMMA WithoutConnectionTypes ==
  ASSUME TypeOK, NEW reason \in Reasons, NEW nf \in BOOLEAN, WithoutConnection(reason, nf)
  PROVE  ApiTypes' /\ LocalTypes'
BY RemoveFinalizerTypes, FailTypes DEF WithoutConnection

-----------------------------------------------------------------------------
(* Every action keeps the types *)

\* A worker's step that changes nothing but the API server and its locals.
LEMMA WorkerTypes ==
  ASSUME TypeOK, ApiTypes', LocalTypes',
         UNCHANGED <<kind, lastInc, now, cache, harbor, worldVars>>
  PROVE  TypeOK'
<1>1. OtherTypes'
  BY DEF TypeOK, OtherTypes, worldVars
<1> QED BY <1>1 DEF TypeOK, ApiTypes, LocalTypes, OtherTypes

LEMMA FaultTypes == ASSUME TypeOK, Fault PROVE budget' \in Nat
BY DEF TypeOK, Fault

\* One of the calls to Harbor that read.
LEMMA CallTypes ==
  ASSUME TypeOK, ApiTypes', LocalTypes', UNCHANGED budget \/ Fault,
         UNCHANGED <<kind, lastInc, now, cache, harbor, conn, lastUid, secret, settings>>
  PROVE  TypeOK'
<1>1. budget' \in Nat
  BY FaultTypes DEF TypeOK
<1>2. OtherTypes'
  BY <1>1 DEF TypeOK, OtherTypes
<1> QED BY <1>2 DEF TypeOK, ApiTypes, LocalTypes, OtherTypes

LEMMA LoadResourceTypes ==
  ASSUME TypeOK, NEW o \in Objects, LoadResource(o) PROVE TypeOK'
<1>1. ApiTypes' /\ OtherTypes'
  BY DEF LoadResource, TypeOK, ApiTypes, OtherTypes, apiVars, worldVars
<1>2. LocalTypes'
  BY DEF LoadResource, TypeOK, LocalTypes, localVars, LoadedPC, PCs, CacheIsCurrent
<1> QED BY <1>1, <1>2 DEF TypeOK, ApiTypes, LocalTypes, OtherTypes

LEMMA MarkReconcilingTypes ==
  ASSUME TypeOK, MarkReconcilingIfNeeded PROVE TypeOK'
<1>1. Marked(mem, "Reconciling") \in Resource /\ "bind" \in PCs
  BY MarkedType, ReasonTypes DEF TypeOK, PCs
<1>2. ApiTypes' /\ LocalTypes'
  BY <1>1, PersistTypes DEF MarkReconcilingIfNeeded
<1> QED BY <1>2, WorkerTypes DEF MarkReconcilingIfNeeded

LEMMA GetHarborClientTypes ==
  ASSUME TypeOK, GetHarborClientForObject PROVE TypeOK'
<1> DEFINE c == conn[ConnOf[cur]]
<1>0. ConnOf[cur] \in Conns /\ c \in Connection /\ mem \in Resource /\ cur \in Objects
  BY FunctionsAssumption DEF TypeOK
<1>1. CASE WithoutConnection("ConnectionNotFound", TRUE)
  BY <1>1, WithoutConnectionTypes, ReasonTypes, WorkerTypes DEF GetHarborClientForObject
<1>2. CASE WithoutConnection("ConnectionChanged", FALSE)
  BY <1>2, WithoutConnectionTypes, ReasonTypes, WorkerTypes DEF GetHarborClientForObject
<1>3. CASE Refused
  BY <1>3, ReturnTypes, SameApiTypes, WorkerTypes DEF GetHarborClientForObject, Refused
<1>4. CASE /\ pc' = "client" /\ mem' = [mem EXCEPT !.bound = c.uid] /\ target' = c.url
           /\ IF mem.bound = 0 THEN Store(cur, mem') ELSE UNCHANGED <<cr, watch>>
           /\ UNCHANGED <<queue, timer, cur, memFresh, dirty, err>>
  <2>1. mem' \in Resource
    BY <1>0, <1>4 DEF Connection, Resource
  <2>2. ApiTypes'
    BY <1>0, <1>4, <2>1, StoreTypes, SameApiTypes
  <2>3. LocalTypes'
    BY <1>0, <1>4, <2>1 DEF TypeOK, LocalTypes, PCs, Connection
  <2> QED BY <2>2, <2>3, WorkerTypes DEF GetHarborClientForObject
<1> QED BY <1>1, <1>2, <1>3, <1>4 DEF GetHarborClientForObject

LEMMA BuildHarborClientTypes ==
  ASSUME TypeOK, BuildHarborClient PROVE TypeOK'
<1>1. CASE WithoutConnection("SecretNotFound", TRUE)
  BY <1>1, WithoutConnectionTypes, ReasonTypes, WorkerTypes DEF BuildHarborClient
<1>2. CASE /\ Goto(IF mem.deleting THEN "finalize" ELSE HeldPC(mem), mem)
           /\ UNCHANGED <<cr, watch>>
  <2>1. (IF mem.deleting THEN "finalize" ELSE HeldPC(mem)) \in PCs /\ mem \in Resource
    BY DEF TypeOK, HeldPC, CheckedPC, PCs
  <2> QED BY <1>2, <2>1, GotoTypes, SameApiTypes, WorkerTypes DEF BuildHarborClient
<1> QED BY <1>1, <1>2 DEF BuildHarborClient

LEMMA FinalizeTypes ==
  ASSUME TypeOK, FinalizeIfDeleting PROVE TypeOK'
BY RemoveFinalizerTypes, WorkerTypes DEF FinalizeIfDeleting

LEMMA EnsureFinalizerTypes ==
  ASSUME TypeOK, EnsureFinalizer PROVE TypeOK'
<1>1. [mem EXCEPT !.fin = TRUE] \in Resource /\ CheckedPC \in PCs
  BY DEF TypeOK, Resource, CheckedPC, PCs
<1>2. ApiTypes' /\ LocalTypes'
  BY <1>1, PersistTypes DEF EnsureFinalizer
<1> QED BY <1>2, WorkerTypes DEF EnsureFinalizer

LEMMA OwnerPCs ==
  ASSUME TypeOK, kind # "Quota", NEW c \in Resource
  PROVE  OwnerPC(c) \in {"create", "update", "ready", "getSchedule", "settings"}
BY ConstantsAssumption DEF TypeOK, OwnerPC, CompareHash, ByHash, AllKinds

LEMMA EnsureSingletonOwnerTypes ==
  ASSUME TypeOK, EnsureSingletonOwner, kind # "Quota" PROVE TypeOK'
<1>1. CASE Fail("ConnectionNotFound") \/ Fail("Conflict")
  BY <1>1, FailTypes, ReasonTypes, WorkerTypes DEF EnsureSingletonOwner
<1>2. CASE Goto(OwnerPC(mem), mem) /\ UNCHANGED <<cr, watch>>
  <2>1. OwnerPC(mem) \in PCs /\ mem \in Resource
    BY OwnerPCs DEF TypeOK, PCs
  <2> QED BY <1>2, <2>1, GotoTypes, SameApiTypes, WorkerTypes DEF EnsureSingletonOwner
<1> QED BY <1>1, <1>2 DEF EnsureSingletonOwner

LEMMA BuildDesiredSettingsTypes ==
  ASSUME TypeOK, BuildDesiredSettings PROVE TypeOK'
<1>1. CASE Fail("SettingsError")
  BY <1>1, FailTypes, ReasonTypes, WorkerTypes DEF BuildDesiredSettings
<1>2. CASE /\ Goto(IF mem.data = Empty THEN "noop" ELSE "getConfig", mem)
           /\ UNCHANGED <<cr, watch>>
  <2>1. (IF mem.data = Empty THEN "noop" ELSE "getConfig") \in PCs /\ mem \in Resource
    BY DEF TypeOK, PCs
  <2> QED BY <1>2, <2>1, GotoTypes, SameApiTypes, WorkerTypes DEF BuildDesiredSettings
<1> QED BY <1>1, <1>2 DEF BuildDesiredSettings

LEMMA WithHashType ==
  ASSUME NEW c \in Resource PROVE WithHash(c) \in Resource
BY DEF WithHash, Resource

LEMMA GetScanAllScheduleTypes ==
  ASSUME TypeOK, GetScanAllSchedule PROVE TypeOK'
<1>1. mem \in Resource /\ WithHash(mem) \in Resource
  BY WithHashType DEF TypeOK
<1>2. LocalTypes'
  <2>1. CASE Goto("create", mem) \/ Goto("update", mem) \/ Goto("ready", mem)
    BY <1>1, <2>1, GotoTypes DEF PCs
  <2>2. CASE GotoDirty("ready", WithHash(mem))
    BY <1>1, <2>2, GotoTypes DEF PCs
  <2>3. CASE CallFailed("HarborError")
    BY <2>3, CallFailedTypes, ReasonTypes
  <2> QED BY <2>1, <2>2, <2>3 DEF GetScanAllSchedule
<1> QED BY <1>2, SameApiTypes, CallTypes DEF GetScanAllSchedule, apiVars

LEMMA GetConfigurationsTypes ==
  ASSUME TypeOK, GetConfigurations PROVE TypeOK'
<1>1. CASE CallFailed("SettingsError") \/ CallFailed("HarborError")
  BY <1>1, CallFailedTypes, ReasonTypes, SameApiTypes, CallTypes
     DEF GetConfigurations, apiVars
<1>2. CASE Goto(IF harbor[target].data = mem.data THEN "ready" ELSE "update", mem)
  <2>1. /\ (IF harbor[target].data = mem.data THEN "ready" ELSE "update") \in PCs
        /\ mem \in Resource
    BY DEF TypeOK, PCs
  <2> QED BY <1>2, <2>1, GotoTypes, SameApiTypes, CallTypes DEF GetConfigurations, apiVars
<1> QED BY <1>1, <1>2 DEF GetConfigurations

LEMMA ResolveProjectTypes ==
  ASSUME TypeOK, ResolveProject PROVE TypeOK'
<1>1. CASE Fail("SettingsError")
  BY <1>1, FailTypes, ReasonTypes, WorkerTypes DEF ResolveProject
<1>2. CASE /\ Goto(IF mem.quotaId = 0 THEN "findQuota" ELSE "getQuota", mem)
           /\ UNCHANGED <<cr, watch>>
  <2>1. (IF mem.quotaId = 0 THEN "findQuota" ELSE "getQuota") \in PCs /\ mem \in Resource
    BY DEF TypeOK, PCs
  <2> QED BY <1>2, <2>1, GotoTypes, SameApiTypes, WorkerTypes DEF ResolveProject
<1> QED BY <1>1, <1>2 DEF ResolveProject

LEMMA FindQuotaTypes ==
  ASSUME TypeOK, FindQuotaID PROVE TypeOK'
<1>1. CASE CallFailed("HarborError")
  BY <1>1, CallFailedTypes, ReasonTypes, SameApiTypes, CallTypes DEF FindQuotaID, apiVars
<1>2. CASE Goto("recordQuota", [mem EXCEPT !.quotaId = harbor[target].id])
  <2>1. "recordQuota" \in PCs /\ [mem EXCEPT !.quotaId = harbor[target].id] \in Resource
    BY DEF TypeOK, PCs, Resource, Setting
  <2> QED BY <1>2, <2>1, GotoTypes, SameApiTypes, CallTypes DEF FindQuotaID, apiVars
<1> QED BY <1>1, <1>2 DEF FindQuotaID

LEMMA RecordQuotaTypes ==
  ASSUME TypeOK, RecordQuotaID PROVE TypeOK'
<1>1. mem \in Resource /\ "getQuota" \in PCs
  BY DEF TypeOK, PCs
<1>2. ApiTypes' /\ LocalTypes'
  BY <1>1, PersistTypes DEF RecordQuotaID
<1> QED BY <1>2, WorkerTypes DEF RecordQuotaID

LEMMA GetQuotaTypes ==
  ASSUME TypeOK, GetQuota PROVE TypeOK'
<1>0. mem \in Resource
  BY DEF TypeOK
<1>1. CASE RequeueOnRemoteNotFound
  <2>1. [mem EXCEPT !.quotaId = 0] \in Resource
    BY <1>0 DEF Resource
  <2>2. Marked([mem EXCEPT !.quotaId = 0], "NotFound") \in Resource
    BY <2>1, MarkedType, ReasonTypes
  <2>3. ApiTypes' /\ LocalTypes'
    BY <1>1, <2>2, PersistAndReturnTypes, ReturnTypes, SameApiTypes
       DEF RequeueOnRemoteNotFound
  <2> QED BY <2>3, CallTypes DEF GetQuota
<1>2. CASE /\ Goto(IF mem.data \in {Empty, harbor[target].data}
                   THEN "ready" ELSE "update", mem)
           /\ UNCHANGED <<cr, watch>>
  <2>1. (IF mem.data \in {Empty, harbor[target].data} THEN "ready" ELSE "update") \in PCs
    BY DEF PCs
  <2> QED BY <1>0, <1>2, <2>1, GotoTypes, SameApiTypes, CallTypes DEF GetQuota
<1>3. CASE CallFailed("HarborError") /\ UNCHANGED <<cr, watch>>
  BY <1>3, CallFailedTypes, ReasonTypes, SameApiTypes, CallTypes DEF GetQuota
<1> QED BY <1>1, <1>2, <1>3 DEF GetQuota

LEMMA OverwriteTypes ==
  ASSUME TypeOK, Overwrite PROVE harbor' \in [Instances -> Setting]
<1>1. /\ mem.data \in Data \cup {None} /\ <<cur, mem.inc>> \in Writers
      /\ target \in Instances /\ harbor \in [Instances -> Setting]
  BY DEF TypeOK, Resource, Writers
<1>2. [harbor[target] EXCEPT !.data = mem.data, !.writer = Me] \in Setting
  BY <1>1 DEF Setting, Me
<1>3. harbor' = [harbor EXCEPT ![target] =
                   [harbor[target] EXCEPT !.data = mem.data, !.writer = Me]]
  BY <1>1 DEF Overwrite
<1> QED BY <1>1, <1>2, <1>3

\* What a write ends with: its effect or none, and the call's success or failure.
Written(p, rec) ==
  /\ Overwrite \/ UNCHANGED harbor
  /\ CallFailed("HarborError") \/ Goto(p, rec) \/ GotoDirty(p, rec)
  /\ UNCHANGED budget \/ Fault
  /\ UNCHANGED <<kind, apiVars, conn, lastUid, secret, settings>>

LEMMA WrittenTypes ==
  ASSUME TypeOK, NEW p \in PCs, NEW rec \in Resource, Written(p, rec)
  PROVE  TypeOK'
<1>1. LocalTypes'
  BY CallFailedTypes, GotoTypes, ReasonTypes DEF Written
<1>2. harbor' \in [Instances -> Setting] /\ budget' \in Nat
  BY OverwriteTypes, FaultTypes DEF Written, TypeOK
<1>3. ApiTypes' /\ OtherTypes'
  BY <1>2 DEF Written, TypeOK, ApiTypes, OtherTypes, apiVars
<1> QED BY <1>1, <1>3 DEF TypeOK, ApiTypes, LocalTypes, OtherTypes

\* Where a call that writes goes on, with which copy.
WrittenRec == IF kind \in {"Configuration", "Quota"} /\ pc = "update"
              THEN mem ELSE WithHash(mem)

LEMMA WritesAreWritten ==
  /\ CreateRemote => pc = "create" /\ Written("created", WrittenRec)
  /\ UpdateRemote => pc = "update" /\ Written("ready", WrittenRec)
BY DEF CreateRemote, UpdateRemote, WriteRemote, Written, WrittenRec

LEMMA WriteTypes ==
  ASSUME TypeOK, CreateRemote \/ UpdateRemote PROVE TypeOK'
<1>1. WrittenRec \in Resource
  BY WithHashType DEF TypeOK, WrittenRec
<1> QED BY <1>1, WritesAreWritten, WrittenTypes DEF PCs

LEMMA UpdateVanishedQuotaTypes ==
  ASSUME TypeOK, UpdateVanishedQuota PROVE TypeOK'
BY CallFailedTypes, ReasonTypes, SameApiTypes, WorkerTypes
   DEF UpdateVanishedQuota, apiVars

LEMMA SetStatusActionTypes ==
  ASSUME TypeOK, SetCreatedStatus \/ SetReadyStatus \/ SetNoopStatus \/ SetErrorStatus
  PROVE  TypeOK'
<1>1. /\ (Changed(mem, "Created") \/ (dirty /\ ~ByHash)) \in BOOLEAN
      /\ (Changed(mem, "Reconciled") \/ dirty) \in BOOLEAN
      /\ Changed(mem, "Noop") \in BOOLEAN /\ err \in Reasons
  BY DEF TypeOK, Changed
<1>2. ApiTypes' /\ LocalTypes'
  <2>1. CASE SetCreatedStatus
    BY <1>1, <2>1, SetStatusTypes, ReasonTypes DEF SetCreatedStatus, Changed, ByHash
  <2>2. CASE SetReadyStatus
    BY <1>1, <2>2, SetStatusTypes, ReasonTypes DEF SetReadyStatus, Changed
  <2>3. CASE SetNoopStatus
    BY <1>1, <2>3, SetStatusTypes, ReasonTypes DEF SetNoopStatus, Changed
  <2>4. CASE SetErrorStatus
    BY <1>1, <2>4, FailTypes DEF SetErrorStatus
  <2> QED BY <2>1, <2>2, <2>3, <2>4
<1> QED BY <1>2, WorkerTypes
        DEF SetCreatedStatus, SetReadyStatus, SetNoopStatus, SetErrorStatus

LEMMA ReconcileTypes ==
  ASSUME TypeOK, Reconcile, pc = "owner" => kind # "Quota" PROVE TypeOK'
<1>1. EnsureSingletonOwner => kind # "Quota"
  BY DEF EnsureSingletonOwner
<1> QED BY <1>1, MarkReconcilingTypes, GetHarborClientTypes, BuildHarborClientTypes,
           FinalizeTypes, EnsureFinalizerTypes, EnsureSingletonOwnerTypes,
           BuildDesiredSettingsTypes, GetScanAllScheduleTypes, GetConfigurationsTypes,
           ResolveProjectTypes, FindQuotaTypes, RecordQuotaTypes, GetQuotaTypes,
           WriteTypes, UpdateVanishedQuotaTypes, SetStatusActionTypes
        DEF Reconcile

-----------------------------------------------------------------------------
(* Types: users, the informer, connections and other clients *)

LEMMA DeliverTypes == ASSUME TypeOK, Deliver PROVE TypeOK'
<1>1. /\ watch # <<>> /\ watch \in Seq(Objects \X Resource)
      /\ Head(watch) \in Objects \X Resource
      /\ Tail(watch) \in Seq(Objects \X Resource)
  BY HeadTailProperties DEF TypeOK, Deliver
<1>2. Head(watch)[1] \in Objects /\ Head(watch)[2] \in Resource
  BY <1>1
<1>3. /\ cache' \in [Objects -> Resource] /\ queue' \subseteq Objects
      /\ watch' \in Seq(Objects \X Resource)
  BY <1>1, <1>2 DEF Deliver, TypeOK
<1> QED BY <1>3 DEF Deliver, TypeOK, localVars, worldVars

LEMMA DriftTimerTypes ==
  ASSUME TypeOK, NEW o \in Objects, DriftTimer(o) PROVE TypeOK'
BY DEF TypeOK, DriftTimer, apiVars, localVars, worldVars

LEMMA CrashTypes == ASSUME TypeOK, Crash PROVE TypeOK'
<1>1. LocalTypes'
  BY ForgetTypes DEF Crash, TypeOK
<1>2. watch' \in Seq(Objects \X Resource)
  BY EmptySeq DEF Crash
<1>3. budget' \in Nat
  BY FaultTypes DEF Crash
<1> QED BY <1>1, <1>2, <1>3 DEF Crash, TypeOK, LocalTypes

LEMMA UserWritesTypes ==
  ASSUME TypeOK, NEW o \in Objects, NEW rec \in Resource, UserWrites(o, rec),
         lastInc' \in [Objects -> Nat]
  PROVE  TypeOK'
<1>1. ApiTypes'
  BY StoreTypes DEF UserWrites
<1>2. memFresh' \in BOOLEAN
  BY DEF UserWrites, TypeOK
<1> QED BY <1>1, <1>2 DEF UserWrites, TypeOK, ApiTypes, worldVars

LEMMA EditedType ==
  ASSUME NEW c \in Resource
  PROVE  /\ \A x \in Data : [c EXCEPT !.gen = @ + 1, !.data = x] \in Resource
         /\ [c EXCEPT !.deleting = TRUE, !.gen = @ + 1] \in Resource
<1>1. \A n \in Nat, x \in Data : /\ [c EXCEPT !.gen = n, !.data = x] \in Resource
                                /\ [c EXCEPT !.deleting = TRUE, !.gen = n] \in Resource
  BY DEF Resource
<1>2. c.gen + 1 \in Nat
  BY DEF Resource
<1>3. c.data \in Data
  BY DEF Resource
<1> QED BY <1>1, <1>2, <1>3

\* What a user creates.
NewResource(o, d) ==
  [NoResource EXCEPT !.inc = lastInc[o] + 1, !.gen = 1, !.createdAt = now, !.data = d]

LEMMA NewResourceType ==
  ASSUME TypeOK, NEW o \in Objects, NEW d \in Data
  PROVE  /\ NewResource(o, d) \in Resource
         /\ NewResource(o, d).inc = lastInc[o] + 1 /\ NewResource(o, d).bound = 0
         /\ ~NewResource(o, d).fin /\ ~NewResource(o, d).deleting
<1>1. lastInc[o] + 1 \in Nat /\ now \in Nat
  BY DEF TypeOK
<1>2. \A n \in Nat, s \in Nat :
        [NoResource EXCEPT !.inc = n, !.gen = 1, !.createdAt = s, !.data = d] \in Resource
  BY NoResourceType DEF Resource
<1>3. NewResource(o, d) \in Resource
  BY <1>1, <1>2 DEF NewResource
<1>4. /\ NewResource(o, d).inc = lastInc[o] + 1
      /\ NewResource(o, d).bound = NoResource.bound
      /\ NewResource(o, d).fin = NoResource.fin
      /\ NewResource(o, d).deleting = NoResource.deleting
  BY NoResourceType DEF NewResource, Resource
<1> QED BY <1>3, <1>4, NoResourceType

LEMMA PayloadTypes == Payloads \subseteq Data
BY DEF Payloads

LEMMA UserCreateTypes ==
  ASSUME TypeOK, NEW o \in Objects, UserCreate(o) PROVE TypeOK'
<1>1. PICK d \in Payloads : UserWrites(o, NewResource(o, d))
  BY DEF UserCreate, NewResource
<1>2. lastInc' \in [Objects -> Nat]
  BY DEF UserCreate, TypeOK
<1> QED BY <1>1, <1>2, PayloadTypes, NewResourceType, UserWritesTypes

LEMMA UserEditTypes ==
  ASSUME TypeOK, NEW o \in Objects, UserEdit(o) PROVE TypeOK'
<1>1. PICK d \in Payloads : UserWrites(o, [cr[o] EXCEPT !.gen = @ + 1, !.data = d])
  BY DEF UserEdit
<1>2. [cr[o] EXCEPT !.gen = @ + 1, !.data = d] \in Resource
  <2>1. cr[o] \in Resource /\ d \in Data
    BY PayloadTypes DEF TypeOK
  <2> QED BY <2>1, EditedType
<1>3. lastInc' \in [Objects -> Nat]
  BY DEF UserEdit, TypeOK
<1> QED BY <1>1, <1>2, <1>3, UserWritesTypes

\* What becomes of a resource that a user deletes.
Deleted(c) == IF c.fin THEN [c EXCEPT !.deleting = TRUE, !.gen = @ + 1] ELSE NoResource

LEMMA DeletedType ==
  ASSUME NEW c \in Resource PROVE Deleted(c) \in Resource
<1>1. [c EXCEPT !.deleting = TRUE, !.gen = @ + 1] \in Resource
  BY EditedType DEF Resource
<1> QED BY <1>1, NoResourceType DEF Deleted

LEMMA UserDeleteTypes ==
  ASSUME TypeOK, NEW o \in Objects, UserDelete(o) PROVE TypeOK'
<1>1. UserWrites(o, Deleted(cr[o]))
  BY DEF UserDelete, Deleted
<1>2. Deleted(cr[o]) \in Resource /\ lastInc' \in [Objects -> Nat]
  BY DeletedType DEF UserDelete, TypeOK
<1> QED BY <1>1, <1>2, UserWritesTypes

LEMMA ConnectionTypes ==
  ASSUME TypeOK, NEW c \in Conns, DeleteConnection(c) \/ CreateConnection(c)
  PROVE  TypeOK'
<1>1. queue' \subseteq Objects
  BY DEF DeleteConnection, CreateConnection, EnqueueDependents, TypeOK
<1>2. CASE DeleteConnection(c)
  <2>1. conn' \in [Conns -> Connection] /\ budget' \in Nat
    BY <1>2, AnyTypes, FaultTypes DEF DeleteConnection, TypeOK
  <2> QED BY <1>1, <1>2, <2>1 DEF DeleteConnection, TypeOK, apiVars, localVars
<1>3. CASE CreateConnection(c)
  <2>1. PICK i \in Urls[c] : conn' = [conn EXCEPT ![c] = [uid |-> lastUid + 1, url |-> i]]
    BY <1>3 DEF CreateConnection
  <2>2. i \in Instances
    <3>1. Urls[c] \in SUBSET Instances
      BY FunctionsAssumption
    <3> QED BY <3>1
  <2>3. lastUid' = lastUid + 1 /\ lastUid + 1 \in Nat
    BY <1>3 DEF CreateConnection, TypeOK
  <2>4. conn' \in [Conns -> Connection]
    BY <2>1, <2>2, <2>3 DEF TypeOK, Connection
  <2> QED BY <1>1, <1>3, <2>3, <2>4 DEF CreateConnection, TypeOK, apiVars, localVars
<1> QED BY <1>2, <1>3

LEMMA SecretTypes ==
  ASSUME TypeOK, LoseSecret \/ RestoreSecret \/ BreakSettings \/ RepairSettings \/ Tick
  PROVE  TypeOK'
<1>1. budget' \in Nat
  BY FaultTypes DEF TypeOK, LoseSecret, RestoreSecret, BreakSettings, RepairSettings,
                    Tick, worldVars
<1>2. now' \in Nat
  BY DEF TypeOK, LoseSecret, RestoreSecret, BreakSettings, RepairSettings, Tick, apiVars
<1>3. secret' \in BOOLEAN /\ settings' \in {"ok", "unresolved", "readonly"}
  BY DEF TypeOK, LoseSecret, RestoreSecret, BreakSettings, RepairSettings, Tick, worldVars
<1> QED BY <1>1, <1>2, <1>3 DEF TypeOK, LoseSecret, RestoreSecret, BreakSettings,
             RepairSettings, Tick, apiVars, workerVars, localVars, worldVars

LEMMA ForeignTypes ==
  ASSUME TypeOK, ForeignWrite \/ RecreateProject PROVE TypeOK'
<1>0. <<Env, 0>> \in Writers
  BY DEF Writers
<1>1. harbor' \in [Instances -> Setting]
  <2>1. CASE ForeignWrite
    <3>1. PICK i \in Instances, d \in Payloads :
            harbor' = [harbor EXCEPT ![i] =
                         [harbor[i] EXCEPT !.data = d, !.writer = <<Env, 0>>]]
      BY <2>1 DEF ForeignWrite, TypeOK
    <3>2. [harbor[i] EXCEPT !.data = d, !.writer = <<Env, 0>>] \in Setting
      BY <1>0, PayloadTypes DEF TypeOK, Setting
    <3> QED BY <3>1, <3>2 DEF TypeOK
  <2>2. CASE RecreateProject
    <3>1. PICK i \in Instances :
            harbor' = [harbor EXCEPT ![i] = [data |-> None, writer |-> <<Env, 0>>,
                                             id |-> harbor[i].id + 1]]
      BY <2>2 DEF RecreateProject
    <3>2. [data |-> None, writer |-> <<Env, 0>>, id |-> harbor[i].id + 1] \in Setting
      BY <1>0 DEF TypeOK, Setting
    <3> QED BY <3>1, <3>2 DEF TypeOK
  <2> QED BY <2>1, <2>2
<1>2. budget' \in Nat
  BY FaultTypes DEF ForeignWrite, RecreateProject
<1> QED BY <1>1, <1>2
        DEF TypeOK, ForeignWrite, RecreateProject, apiVars, workerVars, localVars

LEMMA InitTypes == Init => TypeOK
<1> SUFFICES ASSUME Init PROVE TypeOK
  OBVIOUS
<1>1. /\ cr \in [Objects -> Resource] /\ cache \in [Objects -> Resource]
      /\ mem \in Resource /\ lastInc \in [Objects -> Nat]
      /\ watch \in Seq(Objects \X Resource)
  BY NoResourceType, EmptySeq DEF Init
<1>2. conn \in [Conns -> Connection] /\ cur \in Objects /\ target \in Instances
  BY AnyTypes DEF Init
<1>3. harbor \in [Instances -> Setting]
  BY DEF Init, Setting, Writers
<1>4. budget \in Nat
  BY ConstantsAssumption, BoundsAssumption DEF Init
<1> QED BY <1>1, <1>2, <1>3, <1>4, ReasonTypes DEF Init, TypeOK, PCs

LEMMA NextTypes ==
  ASSUME TypeOK, pc = "owner" => kind # "Quota", [Next]_vars PROVE TypeOK'
<1>1. CASE UNCHANGED vars
  BY <1>1 DEF TypeOK, vars, apiVars, workerVars, localVars, worldVars
<1>2. CASE Next
  BY <1>2, LoadResourceTypes, ReconcileTypes, DeliverTypes, DriftTimerTypes,
     UserCreateTypes, UserEditTypes, UserDeleteTypes, ConnectionTypes, CrashTypes,
     SecretTypes, ForeignTypes DEF Next
<1> QED BY <1>1, <1>2

-----------------------------------------------------------------------------
(* Copies *)

\* What the API server has of a resource goes from rec to rec2: it is written,
\* created, or removed while c, if it is a copy of rec, was ready for that.
RecordKept(c, rec, rec2, n) ==
  \/ /\ rec2.inc = rec.inc /\ rec2.createdAt = rec.createdAt
     /\ rec.fin => rec2.fin
     /\ rec.deleting => rec2.deleting
     /\ rec.bound # 0 => rec2.bound = rec.bound
  \/ rec.inc = 0 /\ rec2.inc > n
  \/ rec2.inc = 0 /\ (c.inc = rec.inc /\ c.fin => c.deleting)

LEMMA CopyKept ==
  ASSUME NEW c \in Resource, NEW rec \in Resource, NEW rec2 \in Resource,
         NEW n \in Nat, NEW n2 \in Nat, NEW last \in Nat, NEW last2 \in Nat,
         CopyOK(c, rec, n, last), n <= n2, last <= last2, RecordKept(c, rec, rec2, n)
  PROVE  CopyOK(c, rec2, n2, last2)
<1> SUFFICES ASSUME c.inc # 0 PROVE CopyOK(c, rec2, n2, last2)
  BY DEF CopyOK
<1>1. /\ c.inc \in Nat /\ c.bound \in Nat /\ rec.inc \in Nat /\ rec2.inc \in Nat
      /\ c.fin \in BOOLEAN /\ rec.fin \in BOOLEAN /\ rec2.fin \in BOOLEAN
      /\ c.deleting \in BOOLEAN /\ rec.deleting \in BOOLEAN /\ rec2.deleting \in BOOLEAN
  BY DEF Resource
<1>2. c.inc <= n2 /\ c.bound <= last2 /\ (c.deleting => c.fin)
  BY <1>1 DEF CopyOK
<1>3. c.inc = rec2.inc => /\ c.fin => rec2.fin
                          /\ c.deleting => rec2.deleting
                          /\ c.bound # 0 => rec2.bound = c.bound
                          /\ rec2.createdAt = c.createdAt
  BY <1>1 DEF CopyOK, RecordKept
<1>4. c.inc # rec2.inc /\ c.fin => c.deleting
  BY <1>1 DEF CopyOK, RecordKept
<1> QED BY <1>2, <1>3, <1>4 DEF CopyOK

\* What is known of the API server's own record.
LEMMA OwnCopy ==
  ASSUME NEW rec \in Resource, NEW n \in Nat, NEW last \in Nat,
         rec.inc # 0 => rec.inc <= n /\ rec.bound <= last /\ (rec.deleting => rec.fin)
  PROVE  CopyOK(rec, rec, n, last)
BY DEF CopyOK

-----------------------------------------------------------------------------
(* Events *)

LEMMA EventTypes ==
  ASSUME TypeOK
  PROVE  /\ \A i \in DOMAIN watch : watch[i][1] \in Objects /\ watch[i][2] \in Resource
         /\ Len(watch) \in Nat /\ DOMAIN watch = 1..Len(watch)
         /\ \A o \in Objects : EventsOf(o) \subseteq 1..Len(watch)
<1>1. watch \in Seq(Objects \X Resource)
  BY DEF TypeOK
<1>2. Len(watch) \in Nat /\ DOMAIN watch = 1..Len(watch)
  BY <1>1, LenProperties
<1>3. \A i \in DOMAIN watch : watch[i] \in Objects \X Resource
  BY <1>1, <1>2, ElementOfSeq
<1> QED BY <1>2, <1>3 DEF EventsOf

LEMMA Appended ==
  ASSUME TypeOK, NEW o \in Objects, NEW rec \in Resource, Store(o, rec)
  PROVE  /\ Len(watch') = Len(watch) + 1 /\ Len(watch) \in Nat
         /\ DOMAIN watch = 1..Len(watch) /\ DOMAIN watch' = 1..Len(watch)+1
         /\ \A i \in DOMAIN watch : watch'[i] = watch[i]
         /\ watch'[Len(watch)+1] = <<o, rec>>
<1>1. watch \in Seq(Objects \X Resource) /\ <<o, rec>> \in Objects \X Resource
  BY DEF TypeOK
<1>2. watch' = Append(watch, <<o, rec>>)
  BY DEF Store
<1>3. /\ watch' \in Seq(Objects \X Resource) /\ Len(watch') = Len(watch) + 1
      /\ \A i \in 1..Len(watch) : watch'[i] = watch[i]
      /\ watch'[Len(watch)+1] = <<o, rec>>
  BY <1>1, <1>2, AppendProperties
<1>4. Len(watch) \in Nat /\ DOMAIN watch = 1..Len(watch) /\ DOMAIN watch' = 1..Len(watch')
  BY <1>1, <1>3, LenProperties
<1> QED BY <1>3, <1>4

\* The new event is the last of its resource, and changes no other's events.
LEMMA AppendedEvents ==
  ASSUME TypeOK, NEW o \in Objects, NEW rec \in Resource, Store(o, rec)
  PROVE  /\ \A p \in Objects \ {o} : EventsOf(p)' = EventsOf(p)
         /\ EventsOf(o)' = EventsOf(o) \cup {Len(watch) + 1}
         /\ \A p \in Objects : \A i \in EventsOf(p) : watch'[i] = watch[i] /\ i <= Len(watch)
         /\ watch'[Len(watch) + 1][2] = rec /\ Len(watch) + 1 \in Nat
<1>1. /\ Len(watch) \in Nat
      /\ DOMAIN watch = 1..Len(watch) /\ DOMAIN watch' = 1..Len(watch)+1
      /\ \A i \in DOMAIN watch : watch'[i] = watch[i]
      /\ watch'[Len(watch)+1] = <<o, rec>>
  BY Appended
<1>2. \A i \in DOMAIN watch' : i \in DOMAIN watch \/ i = Len(watch) + 1
  BY <1>1
<1>3. \A i \in DOMAIN watch : i \in DOMAIN watch' /\ i <= Len(watch)
  BY <1>1
<1>4. Len(watch) + 1 \in DOMAIN watch'
  BY <1>1
<1>5. <<o, rec>>[1] = o /\ <<o, rec>>[2] = rec
  OBVIOUS
<1> QED BY <1>1, <1>2, <1>3, <1>4, <1>5 DEF EventsOf

LEMMA DeliveredEvents ==
  ASSUME TypeOK, watch # <<>>, watch' = Tail(watch)
  PROVE  /\ Head(watch) = watch[1] /\ 1 \in DOMAIN watch
         /\ watch[1][1] \in Objects /\ watch[1][2] \in Resource
         /\ \A i \in DOMAIN watch' : /\ i \in Nat /\ i + 1 \in DOMAIN watch
                                     /\ i + 1 # 1 /\ watch'[i] = watch[i + 1]
         /\ \A i \in DOMAIN watch : i # 1 => i - 1 \in DOMAIN watch' /\ i \in Nat
<1>1. watch \in Seq(Objects \X Resource)
  BY DEF TypeOK
<1>2. /\ Tail(watch) \in Seq(Objects \X Resource)
      /\ Len(watch') = Len(watch) - 1
      /\ \A i \in 1..Len(watch') : watch'[i] = watch[i + 1]
  BY <1>1, HeadTailProperties
<1>3. /\ Len(watch) \in Nat \ {0} /\ DOMAIN watch = 1..Len(watch)
      /\ DOMAIN watch' = 1..Len(watch')
  BY <1>1, <1>2, LenProperties, EmptySeq
<1>4. Head(watch) = watch[1]
  BY <1>1
<1>5. 1 \in DOMAIN watch
  BY <1>3
<1>6. watch[1][1] \in Objects /\ watch[1][2] \in Resource
  BY <1>5, EventTypes
<1>7. \A i \in DOMAIN watch' : /\ i \in Nat /\ i + 1 \in DOMAIN watch
                              /\ i + 1 # 1 /\ watch'[i] = watch[i + 1]
  BY <1>2, <1>3
<1>8. \A i \in DOMAIN watch : i # 1 => i - 1 \in DOMAIN watch' /\ i \in Nat
  BY <1>2, <1>3
<1> QED BY <1>4, <1>5, <1>6, <1>7, <1>8

-----------------------------------------------------------------------------
(* What the API server and the informer have *)

\* Nothing that the informer knows of o keeps rec from being written.
Writable(o, rec) ==
  /\ RecordKept(cache[o], cr[o], rec, lastInc[o])
  /\ \A i \in EventsOf(o) : RecordKept(watch[i][2], cr[o], rec, lastInc[o])
  /\ rec.inc \in {0, cr[o].inc} \/ rec.inc > lastInc[o]

LEMMA StoredCopies ==
  ASSUME TypeOK, TypeOK', ApiOK, NEW o \in Objects, NEW rec \in Resource,
         Store(o, rec), cache' = cache, lastUid' = lastUid,
         \A p \in Objects : lastInc[p] <= lastInc'[p],
         rec.inc # 0 => /\ rec.inc <= lastInc'[o] /\ rec.bound <= lastUid
                        /\ rec.deleting => rec.fin,
         Writable(o, rec)
  PROVE  CopiesOK'
<1>0. /\ \A p \in Objects : /\ cr[p] \in Resource /\ cr'[p] \in Resource
                            /\ cache[p] \in Resource
                            /\ lastInc[p] \in Nat /\ lastInc'[p] \in Nat
                            /\ lastInc[p] <= lastInc'[p]
      /\ lastUid \in Nat /\ lastUid <= lastUid'
  BY DEF TypeOK
<1>1. cr'[o] = rec /\ \A p \in Objects \ {o} : cr'[p] = cr[p]
  BY DEF Store, TypeOK
<1>2. ASSUME NEW p \in Objects, NEW c \in Resource, KnownCopy(p, c),
             p = o => RecordKept(c, cr[o], rec, lastInc[o])
      PROVE  CopyOK(c, cr'[p], lastInc'[p], lastUid')
  <2>1. RecordKept(c, cr[p], cr'[p], lastInc[p])
    BY <1>1, <1>2 DEF RecordKept
  <2> QED BY <1>0, <1>2, <2>1, CopyKept DEF KnownCopy
<1>3. \A p \in Objects : KnownCopy(p, cache[p])'
  <2> SUFFICES ASSUME NEW p \in Objects PROVE KnownCopy(p, cache[p])'
    OBVIOUS
  <2>1. KnownCopy(p, cache[p]) /\ cache[p] \in Resource
    BY <1>0 DEF ApiOK, CopiesOK
  <2> QED BY <1>2, <2>1 DEF KnownCopy, Writable
<1>4. \A p \in Objects : KnownCopy(p, cr[p])'
  <2> SUFFICES ASSUME NEW p \in Objects PROVE KnownCopy(p, cr[p])'
    OBVIOUS
  <2>1. CASE p = o
    <3>1. CopyOK(rec, rec, lastInc'[o], lastUid')
      BY <1>0, OwnCopy
    <3> QED BY <1>1, <2>1, <3>1 DEF KnownCopy
  <2>2. CASE p # o
    <3>1. KnownCopy(p, cr[p]) /\ cr'[p] = cr[p]
      BY <1>1, <2>2 DEF ApiOK, CopiesOK
    <3>2. CopyOK(cr[p], cr'[p], lastInc'[p], lastUid')
      BY <1>0, <1>2, <2>2, <3>1
    <3> QED BY <3>1, <3>2 DEF KnownCopy
  <2> QED BY <2>1, <2>2
<1>5. \A p \in Objects : \A i \in EventsOf(p)' : KnownCopy(p, watch[i][2])'
  <2> SUFFICES ASSUME NEW p \in Objects, NEW i \in EventsOf(p)'
               PROVE  CopyOK(watch'[i][2], cr'[p], lastInc'[p], lastUid')
    BY DEF KnownCopy
  <2>1. CASE i \in EventsOf(p)
    <3>1. watch'[i] = watch[i] /\ watch[i][2] \in Resource /\ KnownCopy(p, watch[i][2])
      BY <2>1, AppendedEvents, EventTypes DEF ApiOK, CopiesOK, EventsOf
    <3>2. p = o => RecordKept(watch[i][2], cr[o], rec, lastInc[o])
      BY <2>1 DEF Writable
    <3> QED BY <1>2, <3>1, <3>2
  <2>2. CASE i \notin EventsOf(p)
    <3>1. p = o /\ watch'[i][2] = rec
      BY <2>2, AppendedEvents
    <3> QED BY <1>0, <1>1, <3>1, OwnCopy
  <2> QED BY <2>1, <2>2
<1> QED BY <1>3, <1>4, <1>5 DEF CopiesOK

LEMMA StoredLatest ==
  ASSUME TypeOK, TypeOK', ApiOK, NEW o \in Objects, NEW rec \in Resource,
         Store(o, rec), cache' = cache
  PROVE  \A p \in Objects : LatestOK(p)'
<1> SUFFICES ASSUME NEW p \in Objects PROVE LatestOK(p)'
  OBVIOUS
<1>0. cr'[o] = rec /\ (p # o => cr'[p] = cr[p])
  BY DEF Store, TypeOK
<1>1. CASE p = o
  <2> DEFINE k == Len(watch) + 1
  <2>1. k \in EventsOf(p)' /\ watch'[k][2] = cr'[p] /\ k \in Nat
    BY <1>0, <1>1, AppendedEvents
  <2>2. \A j \in EventsOf(p)' : j <= k
    <3> SUFFICES ASSUME NEW j \in EventsOf(p)' PROVE j <= k
      OBVIOUS
    <3>1. CASE j = k
      BY <2>1, <3>1
    <3>2. CASE j \in EventsOf(p)
      <4>1. j <= Len(watch) /\ j \in 1..Len(watch) /\ Len(watch) \in Nat
        BY <3>2, AppendedEvents, EventTypes
      <4> QED BY <4>1
    <3> QED BY <1>1, <3>1, <3>2, AppendedEvents
  <2> QED BY <2>1, <2>2 DEF LatestOK
<1>2. CASE p # o
  <2>1. /\ EventsOf(p)' = EventsOf(p) /\ cr'[p] = cr[p] /\ cache'[p] = cache[p]
        /\ \A i \in EventsOf(p) : watch'[i] = watch[i]
    BY <1>0, <1>2, AppendedEvents
  <2> QED BY <2>1 DEF LatestOK, ApiOK
<1> QED BY <1>1, <1>2

LEMMA StoredShown ==
  ASSUME TypeOK, TypeOK', ApiOK, NEW o \in Objects, NEW rec \in Resource,
         Store(o, rec), cache' = cache, Writable(o, rec)
  PROVE  \A p \in Objects : ShownOK(p)'
<1> SUFFICES ASSUME NEW p \in Objects PROVE ShownOK(p)'
  OBVIOUS
<1>0. cr'[o] = rec /\ (p # o => cr'[p] = cr[p])
  BY DEF Store, TypeOK
<1>1. CASE p # o
  <2>1. /\ EventsOf(p)' = EventsOf(p) /\ cr'[p] = cr[p] /\ cache'[p] = cache[p]
        /\ \A i \in EventsOf(p) : watch'[i] = watch[i]
    BY <1>0, <1>1, AppendedEvents
  <2> QED BY <2>1 DEF ShownOK, ApiOK
<1>2. CASE p = o /\ rec.inc = 0
  BY <1>0, <1>2 DEF ShownOK
<1>3. CASE p = o /\ rec.inc # 0
  <2> DEFINE k == Len(watch) + 1
  <2>1. /\ EventsOf(p)' = EventsOf(p) \cup {k} /\ watch'[k][2] = rec
        /\ \A i \in EventsOf(p) : watch'[i] = watch[i] /\ i < k
        /\ cr'[p] = rec /\ cache'[p] = cache[p] /\ k \in Nat
    <3>1. \A i \in EventsOf(p) : i \in 1..Len(watch) /\ Len(watch) \in Nat
      BY EventTypes
    <3> QED BY <1>0, <1>3, <3>1, AppendedEvents
  <2>2. CASE rec.inc = cr[p].inc
    <3>1. cache[p].inc = rec.inc => \A i \in EventsOf(p) : watch[i][2].inc = rec.inc
      BY <1>3, <2>2 DEF ApiOK, ShownOK
    <3>2. \A i, j \in EventsOf(p) :
            i <= j /\ watch[i][2].inc = rec.inc => watch[j][2].inc = rec.inc
      BY <1>3, <2>2 DEF ApiOK, ShownOK
    <3>3. cache'[p].inc = rec.inc => \A i \in EventsOf(p)' : watch'[i][2].inc = rec.inc
      BY <2>1, <3>1
    <3>4. \A i, j \in EventsOf(p)' :
            i <= j /\ watch'[i][2].inc = rec.inc => watch'[j][2].inc = rec.inc
      <4> SUFFICES ASSUME NEW i \in EventsOf(p)', NEW j \in EventsOf(p)',
                          i <= j, watch'[i][2].inc = rec.inc
                   PROVE  watch'[j][2].inc = rec.inc
        OBVIOUS
      <4>1. j = k => watch'[j][2].inc = rec.inc
        BY <2>1
      <4>2. j # k => j \in EventsOf(p) /\ j < k /\ j \in Nat
        BY <2>1, EventTypes
      <4>3. j # k => i \in EventsOf(p)
        BY <2>1, <4>2
      <4> QED BY <2>1, <3>2, <4>1, <4>2, <4>3
    <3> QED BY <2>1, <3>3, <3>4 DEF ShownOK
  <2>3. CASE rec.inc > lastInc[p]
    <3>1. cache[p].inc <= lastInc[p] \/ cache[p].inc = 0
      BY DEF ApiOK, CopiesOK, KnownCopy, CopyOK
    <3>2. \A i \in EventsOf(p) : watch[i][2].inc <= lastInc[p] \/ watch[i][2].inc = 0
      BY DEF ApiOK, CopiesOK, KnownCopy, CopyOK
    <3>3. /\ lastInc[p] \in Nat /\ cache[p].inc \in Nat /\ rec.inc \in Nat
          /\ \A i \in EventsOf(p) : watch[i][2].inc \in Nat
      BY EventTypes DEF TypeOK, Resource, EventsOf
    <3>4. cache[p].inc # rec.inc
      BY <2>3, <3>1, <3>3
    <3>5. \A i \in EventsOf(p) : watch[i][2].inc # rec.inc
      BY <2>3, <3>2, <3>3
    <3>6. \A i \in EventsOf(p)' : watch'[i][2].inc = rec.inc => i = k
      BY <2>1, <3>5
    <3>7. \A i, j \in EventsOf(p)' : i = k /\ i <= j => j = k
      <4>1. \A j \in EventsOf(p) : j < k /\ j \in Nat /\ ~(k <= j)
        BY <2>1, EventTypes
      <4> QED BY <2>1, <4>1
    <3> QED BY <2>1, <3>4, <3>6, <3>7 DEF ShownOK
  <2> QED BY <1>3, <2>2, <2>3 DEF Writable
<1> QED BY <1>1, <1>2, <1>3

LEMMA StoredApi ==
  ASSUME TypeOK, TypeOK', ApiOK, NEW o \in Objects, NEW rec \in Resource,
         Store(o, rec), cache' = cache, lastUid' = lastUid,
         \A p \in Objects : lastInc[p] <= lastInc'[p],
         rec.inc # 0 => /\ rec.inc <= lastInc'[o] /\ rec.bound <= lastUid
                        /\ rec.deleting => rec.fin,
         Writable(o, rec)
  PROVE  ApiOK'
BY StoredCopies, StoredLatest, StoredShown DEF ApiOK

\* New connections take nothing away.
LEMMA SameApi ==
  ASSUME TypeOK, TypeOK', ApiOK, UNCHANGED <<cr, watch, cache, lastInc>>,
         lastUid <= lastUid'
  PROVE  ApiOK'
<1>1. ASSUME NEW p \in Objects, NEW c \in Resource, KnownCopy(p, c)
      PROVE  CopyOK(c, cr[p], lastInc[p], lastUid')
  <2>1. /\ cr[p] \in Resource /\ lastInc[p] \in Nat
        /\ lastUid \in Nat /\ lastUid' \in Nat
    BY DEF TypeOK
  <2>2. RecordKept(c, cr[p], cr[p], lastInc[p]) /\ lastInc[p] <= lastInc[p]
    BY <2>1 DEF RecordKept
  <2> QED BY <1>1, <2>1, <2>2, CopyKept DEF KnownCopy
<1>2. \A p \in Objects : \A i \in EventsOf(p) : watch[i][2] \in Resource
  BY EventTypes DEF EventsOf
<1>3. \A p \in Objects : cr[p] \in Resource /\ cache[p] \in Resource
  BY DEF TypeOK
<1>4. \A p \in Objects : EventsOf(p)' = EventsOf(p)
  BY DEF EventsOf
<1>5. CopiesOK'
  BY <1>1, <1>2, <1>3, <1>4 DEF ApiOK, CopiesOK, KnownCopy
<1>6. \A p \in Objects : LatestOK(p)' /\ ShownOK(p)'
  BY <1>4 DEF ApiOK, LatestOK, ShownOK
<1> QED BY <1>5, <1>6 DEF ApiOK

\* The event delivered, and the ones that are left.
LEMMA DeliverStep ==
  ASSUME TypeOK, Deliver
  PROVE  \E o \in Objects :
           /\ 1 \in EventsOf(o) /\ watch[1][2] \in Resource
           /\ cache'[o] = watch[1][2] /\ \A p \in Objects \ {o} : cache'[p] = cache[p]
           /\ \A p \in Objects, i \in Nat :
                i \in EventsOf(p)' <=> i + 1 \in EventsOf(p) /\ i # 0
           /\ \A p \in Objects : \A i \in EventsOf(p)' :
                i \in Nat /\ watch'[i] = watch[i + 1]
           /\ \A p \in Objects : \A i \in EventsOf(p) :
                i # 1 \/ p # o => i - 1 \in EventsOf(p)' /\ i \in Nat
<1>1. /\ watch # <<>> /\ watch' = Tail(watch)
      /\ cache' = [cache EXCEPT ![Head(watch)[1]] = Head(watch)[2]]
  BY DEF Deliver
<1>2. /\ Head(watch) = watch[1] /\ 1 \in DOMAIN watch
      /\ watch[1][1] \in Objects /\ watch[1][2] \in Resource
      /\ \A i \in DOMAIN watch' : /\ i \in Nat /\ i + 1 \in DOMAIN watch
                                  /\ i + 1 # 1 /\ watch'[i] = watch[i + 1]
      /\ \A i \in DOMAIN watch : i # 1 => i - 1 \in DOMAIN watch' /\ i \in Nat
  BY <1>1, DeliveredEvents
<1> DEFINE o == watch[1][1]
<1>3. 1 \in EventsOf(o) /\ o \in Objects
  BY <1>2 DEF EventsOf
<1>4. cache'[o] = watch[1][2] /\ \A p \in Objects \ {o} : cache'[p] = cache[p]
  BY <1>1, <1>2 DEF TypeOK
<1>5. \A p \in Objects : \A i \in EventsOf(p)' :
        i \in Nat /\ watch'[i] = watch[i + 1] /\ i + 1 \in EventsOf(p) /\ i # 0
  BY <1>2 DEF EventsOf
<1>6. \A p \in Objects : \A i \in EventsOf(p) :
        i # 1 => i - 1 \in EventsOf(p)' /\ i \in Nat
  <2> SUFFICES ASSUME NEW p \in Objects, NEW i \in EventsOf(p), i # 1
               PROVE  i - 1 \in EventsOf(p)' /\ i \in Nat
    OBVIOUS
  <2>1. i \in DOMAIN watch /\ watch[i][1] = p
    BY DEF EventsOf
  <2>2. i - 1 \in DOMAIN watch' /\ i \in Nat
    BY <1>2, <2>1
  <2>3. watch'[i - 1] = watch[i - 1 + 1] /\ i - 1 + 1 = i
    BY <1>2, <2>2
  <2> QED BY <2>1, <2>2, <2>3 DEF EventsOf
<1>7. \A p \in Objects : p # o => 1 \notin EventsOf(p)
  BY DEF EventsOf
<1>8. \A p \in Objects, i \in Nat :
        i \in EventsOf(p)' <=> i + 1 \in EventsOf(p) /\ i # 0
  <2> SUFFICES ASSUME NEW p \in Objects, NEW i \in Nat, i + 1 \in EventsOf(p), i # 0
               PROVE  i \in EventsOf(p)'
    BY <1>5
  <2>1. i + 1 # 1 /\ i + 1 - 1 = i
    OBVIOUS
  <2> QED BY <1>6, <2>1
<1> QED BY <1>2, <1>3, <1>4, <1>5, <1>6, <1>7, <1>8

LEMMA DeliverApi ==
  ASSUME TypeOK, TypeOK', ApiOK, Deliver PROVE ApiOK'
<1>0. UNCHANGED <<cr, lastInc, lastUid>>
  BY DEF Deliver, worldVars
<1>1. PICK o \in Objects :
        /\ 1 \in EventsOf(o) /\ watch[1][2] \in Resource
        /\ cache'[o] = watch[1][2] /\ \A p \in Objects \ {o} : cache'[p] = cache[p]
        /\ \A p \in Objects, i \in Nat :
             i \in EventsOf(p)' <=> i + 1 \in EventsOf(p) /\ i # 0
        /\ \A p \in Objects : \A i \in EventsOf(p)' :
             i \in Nat /\ watch'[i] = watch[i + 1]
        /\ \A p \in Objects : \A i \in EventsOf(p) :
             i # 1 \/ p # o => i - 1 \in EventsOf(p)' /\ i \in Nat
  BY DeliverStep
<1>2. CopiesOK'
  <2>1. \A p \in Objects, c \in Resource : KnownCopy(p, c) => KnownCopy(p, c)'
    BY <1>0 DEF KnownCopy
  <2>2. KnownCopy(o, watch[1][2]) /\ \A p \in Objects : KnownCopy(p, cache[p])
    BY <1>1 DEF ApiOK, CopiesOK
  <2>3. \A p \in Objects : KnownCopy(p, cache[p])'
    BY <1>0, <1>1, <2>2 DEF KnownCopy
  <2>4. \A p \in Objects : \A i \in EventsOf(p)' : KnownCopy(p, watch[i][2])'
    <3> SUFFICES ASSUME NEW p \in Objects, NEW i \in EventsOf(p)'
                 PROVE  KnownCopy(p, watch[i][2])'
      OBVIOUS
    <3>1. i + 1 \in EventsOf(p) /\ watch'[i] = watch[i + 1]
      BY <1>1
    <3>2. KnownCopy(p, watch[i + 1][2])
      BY <3>1 DEF ApiOK, CopiesOK
    <3> QED BY <1>0, <3>1, <3>2 DEF KnownCopy
  <2>5. \A p \in Objects : KnownCopy(p, cr[p])'
    BY <1>0 DEF ApiOK, CopiesOK, KnownCopy
  <2> QED BY <2>3, <2>4, <2>5 DEF CopiesOK
<1>3. ASSUME NEW p \in Objects PROVE LatestOK(p)'
  <2>1. CASE EventsOf(p) = {} /\ cache[p] = cr[p]
    <3>1. p # o /\ cache'[p] = cr'[p]
      BY <1>0, <1>1, <2>1
    <3>2. EventsOf(p)' = {}
      BY <1>1, <2>1
    <3> QED BY <3>1, <3>2 DEF LatestOK
  <2>2. ASSUME NEW i \in EventsOf(p), watch[i][2] = cr[p], \A j \in EventsOf(p) : j <= i
        PROVE  LatestOK(p)'
    <3>1. i \in Nat /\ \A j \in EventsOf(p) : j \in Nat /\ j # 0
      BY EventTypes
    <3>2. CASE i = 1 /\ p = o
      <4>1. cache'[p] = cr'[p]
        BY <1>0, <1>1, <2>2, <3>2
      <4>2. \A j \in EventsOf(p) : j = 1
        BY <2>2, <3>1, <3>2
      <4>3. EventsOf(p)' = {}
        <5> SUFFICES ASSUME NEW j \in EventsOf(p)' PROVE FALSE
          OBVIOUS
        <5>1. j \in Nat /\ j + 1 \in EventsOf(p) /\ j # 0
          BY <1>1
        <5> QED BY <4>2, <5>1
      <4> QED BY <4>1, <4>3 DEF LatestOK
    <3>3. CASE i # 1 \/ p # o
      <4>1. i - 1 \in EventsOf(p)' /\ i - 1 + 1 = i
        BY <1>1, <3>1, <3>3
      <4>2. watch'[i - 1] = watch[i]
        BY <1>1, <4>1
      <4>3. \A j \in EventsOf(p)' : j <= i - 1
        <5> SUFFICES ASSUME NEW j \in EventsOf(p)' PROVE j <= i - 1
          OBVIOUS
        <5>1. j \in Nat /\ j + 1 \in EventsOf(p)
          BY <1>1
        <5>2. j + 1 <= i
          BY <2>2, <5>1
        <5> QED BY <3>1, <5>1, <5>2
      <4> QED BY <1>0, <2>2, <4>1, <4>2, <4>3 DEF LatestOK
    <3> QED BY <3>2, <3>3
  <2> QED BY <2>1, <2>2 DEF ApiOK, LatestOK
<1>4. ASSUME NEW p \in Objects PROVE ShownOK(p)'
  <2> SUFFICES ASSUME cr[p].inc # 0 PROVE ShownOK(p)'
    BY <1>0 DEF ShownOK
  <2>1. /\ cache[p].inc = cr[p].inc => \A i \in EventsOf(p) : watch[i][2].inc = cr[p].inc
        /\ \A i, j \in EventsOf(p) :
             i <= j /\ watch[i][2].inc = cr[p].inc => watch[j][2].inc = cr[p].inc
    BY DEF ApiOK, ShownOK
  <2>2. \A i \in EventsOf(p)' : /\ i \in Nat /\ i + 1 \in EventsOf(p)
                               /\ watch'[i] = watch[i + 1]
    BY <1>1
  <2>3. \A i, j \in EventsOf(p)' : i <= j => i + 1 <= j + 1
    BY <2>2
  <2>4. \A i, j \in EventsOf(p)' :
          i <= j /\ watch'[i][2].inc = cr[p].inc => watch'[j][2].inc = cr[p].inc
    BY <2>1, <2>2, <2>3
  <2>5. cache'[p].inc = cr[p].inc => \A i \in EventsOf(p)' : watch'[i][2].inc = cr[p].inc
    <3>1. CASE p # o
      <4>1. cache'[p] = cache[p]
        BY <1>1, <3>1
      <4> QED BY <2>1, <2>2, <4>1
    <3>2. CASE p = o
      <4>1. 1 \in EventsOf(p) /\ cache'[p] = watch[1][2]
        BY <1>1, <3>2
      <4> SUFFICES ASSUME watch[1][2].inc = cr[p].inc, NEW i \in EventsOf(p)'
                   PROVE  watch'[i][2].inc = cr[p].inc
        BY <4>1
      <4>2. i + 1 \in EventsOf(p) /\ watch'[i] = watch[i + 1] /\ 1 <= i + 1
        BY <2>2
      <4>3. watch[i + 1][2].inc = cr[p].inc
        BY <2>1, <4>1, <4>2
      <4> QED BY <4>2, <4>3
    <3> QED BY <3>1, <3>2
  <2> QED BY <1>0, <2>4, <2>5 DEF ShownOK
<1> QED BY <1>2, <1>3, <1>4 DEF ApiOK

LEMMA CrashApi ==
  ASSUME TypeOK, TypeOK', ApiOK, Crash PROVE ApiOK'
<1>0. UNCHANGED <<cr, lastInc, lastUid>> /\ cache' = cr /\ watch' = <<>>
  BY DEF Crash
<1>1. \A p \in Objects : EventsOf(p)' = {}
  BY <1>0 DEF EventsOf
<1>2. CopiesOK'
  BY <1>0, <1>1 DEF ApiOK, CopiesOK, KnownCopy
<1>3. \A p \in Objects : LatestOK(p)' /\ ShownOK(p)'
  BY <1>0, <1>1 DEF LatestOK, ShownOK
<1> QED BY <1>2, <1>3 DEF ApiOK

-----------------------------------------------------------------------------
(* The shapes of a worker's step *)

\* What the worker's steps leave alone.
Framed == UNCHANGED <<kind, lastInc, cache, conn, lastUid>>

Loading == {"idle", "mark", "bind"}

\* The copy d is c but for its data and conditions.
Same(c, d) ==
  /\ d.inc = c.inc /\ d.deleting = c.deleting /\ d.createdAt = c.createdAt
  /\ d.fin = c.fin /\ d.bound = c.bound

\* The copy d is written in place of c, to keep the resource.
Grows(c, d) ==
  /\ d \in Resource
  /\ d.inc = c.inc /\ d.deleting = c.deleting /\ d.createdAt = c.createdAt
  /\ c.fin => d.fin
  /\ c.bound # 0 => d.bound = c.bound
  /\ d.bound <= lastUid

StepEnded == ForgetLocals /\ UNCHANGED <<cr, watch>>
StepMoved ==
  /\ pc # "idle" /\ pc' # "idle" /\ Same(mem, mem')
  /\ UNCHANGED <<cr, watch, cur, memFresh>>
StepWrote ==
  \E rec \in Resource :
    /\ memFresh /\ Grows(mem, rec) /\ Store(cur, rec)
    /\ \/ ForgetLocals
       \/ pc' # "idle" /\ mem' = rec /\ UNCHANGED <<cur, memFresh>>
StepRemoved == memFresh /\ mem.deleting /\ Store(cur, NoResource) /\ ForgetLocals

WorkerStep ==
  /\ Framed
  /\ StepEnded \/ StepMoved \/ StepWrote \/ StepRemoved
  /\ PositionOK(pc, mem)' /\ TargetOK'

LEMMA MemFacts ==
  ASSUME IInv, pc # "idle"
  PROVE  /\ mem \in Resource /\ cur \in Objects /\ mem.inc # 0 /\ mem.inc \in Nat
         /\ mem.bound \in Nat /\ mem.bound <= lastUid /\ lastUid \in Nat
         /\ mem.deleting => mem.fin
         /\ KnownCopy(cur, mem) /\ PositionOK(pc, mem) /\ FreshOK
         /\ pc \notin Loading => mem.bound # 0
<1>1. /\ mem \in Resource /\ cur \in Objects /\ lastUid \in Nat
      /\ KnownCopy(cur, mem) /\ PositionOK(pc, mem) /\ FreshOK
  BY DEF IInv, TypeOK, WorkerOK
<1>2. mem.inc # 0 /\ mem.inc \in Nat /\ mem.bound \in Nat
  BY <1>1 DEF PositionOK, Resource
<1>3. mem.bound <= lastUid /\ (mem.deleting => mem.fin)
  BY <1>1, <1>2 DEF KnownCopy, CopyOK
<1> QED BY <1>1, <1>2, <1>3 DEF PositionOK, Loading

LEMMA ForgotPosition ==
  ASSUME ForgetLocals PROVE PositionOK(pc, mem)' /\ TargetOK'
BY DEF ForgetLocals, PositionOK, TargetOK, HoldingPCs, QuotaPCs, ElectedPCs

LEMMA ReturnStep ==
  ASSUME Framed, NEW r, NEW d, Return(r, d), UNCHANGED <<cr, watch>>
  PROVE  WorkerStep
BY ForgotPosition DEF WorkerStep, StepEnded, Return

LEMMA PersistAndReturnStep ==
  ASSUME Framed, NEW rec \in Resource, Grows(mem, rec), NEW r, NEW d,
         PersistAndReturn(rec, r, d)
  PROVE  WorkerStep
<1>1. CASE Refused
  BY <1>1, ReturnStep DEF Refused
<1>2. CASE memFresh /\ Store(cur, rec) /\ Return(r, d)
  BY <1>2, ForgotPosition DEF WorkerStep, StepWrote, Return
<1> QED BY <1>1, <1>2 DEF PersistAndReturn, Refused

LEMMA RemoveStep ==
  ASSUME Framed, RemoveFinalizer, mem.deleting
  PROVE  WorkerStep
<1>1. CASE Refused \/ (Return(FALSE, FALSE) /\ UNCHANGED <<cr, watch>>)
  BY <1>1, ReturnStep DEF Refused
<1>2. CASE memFresh /\ Store(cur, NoResource) /\ Return(FALSE, FALSE)
  BY <1>2, ForgotPosition DEF WorkerStep, StepRemoved, Return
<1> QED BY <1>1, <1>2 DEF RemoveFinalizer, PersistAndReturn, Refused

\* Where a reconcile that has a client goes on with the same connection.
LEMMA TargetStays ==
  ASSUME IInv, pc \notin Loading, UNCHANGED <<cur, target, conn>>,
         mem'.bound = mem.bound
  PROVE  TargetOK'
BY DEF IInv, WorkerOK, TargetOK, Loading

LEMMA GotoStep ==
  ASSUME IInv, Framed, pc \notin Loading, NEW p, p # "idle",
         NEW rec, Same(mem, rec), Goto(p, rec) \/ GotoDirty(p, rec),
         UNCHANGED <<cr, watch>>, PositionOK(p, rec)
  PROVE  WorkerStep
<1>1. /\ pc' = p /\ mem' = rec /\ UNCHANGED <<cur, memFresh, target, conn, kind>>
  BY DEF Goto, GotoDirty, Framed
<1>2. TargetOK'
  BY <1>1, TargetStays DEF Same
<1>3. PositionOK(pc, mem)'
  BY <1>1 DEF PositionOK
<1> QED BY <1>1, <1>2, <1>3 DEF WorkerStep, StepMoved, Loading

LEMMA CallFailedStep ==
  ASSUME IInv, Framed, pc \notin Loading, NEW reason, CallFailed(reason),
         UNCHANGED <<cr, watch>>
  PROVE  WorkerStep
<1>1. /\ pc' = "error" /\ UNCHANGED <<mem, cur, memFresh, target, conn, kind>>
  BY DEF CallFailed, Framed
<1>2. TargetOK'
  BY <1>1, TargetStays
<1>3. mem.inc # 0 /\ mem.bound # 0
  BY MemFacts DEF Loading
<1>4. PositionOK("error", mem)
  BY <1>3 DEF PositionOK, HoldingPCs, QuotaPCs, ElectedPCs
<1>5. PositionOK(pc, mem)'
  BY <1>1, <1>4 DEF PositionOK
<1> QED BY <1>1, <1>2, <1>5 DEF WorkerStep, StepMoved, Same, Loading

LEMMA PersistStep ==
  ASSUME IInv, Framed, NEW rec \in Resource, Grows(mem, rec), NEW p, p # "idle",
         Persist(rec, p), PositionOK(p, rec),
         pc \notin Loading \/ p = "bind"
  PROVE  WorkerStep
<1>1. CASE Refused
  BY <1>1, ReturnStep DEF Refused
<1>2. CASE memFresh /\ Store(cur, rec) /\ Goto(p, rec)
  <2>1. /\ pc' = p /\ mem' = rec /\ UNCHANGED <<cur, memFresh, target, conn, kind>>
    BY <1>2 DEF Goto, Framed
  <2>2. TargetOK'
    <3>1. CASE p = "bind"
      BY <2>1, <3>1 DEF TargetOK
    <3>2. CASE pc \notin Loading
      <4>1. mem.bound # 0
        BY <3>2, MemFacts DEF Loading
      <4> QED BY <2>1, <3>2, <4>1, TargetStays DEF Grows
    <3> QED BY <3>1, <3>2
  <2>3. PositionOK(pc, mem)'
    BY <2>1 DEF PositionOK
  <2> QED BY <1>2, <2>1, <2>2, <2>3 DEF WorkerStep, StepWrote
<1> QED BY <1>1, <1>2 DEF Persist, Refused

LEMMA GrowsMarked ==
  ASSUME IInv, pc # "idle", NEW reason \in Reasons
  PROVE  Grows(mem, Marked(mem, reason)) /\ Marked(mem, reason) \in Resource
<1>1. mem \in Resource /\ mem.bound <= lastUid
  BY MemFacts
<1>2. Marked(mem, reason) \in Resource
  BY <1>1, MarkedType
<1>3. Same(mem, Marked(mem, reason))
  BY <1>1 DEF Same, Marked, Resource
<1> QED BY <1>1, <1>2, <1>3 DEF Grows, Same

LEMMA SetStatusStep ==
  ASSUME IInv, Framed, pc # "idle", NEW w, NEW reason \in Reasons, NEW r, NEW d,
         SetStatusAndReturn(w, reason, r, d)
  PROVE  WorkerStep
<1>1. CASE PersistAndReturn(Marked(mem, reason), r, d)
  BY <1>1, GrowsMarked, PersistAndReturnStep
<1>2. CASE Return(r, d) /\ UNCHANGED <<cr, watch>>
  BY <1>2, ReturnStep
<1> QED BY <1>1, <1>2 DEF SetStatusAndReturn

LEMMA FailStep ==
  ASSUME IInv, Framed, pc # "idle", NEW reason \in Reasons, Fail(reason)
  PROVE  WorkerStep
BY SetStatusStep DEF Fail

LEMMA WithoutConnectionStep ==
  ASSUME IInv, Framed, pc # "idle", NEW reason \in Reasons, NEW nf,
         WithoutConnection(reason, nf)
  PROVE  WorkerStep
BY FailStep, RemoveStep DEF WithoutConnection

-----------------------------------------------------------------------------
(* Every action of the worker has one of the shapes *)

LEMMA SameMem == ASSUME IInv PROVE Same(mem, mem)
BY DEF Same

LEMMA PCNames ==
  /\ "mark" \in Loading /\ "bind" \in Loading /\ "idle" \in Loading
  /\ \A p \in HoldingPCs \cup {"client", "finalize", "finalizer", "error"} :
       p \notin Loading /\ p # "idle"
BY DEF Loading, HoldingPCs, QuotaPCs, ElectedPCs

LEMMA MarkReconcilingStep ==
  ASSUME IInv, MarkReconcilingIfNeeded PROVE WorkerStep
<1>1. pc = "mark" /\ Framed /\ Persist(Marked(mem, "Reconciling"), "bind")
  BY DEF MarkReconcilingIfNeeded, Framed, worldVars
<1>2. /\ Grows(mem, Marked(mem, "Reconciling"))
      /\ Marked(mem, "Reconciling") \in Resource
  BY <1>1, GrowsMarked, ReasonTypes
<1>3. PositionOK("bind", Marked(mem, "Reconciling"))
  BY <1>1, <1>2, MemFacts DEF PositionOK, Grows, HoldingPCs, QuotaPCs, ElectedPCs
<1> QED BY <1>1, <1>2, <1>3, PersistStep

LEMMA GetHarborClientStep ==
  ASSUME IInv, GetHarborClientForObject PROVE WorkerStep
<1> DEFINE c == conn[ConnOf[cur]]
<1>0. /\ pc = "bind" /\ Framed /\ mem \in Resource /\ mem.inc # 0 /\ cur \in Objects
      /\ mem.bound <= lastUid
  BY MemFacts DEF GetHarborClientForObject, Framed, worldVars
<1>1. CASE WithoutConnection("ConnectionNotFound", TRUE)
  BY <1>0, <1>1, WithoutConnectionStep, ReasonTypes
<1>2. CASE WithoutConnection("ConnectionChanged", FALSE)
  BY <1>0, <1>2, WithoutConnectionStep, ReasonTypes
<1>3. CASE Refused
  BY <1>0, <1>3, ReturnStep DEF Refused
<1>4. CASE /\ c.uid # 0 /\ mem.bound \in {0, c.uid}
           /\ mem.bound = 0 => memFresh
           /\ pc' = "client" /\ mem' = [mem EXCEPT !.bound = c.uid]
           /\ target' = c.url
           /\ IF mem.bound = 0 THEN Store(cur, mem') ELSE UNCHANGED <<cr, watch>>
           /\ UNCHANGED <<queue, timer, cur, memFresh, dirty, err>>
  <2>1. ConnOf[cur] \in Conns /\ c \in Connection
    BY <1>0, FunctionsAssumption DEF IInv, TypeOK
  <2>2. c.uid \in Nat /\ c.uid <= lastUid /\ c.url \in Urls[ConnOf[cur]]
    BY <1>4, <2>1 DEF IInv, ConnOK, Connection
  <2>3. mem'.bound = c.uid /\ mem' \in Resource
    BY <1>0, <1>4, <2>2 DEF Resource
  <2>4. Grows(mem, mem') /\ mem'.fin = mem.fin
    BY <1>0, <1>4, <2>2, <2>3 DEF Grows, Resource
  <2>5. TargetOK'
    BY <1>0, <1>4, <2>2, <2>3 DEF TargetOK, Framed
  <2>6. PositionOK(pc, mem)'
    BY <1>0, <1>4, <2>3, <2>4
       DEF PositionOK, Grows, HoldingPCs, QuotaPCs, ElectedPCs
  <2>7. CASE mem.bound = 0
    BY <1>0, <1>4, <2>3, <2>4, <2>5, <2>6, <2>7 DEF WorkerStep, StepWrote
  <2>8. CASE mem.bound # 0
    <3>1. Same(mem, mem')
      BY <1>4, <2>3, <2>4, <2>8 DEF Same, Grows
    <3> QED BY <1>0, <1>4, <2>5, <2>6, <2>8, <3>1 DEF WorkerStep, StepMoved, Loading
  <2> QED BY <2>7, <2>8
<1> QED BY <1>1, <1>2, <1>3, <1>4 DEF GetHarborClientForObject

LEMMA BuildHarborClientStep ==
  ASSUME IInv, BuildHarborClient PROVE WorkerStep
<1>0. pc = "client" /\ Framed
  BY DEF BuildHarborClient, Framed, worldVars
<1>1. CASE WithoutConnection("SecretNotFound", TRUE)
  BY <1>0, <1>1, WithoutConnectionStep, ReasonTypes
<1>2. CASE /\ Goto(IF mem.deleting THEN "finalize" ELSE HeldPC(mem), mem)
           /\ UNCHANGED <<cr, watch>>
  <2> DEFINE p == IF mem.deleting THEN "finalize" ELSE HeldPC(mem)
  <2>1. PositionOK(p, mem) /\ p # "idle"
    BY <1>0, MemFacts, PCNames
       DEF PositionOK, HeldPC, CheckedPC, HoldingPCs, QuotaPCs, ElectedPCs
  <2> HIDE DEF p
  <2> QED BY <1>0, <1>2, <2>1, GotoStep, SameMem, PCNames DEF p
<1> QED BY <1>1, <1>2 DEF BuildHarborClient

LEMMA FinalizeStep ==
  ASSUME IInv, FinalizeIfDeleting PROVE WorkerStep
<1>1. pc = "finalize" /\ Framed /\ RemoveFinalizer
  BY DEF FinalizeIfDeleting, Framed, worldVars
<1>2. mem.deleting
  BY <1>1, MemFacts DEF PositionOK
<1> QED BY <1>1, <1>2, RemoveStep

LEMMA EnsureFinalizerStep ==
  ASSUME IInv, EnsureFinalizer PROVE WorkerStep
<1> DEFINE rec == [mem EXCEPT !.fin = TRUE]
<1>1. pc = "finalizer" /\ Framed /\ Persist(rec, CheckedPC)
  BY DEF EnsureFinalizer, Framed, worldVars
<1>2. mem \in Resource /\ mem.inc # 0 /\ mem.bound # 0 /\ ~mem.deleting
      /\ mem.bound <= lastUid
  BY <1>1, MemFacts DEF PositionOK, Loading
<1>3. /\ rec \in Resource /\ Grows(mem, rec)
      /\ rec.fin /\ ~rec.deleting /\ rec.inc # 0 /\ rec.bound # 0
  BY <1>2 DEF Grows, Resource
<1>4. PositionOK(CheckedPC, rec) /\ CheckedPC # "idle"
  BY <1>3 DEF PositionOK, CheckedPC, HoldingPCs, QuotaPCs, ElectedPCs
<1> QED BY <1>1, <1>3, <1>4, PersistStep, PCNames

LEMMA EnsureSingletonOwnerStep ==
  ASSUME IInv, EnsureSingletonOwner PROVE WorkerStep
<1>0. pc = "owner" /\ Framed /\ pc \in HoldingPCs
  BY DEF EnsureSingletonOwner, Framed, worldVars, HoldingPCs
<1>1. CASE Fail("ConnectionNotFound") \/ Fail("Conflict")
  BY <1>0, <1>1, FailStep, ReasonTypes, PCNames
<1>2. CASE Goto(OwnerPC(mem), mem) /\ UNCHANGED <<cr, watch>>
  <2>1. kind # "Quota" /\ mem.inc # 0 /\ mem.bound # 0 /\ ~mem.deleting /\ mem.fin
    BY <1>0, MemFacts, PCNames DEF PositionOK
  <2>2. OwnerPC(mem) \in {"create", "update", "ready", "getSchedule", "settings"}
    BY <2>1, MemFacts, OwnerPCs, <1>0 DEF IInv
  <2>3. PositionOK(OwnerPC(mem), mem) /\ OwnerPC(mem) # "idle"
    BY <2>1, <2>2 DEF PositionOK, HoldingPCs, QuotaPCs, ElectedPCs
  <2> QED BY <1>0, <1>2, <2>3, GotoStep, SameMem, PCNames
<1> QED BY <1>1, <1>2 DEF EnsureSingletonOwner

\* A reconcile that holds its resource goes on from p to q with the copy d.
LEMMA HoldingPosition ==
  ASSUME IInv, pc \in HoldingPCs, NEW q \in HoldingPCs, NEW d, Same(mem, d),
         q \in QuotaPCs => kind = "Quota",
         q \in ElectedPCs \cup {"owner"} => kind # "Quota"
  PROVE  PositionOK(q, d) /\ q # "idle" /\ pc \notin Loading
<1>1. pc \notin Loading /\ pc # "idle" /\ q \notin Loading /\ q # "idle"
  BY PCNames
<1>2. PositionOK(pc, mem) /\ mem.inc # 0 /\ mem.bound # 0
  BY <1>1, MemFacts
<1>3. ~mem.deleting /\ mem.fin
  BY <1>2 DEF PositionOK
<1>4. q # "finalize"
  BY DEF HoldingPCs, QuotaPCs, ElectedPCs
<1> QED BY <1>1, <1>2, <1>3, <1>4 DEF PositionOK, Same

LEMMA HoldingGoto ==
  ASSUME IInv, Framed, pc \in HoldingPCs, NEW q \in HoldingPCs, NEW d, Same(mem, d),
         q \in QuotaPCs => kind = "Quota",
         q \in ElectedPCs \cup {"owner"} => kind # "Quota",
         Goto(q, d) \/ GotoDirty(q, d), UNCHANGED <<cr, watch>>
  PROVE  WorkerStep
BY HoldingPosition, GotoStep

LEMMA HoldingFacts ==
  ASSUME IInv
  PROVE  /\ pc \in HoldingPCs => pc # "idle" /\ pc \notin Loading
         /\ pc \in ElectedPCs \cup {"owner"} => kind # "Quota" /\ pc \in HoldingPCs
         /\ pc \in QuotaPCs => kind = "Quota" /\ pc \in HoldingPCs
<1>1. PositionOK(pc, mem)
  BY DEF IInv, WorkerOK
<1> QED BY <1>1, PCNames DEF PositionOK, HoldingPCs

LEMMA SameWithHash == ASSUME IInv PROVE Same(mem, WithHash(mem))
<1>1. mem \in Resource
  BY DEF IInv, TypeOK
<1> QED BY <1>1 DEF Same, WithHash, Resource

LEMMA BuildDesiredSettingsStep ==
  ASSUME IInv, BuildDesiredSettings PROVE WorkerStep
<1>0. pc = "settings" /\ pc \in HoldingPCs /\ Framed /\ kind # "Quota" /\ pc # "idle"
  BY HoldingFacts DEF BuildDesiredSettings, Framed, worldVars, ElectedPCs
<1>1. CASE Fail("SettingsError")
  BY <1>0, <1>1, FailStep, ReasonTypes
<1>2. CASE (Goto("noop", mem) \/ Goto("getConfig", mem)) /\ UNCHANGED <<cr, watch>>
  <2>1. /\ "noop" \in HoldingPCs /\ "getConfig" \in HoldingPCs
        /\ "noop" \notin QuotaPCs /\ "getConfig" \notin QuotaPCs
    BY DEF HoldingPCs, ElectedPCs, QuotaPCs
  <2> QED BY <1>0, <1>2, <2>1, HoldingGoto, SameMem
<1> QED BY <1>1, <1>2 DEF BuildDesiredSettings

LEMMA GetScanAllScheduleStep ==
  ASSUME IInv, GetScanAllSchedule PROVE WorkerStep
<1>0. /\ pc \in HoldingPCs /\ Framed /\ kind # "Quota" /\ pc \notin Loading
      /\ UNCHANGED <<cr, watch>>
  BY HoldingFacts DEF GetScanAllSchedule, Framed, apiVars, ElectedPCs
<1>1. CASE CallFailed("HarborError")
  BY <1>0, <1>1, CallFailedStep
<1>2. CASE \/ Goto("create", mem) \/ Goto("update", mem) \/ Goto("ready", mem)
           \/ GotoDirty("ready", WithHash(mem))
  <2>1. \A q \in {"create", "update", "ready"} : q \in HoldingPCs /\ q \notin QuotaPCs
    BY DEF HoldingPCs, ElectedPCs, QuotaPCs
  <2> QED BY <1>0, <1>2, <2>1, HoldingGoto, SameMem, SameWithHash
<1> QED BY <1>1, <1>2 DEF GetScanAllSchedule

LEMMA GetConfigurationsStep ==
  ASSUME IInv, GetConfigurations PROVE WorkerStep
<1>0. /\ pc \in HoldingPCs /\ Framed /\ kind # "Quota" /\ pc \notin Loading
      /\ UNCHANGED <<cr, watch>>
  BY HoldingFacts DEF GetConfigurations, Framed, apiVars, ElectedPCs
<1>1. CASE CallFailed("HarborError") \/ CallFailed("SettingsError")
  BY <1>0, <1>1, CallFailedStep
<1>2. CASE Goto("ready", mem) \/ Goto("update", mem)
  <2>1. \A q \in {"update", "ready"} : q \in HoldingPCs /\ q \notin QuotaPCs
    BY DEF HoldingPCs, ElectedPCs, QuotaPCs
  <2> QED BY <1>0, <1>2, <2>1, HoldingGoto, SameMem
<1> QED BY <1>1, <1>2 DEF GetConfigurations

LEMMA ResolveProjectStep ==
  ASSUME IInv, ResolveProject PROVE WorkerStep
<1>0. pc \in HoldingPCs /\ Framed /\ kind = "Quota" /\ pc # "idle"
  BY HoldingFacts DEF ResolveProject, Framed, worldVars, QuotaPCs
<1>1. CASE Fail("SettingsError")
  BY <1>0, <1>1, FailStep, ReasonTypes
<1>2. CASE (Goto("findQuota", mem) \/ Goto("getQuota", mem)) /\ UNCHANGED <<cr, watch>>
  <2>1. \A q \in {"findQuota", "getQuota"} :
          q \in HoldingPCs /\ q \notin ElectedPCs \cup {"owner"}
    BY DEF HoldingPCs, ElectedPCs, QuotaPCs
  <2> QED BY <1>0, <1>2, <2>1, HoldingGoto, SameMem
<1> QED BY <1>1, <1>2 DEF ResolveProject

LEMMA FindQuotaStep ==
  ASSUME IInv, FindQuotaID PROVE WorkerStep
<1>0. /\ pc \in HoldingPCs /\ Framed /\ kind = "Quota" /\ pc \notin Loading
      /\ UNCHANGED <<cr, watch>>
  BY HoldingFacts DEF FindQuotaID, Framed, apiVars, QuotaPCs
<1>1. CASE CallFailed("HarborError")
  BY <1>0, <1>1, CallFailedStep
<1>2. CASE Goto("recordQuota", [mem EXCEPT !.quotaId = harbor[target].id])
  <2>1. Same(mem, [mem EXCEPT !.quotaId = harbor[target].id])
    BY DEF IInv, TypeOK, Same, Resource
  <2>2. "recordQuota" \in HoldingPCs /\ "recordQuota" \notin ElectedPCs \cup {"owner"}
    BY DEF HoldingPCs, ElectedPCs, QuotaPCs
  <2> QED BY <1>0, <1>2, <2>1, <2>2, HoldingGoto
<1> QED BY <1>1, <1>2 DEF FindQuotaID

LEMMA RecordQuotaStep ==
  ASSUME IInv, RecordQuotaID PROVE WorkerStep
<1>0. pc \in HoldingPCs /\ Framed /\ kind = "Quota" /\ pc \notin Loading
      /\ pc # "idle" /\ Persist(mem, "getQuota")
  BY HoldingFacts DEF RecordQuotaID, Framed, worldVars, QuotaPCs
<1>1. mem \in Resource /\ Grows(mem, mem)
  BY <1>0, MemFacts DEF Grows
<1>2. "getQuota" \in HoldingPCs /\ "getQuota" \notin ElectedPCs \cup {"owner"}
  BY DEF HoldingPCs, ElectedPCs, QuotaPCs
<1>3. PositionOK("getQuota", mem)
  BY <1>0, <1>2, HoldingPosition, SameMem
<1> QED BY <1>0, <1>1, <1>3, PersistStep

LEMMA GetQuotaStep ==
  ASSUME IInv, GetQuota PROVE WorkerStep
<1>0. pc \in HoldingPCs /\ Framed /\ kind = "Quota" /\ pc \notin Loading /\ pc # "idle"
  BY HoldingFacts DEF GetQuota, Framed, QuotaPCs
<1>1. CASE CallFailed("HarborError") /\ UNCHANGED <<cr, watch>>
  BY <1>0, <1>1, CallFailedStep
<1>2. CASE (Goto("ready", mem) \/ Goto("update", mem)) /\ UNCHANGED <<cr, watch>>
  <2>1. \A q \in {"ready", "update"} :
          q \in HoldingPCs /\ q \notin ElectedPCs \cup {"owner"}
    BY DEF HoldingPCs, ElectedPCs, QuotaPCs
  <2> QED BY <1>0, <1>2, <2>1, HoldingGoto, SameMem
<1>3. CASE RequeueOnRemoteNotFound
  <2> DEFINE rec == [mem EXCEPT !.quotaId = 0]
  <2>1. rec \in Resource /\ Same(mem, rec) /\ mem.bound <= lastUid
    BY <1>0, MemFacts DEF Same, Resource
  <2>2. Marked(rec, "NotFound") \in Resource
    BY <2>1, MarkedType, ReasonTypes
  <2>3. Same(rec, Marked(rec, "NotFound"))
    <3> HIDE DEF rec
    <3> QED BY <2>1 DEF Same, Marked, Resource
  <2>4. Grows(mem, Marked(rec, "NotFound"))
    <3> HIDE DEF rec
    <3> QED BY <2>1, <2>2, <2>3 DEF Grows, Same
  <2> QED BY <1>0, <1>3, <2>2, <2>4, PersistAndReturnStep, ReturnStep
          DEF RequeueOnRemoteNotFound
<1> QED BY <1>1, <1>2, <1>3 DEF GetQuota

LEMMA WriteStep ==
  ASSUME IInv, CreateRemote \/ UpdateRemote PROVE WorkerStep
<1>0. /\ pc \in HoldingPCs /\ Framed /\ pc \notin Loading
      /\ UNCHANGED <<cr, watch>>
      /\ \/ CallFailed("HarborError")
         \/ pc = "create" /\ (Goto("created", WrittenRec) \/ GotoDirty("created", WrittenRec))
         \/ Goto("ready", WrittenRec) \/ GotoDirty("ready", WrittenRec)
  BY HoldingFacts, WritesAreWritten DEF Written, Framed, apiVars, HoldingPCs, ElectedPCs
<1>1. Same(mem, WrittenRec)
  BY SameMem, SameWithHash DEF WrittenRec
<1>2. \A q \in {"created", "ready"} :
        q \in HoldingPCs /\ q \notin ElectedPCs \cup {"owner"} /\ q \notin QuotaPCs
  BY DEF HoldingPCs, ElectedPCs, QuotaPCs
<1> QED BY <1>0, <1>1, <1>2, CallFailedStep, HoldingGoto

LEMMA UpdateVanishedQuotaStep ==
  ASSUME IInv, UpdateVanishedQuota PROVE WorkerStep
<1>0. /\ pc \in HoldingPCs /\ Framed /\ pc \notin Loading /\ UNCHANGED <<cr, watch>>
  BY HoldingFacts DEF UpdateVanishedQuota, Framed, apiVars, worldVars, HoldingPCs
<1> QED BY <1>0, CallFailedStep DEF UpdateVanishedQuota

LEMMA SetStatusActionStep ==
  ASSUME IInv, SetCreatedStatus \/ SetReadyStatus \/ SetNoopStatus \/ SetErrorStatus
  PROVE  WorkerStep
<1>0. Framed /\ pc # "idle" /\ err \in Reasons
  BY DEF SetCreatedStatus, SetReadyStatus, SetNoopStatus, SetErrorStatus, Framed,
         worldVars, IInv, TypeOK
<1> QED BY <1>0, SetStatusStep, FailStep, ReasonTypes
        DEF SetCreatedStatus, SetReadyStatus, SetNoopStatus, SetErrorStatus

LEMMA ReconcileStep == ASSUME IInv, Reconcile PROVE WorkerStep
BY MarkReconcilingStep, GetHarborClientStep, BuildHarborClientStep, FinalizeStep,
   EnsureFinalizerStep, EnsureSingletonOwnerStep, BuildDesiredSettingsStep,
   GetScanAllScheduleStep, GetConfigurationsStep, ResolveProjectStep, FindQuotaStep,
   RecordQuotaStep, GetQuotaStep, WriteStep, UpdateVanishedQuotaStep,
   SetStatusActionStep
   DEF Reconcile

-----------------------------------------------------------------------------
(* A worker's step keeps the invariant *)

\* The version a worker may write, as the API server has it.
LEMMA FreshFacts ==
  ASSUME IInv, memFresh
  PROVE  /\ pc # "idle" /\ cur \in Objects /\ mem.inc # 0
         /\ cr[cur].inc = mem.inc /\ cr[cur].deleting = mem.deleting
         /\ cr[cur].fin = mem.fin /\ cr[cur].bound = mem.bound
         /\ cr[cur].createdAt = mem.createdAt
         /\ Alike(cache[cur], mem)
         /\ \A i \in EventsOf(cur) : Alike(watch[i][2], mem)
         /\ mem.inc <= lastInc[cur] /\ (mem.deleting => mem.fin)
<1>1. pc # "idle"
  BY DEF IInv, WorkerOK
<1>2. KnownCopy(cur, mem) /\ mem.inc # 0 /\ FreshOK /\ cur \in Objects
  BY <1>1, MemFacts
<1>3. /\ cr[cur].inc = mem.inc /\ cr[cur].deleting = mem.deleting
      /\ cr[cur].fin = mem.fin /\ cr[cur].bound = mem.bound
      /\ Alike(cache[cur], mem) /\ \A i \in EventsOf(cur) : Alike(watch[i][2], mem)
  BY <1>2 DEF FreshOK, Alike
<1>4. mem.inc <= lastInc[cur] /\ (mem.deleting => mem.fin)
      /\ cr[cur].createdAt = mem.createdAt
  BY <1>2, <1>3 DEF KnownCopy, CopyOK
<1> QED BY <1>1, <1>2, <1>3, <1>4

LEMMA WroteKept ==
  ASSUME IInv, memFresh, NEW rec \in Resource, Grows(mem, rec), NEW c
  PROVE  RecordKept(c, cr[cur], rec, lastInc[cur])
BY FreshFacts DEF RecordKept, Grows

LEMMA WroteApi ==
  ASSUME IInv, TypeOK', Framed, memFresh, NEW rec \in Resource, Grows(mem, rec),
         Store(cur, rec)
  PROVE  ApiOK'
<1>1. TypeOK /\ ApiOK /\ cur \in Objects
  BY FreshFacts DEF IInv
<1>2. UNCHANGED <<cache, lastUid>> /\ \A p \in Objects : lastInc[p] <= lastInc'[p]
  BY <1>1 DEF Framed, TypeOK
<1>3. rec.inc # 0 => /\ rec.inc <= lastInc'[cur] /\ rec.bound <= lastUid
                     /\ rec.deleting => rec.fin
  BY FreshFacts DEF Framed, Grows
<1>4. Writable(cur, rec)
  BY WroteKept, FreshFacts DEF Writable, Grows
<1> QED BY <1>1, <1>2, <1>3, <1>4, StoredApi

LEMMA RemovedApi ==
  ASSUME IInv, TypeOK', Framed, memFresh, mem.deleting, Store(cur, NoResource)
  PROVE  ApiOK'
<1>1. TypeOK /\ ApiOK /\ cur \in Objects
  BY FreshFacts DEF IInv
<1>2. UNCHANGED <<cache, lastUid>> /\ \A p \in Objects : lastInc[p] <= lastInc'[p]
  BY <1>1 DEF Framed, TypeOK
<1>3. Writable(cur, NoResource)
  BY FreshFacts, NoResourceType DEF Writable, RecordKept, Alike
<1> QED BY <1>1, <1>2, <1>3, NoResourceType, StoredApi

LEMMA StepApi == ASSUME IInv, TypeOK', WorkerStep PROVE ApiOK'
<1>1. CASE UNCHANGED <<cr, watch>>
  <2>1. lastUid <= lastUid'
    BY DEF WorkerStep, Framed, IInv, TypeOK
  <2> QED BY <1>1, <2>1, SameApi DEF WorkerStep, Framed, IInv
<1>2. CASE StepWrote
  BY <1>2, WroteApi DEF StepWrote, WorkerStep
<1>3. CASE StepRemoved
  BY <1>3, RemovedApi DEF StepRemoved, WorkerStep
<1> QED BY <1>1, <1>2, <1>3 DEF WorkerStep, StepEnded, StepMoved

\* A worker that has stopped knows nothing.
LEMMA IdleWorker == ASSUME ForgetLocals PROVE WorkerOK'
BY ForgotPosition DEF ForgetLocals, WorkerOK, FreshOK, MemShownOK

LEMMA MovedWorker ==
  ASSUME IInv, WorkerStep, StepMoved PROVE WorkerOK'
<1>1. /\ UNCHANGED <<cr, watch, cur, memFresh, cache, lastInc, lastUid>>
      /\ Same(mem, mem') /\ pc # "idle" /\ pc' # "idle"
  BY DEF WorkerStep, StepMoved, Framed
<1>2. EventsOf(cur)' = EventsOf(cur)
  BY <1>1 DEF EventsOf
<1>3. KnownCopy(cur, mem) /\ FreshOK /\ MemShownOK
  BY <1>1 DEF IInv, WorkerOK
<1>4. KnownCopy(cur, mem)'
  BY <1>1, <1>3 DEF KnownCopy, CopyOK, Same
<1>5. FreshOK' /\ MemShownOK'
  BY <1>1, <1>2, <1>3 DEF FreshOK, MemShownOK, Alike, Same
<1> QED BY <1>1, <1>4, <1>5 DEF WorkerOK, WorkerStep

LEMMA WroteWorker ==
  ASSUME IInv, TypeOK', WorkerStep, StepWrote PROVE WorkerOK'
<1>1. PICK rec \in Resource :
        /\ memFresh /\ Grows(mem, rec) /\ Store(cur, rec)
        /\ \/ ForgetLocals
           \/ pc' # "idle" /\ mem' = rec /\ UNCHANGED <<cur, memFresh>>
  BY DEF StepWrote
<1>2. CASE ForgetLocals
  BY <1>2, IdleWorker
<1>3. CASE pc' # "idle" /\ mem' = rec /\ UNCHANGED <<cur, memFresh>>
  <2>1. /\ cr'[cur] = rec /\ cur \in Objects
        /\ UNCHANGED <<cache, lastInc, lastUid>> /\ cur' = cur
    BY <1>1, <1>3 DEF WorkerStep, Framed, Store, IInv, TypeOK
  <2>2. KnownCopy(cur, cr[cur])'
    BY <1>1, <2>1, WroteApi DEF WorkerStep, ApiOK, CopiesOK, KnownCopy
  <2>3. KnownCopy(cur, mem)'
    BY <1>3, <2>1, <2>2 DEF KnownCopy
  <2>4. Alike(cr[cur], mem)' /\ cr'[cur].fin = mem'.fin /\ cr'[cur].bound = mem'.bound
    BY <1>3, <2>1 DEF Alike
  <2>5. Alike(cache[cur], mem)'
    BY <1>1, <1>3, <2>1, FreshFacts DEF Alike, Grows
  <2>6. \A i \in EventsOf(cur)' : Alike(watch'[i][2], mem')
    <3> SUFFICES ASSUME NEW i \in EventsOf(cur)' PROVE Alike(watch'[i][2], mem')
      OBVIOUS
    <3>1. EventsOf(cur)' = EventsOf(cur) \cup {Len(watch) + 1}
          /\ watch'[Len(watch) + 1][2] = rec
          /\ \A j \in EventsOf(cur) : watch'[j] = watch[j]
      BY <1>1, <2>1, AppendedEvents DEF IInv, EventsOf
    <3>2. \A j \in EventsOf(cur) : Alike(watch[j][2], mem)
      BY <1>1, FreshFacts
    <3> QED BY <1>1, <1>3, <2>1, <3>1, <3>2 DEF Alike, Grows
  <2>7. FreshOK'
    BY <2>1, <2>4, <2>5, <2>6 DEF FreshOK, EventsOf
  <2>8. MemShownOK'
    BY <2>5 DEF MemShownOK, Alike
  <2> QED BY <1>3, <2>3, <2>7, <2>8 DEF WorkerOK, WorkerStep
<1> QED BY <1>1, <1>2, <1>3

LEMMA StepWorker == ASSUME IInv, TypeOK', WorkerStep PROVE WorkerOK'
BY IdleWorker, MovedWorker, WroteWorker DEF WorkerStep, StepEnded, StepRemoved

LEMMA StepConn == ASSUME IInv, WorkerStep PROVE ConnOK'
BY DEF IInv, ConnOK, WorkerStep, Framed

\* Harbor's settings are written with the incarnation of the worker's copy.
LEMMA StepHarbor ==
  ASSUME IInv, Reconcile
  PROVE  \/ harbor' = harbor
         \/ Overwrite /\ UNCHANGED <<cr, watch>> /\ pc # "idle"
BY WritesAreWritten
   DEF Reconcile, MarkReconcilingIfNeeded, GetHarborClientForObject, BuildHarborClient,
       FinalizeIfDeleting, EnsureFinalizer, EnsureSingletonOwner, BuildDesiredSettings,
       GetScanAllSchedule, GetConfigurations, ResolveProject, FindQuotaID,
       RecordQuotaID, GetQuota, UpdateVanishedQuota, SetCreatedStatus, SetReadyStatus,
       SetNoopStatus, SetErrorStatus, Written, apiVars

\* The incarnation at the API server stays, or there is none any more.
LEMMA StepInc ==
  ASSUME IInv, WorkerStep, NEW p \in Objects
  PROVE  cr'[p].inc = cr[p].inc \/ cr'[p].inc = 0
<1>1. CASE StepWrote
  <2>1. PICK rec \in Resource : memFresh /\ Grows(mem, rec) /\ Store(cur, rec)
    BY <1>1 DEF StepWrote
  <2> QED BY <2>1, FreshFacts DEF Grows, Store, IInv, TypeOK
<1>2. CASE StepRemoved
  BY <1>2, FreshFacts, NoResourceType DEF StepRemoved, Store, IInv, TypeOK
<1> QED BY <1>1, <1>2 DEF WorkerStep, StepEnded, StepMoved

LEMMA StepWriters == ASSUME IInv, Reconcile, WorkerStep PROVE WritersOK'
<1> SUFFICES ASSUME NEW i \in Instances, NEW p \in Objects, NEW n \in Nat,
                    harbor'[i].writer = <<p, n>>, n # 0
             PROVE  n <= lastInc'[p] /\ (n = cr'[p].inc => cache'[p].inc = n)
  BY DEF WritersOK
<1>1. UNCHANGED <<lastInc, cache>>
  BY DEF WorkerStep, Framed
<1>2. CASE harbor'[i].writer = harbor[i].writer
  BY <1>1, <1>2, StepInc DEF IInv, WritersOK
<1>3. CASE harbor'[i].writer # harbor[i].writer
  <2>1. Overwrite /\ UNCHANGED cr /\ pc # "idle"
    BY <1>3, StepHarbor
  <2>2. harbor'[i].writer = Me
    BY <1>3, <2>1 DEF Overwrite, IInv, TypeOK, Setting
  <2>3. p = cur /\ n = mem.inc
    BY <2>2 DEF Me
  <2>4. KnownCopy(cur, mem) /\ MemShownOK
    BY <2>1 DEF IInv, WorkerOK
  <2> QED BY <1>1, <2>1, <2>3, <2>4 DEF KnownCopy, CopyOK, MemShownOK
<1> QED BY <1>2, <1>3

LEMMA ReconcileInv == ASSUME IInv, Reconcile PROVE IInv'
<1>1. WorkerStep
  BY ReconcileStep
<1>2. pc = "owner" => kind # "Quota"
  BY HoldingFacts
<1>3. TypeOK'
  BY <1>2, ReconcileTypes DEF IInv
<1> QED BY <1>1, <1>3, StepApi, StepWorker, StepConn, StepWriters DEF IInv

-----------------------------------------------------------------------------
(* The steps of others keep the invariant *)

\* Nothing happens to the resources or to the worker's locals.
LEMMA OthersWorker ==
  ASSUME IInv, UNCHANGED <<kind, localVars, cr, watch, cache, lastInc>>, TypeOK',
         lastUid <= lastUid', TargetOK'
  PROVE  WorkerOK'
<1>1. UNCHANGED <<pc, cur, mem, memFresh>>
  BY DEF localVars
<1>2. EventsOf(cur)' = EventsOf(cur)
  BY <1>1 DEF EventsOf
<1>3. pc # "idle" => KnownCopy(cur, mem)'
  <2> SUFFICES ASSUME pc # "idle" PROVE KnownCopy(cur, mem)'
    OBVIOUS
  <2>1. mem.bound \in Nat /\ lastUid \in Nat /\ lastUid' \in Nat /\ KnownCopy(cur, mem)
    BY MemFacts DEF TypeOK
  <2> QED BY <1>1, <2>1 DEF KnownCopy, CopyOK
<1>4. FreshOK' /\ MemShownOK' /\ PositionOK(pc, mem)' /\ (pc = "idle" => ~memFresh)
  BY <1>1, <1>2 DEF IInv, WorkerOK, FreshOK, MemShownOK, PositionOK
<1> QED BY <1>1, <1>3, <1>4 DEF WorkerOK

LEMMA SameWriters ==
  ASSUME IInv, UNCHANGED <<harbor, cr, cache, lastInc>> PROVE WritersOK'
BY DEF IInv, WritersOK

\* The queue, timers, clock, Secrets and settings are all that changes.
LEMMA QuietInv ==
  ASSUME IInv, TypeOK',
         UNCHANGED <<kind, cr, lastInc, watch, cache, localVars, harbor, conn, lastUid>>
  PROVE  IInv'
<1>1. lastUid <= lastUid'
  BY DEF TypeOK
<1>2. TargetOK'
  BY DEF IInv, WorkerOK, TargetOK, localVars
<1>3. ConnOK'
  BY DEF IInv, ConnOK
<1> QED BY <1>1, <1>2, <1>3, SameApi, OthersWorker, SameWriters DEF IInv

LEMMA QuietActionsInv ==
  ASSUME IInv,
         \/ \E o \in Objects : DriftTimer(o)
         \/ LoseSecret \/ RestoreSecret \/ BreakSettings \/ RepairSettings \/ Tick
  PROVE  IInv'
<1>1. TypeOK'
  BY DriftTimerTypes, SecretTypes DEF IInv
<1>2. UNCHANGED <<kind, cr, lastInc, watch, cache, localVars, harbor, conn, lastUid>>
  BY DEF DriftTimer, LoseSecret, RestoreSecret, BreakSettings, RepairSettings, Tick,
         apiVars, workerVars, worldVars
<1> QED BY <1>1, <1>2, QuietInv

LEMMA ForeignInv == ASSUME IInv, ForeignWrite \/ RecreateProject PROVE IInv'
<1>0. TypeOK /\ TypeOK'
  BY ForeignTypes DEF IInv
<1>1. /\ UNCHANGED <<kind, cr, lastInc, watch, cache, localVars, conn, lastUid>>
      /\ lastUid <= lastUid'
  BY <1>0 DEF ForeignWrite, RecreateProject, apiVars, workerVars, TypeOK
<1>2. TargetOK'
  BY <1>1 DEF IInv, WorkerOK, TargetOK, localVars
<1>3. ConnOK'
  BY <1>1 DEF IInv, ConnOK
<1>4. \A i \in Instances : harbor'[i].writer \in {harbor[i].writer, <<Env, 0>>}
  <2>1. CASE ForeignWrite
    <3>1. PICK j \in Instances, d \in Payloads :
            harbor' = [harbor EXCEPT ![j] =
                         [harbor[j] EXCEPT !.data = d, !.writer = <<Env, 0>>]]
      BY <2>1, <1>0 DEF ForeignWrite, TypeOK
    <3>2. \A i \in Instances :
            harbor'[i] = IF i = j
                         THEN [harbor[j] EXCEPT !.data = d, !.writer = <<Env, 0>>]
                         ELSE harbor[i]
      BY <1>0, <3>1 DEF TypeOK
    <3>3. [harbor[j] EXCEPT !.data = d, !.writer = <<Env, 0>>].writer = <<Env, 0>>
      BY <1>0 DEF TypeOK, Setting
    <3> QED BY <3>2, <3>3
  <2>2. CASE RecreateProject
    <3>1. PICK j \in Instances :
            harbor' = [harbor EXCEPT ![j] = [data |-> None, writer |-> <<Env, 0>>,
                                             id |-> harbor[j].id + 1]]
      BY <2>2 DEF RecreateProject
    <3> QED BY <1>0, <3>1 DEF TypeOK
  <2> QED BY <2>1, <2>2
<1>5. WritersOK'
  BY <1>1, <1>4 DEF IInv, WritersOK
<1> QED BY <1>0, <1>1, <1>2, <1>3, <1>5, SameApi, OthersWorker DEF IInv

LEMMA ConnectionInv ==
  ASSUME IInv, NEW c \in Conns, DeleteConnection(c) \/ CreateConnection(c)
  PROVE  IInv'
<1>0. TypeOK /\ TypeOK'
  BY ConnectionTypes DEF IInv
<1>1. /\ UNCHANGED <<kind, cr, lastInc, watch, cache, localVars, harbor>>
      /\ lastUid \in Nat /\ lastUid' \in Nat /\ lastUid <= lastUid'
  BY <1>0 DEF DeleteConnection, CreateConnection, apiVars, TypeOK
<1>2. \/ conn' = [conn EXCEPT ![c] = NoConnection] /\ lastUid' = lastUid
      \/ /\ lastUid' = lastUid + 1
         /\ \E i \in Urls[c] : conn' = [conn EXCEPT ![c] = [uid |-> lastUid + 1, url |-> i]]
  BY DEF DeleteConnection, CreateConnection
<1>3. \A b \in Conns : b # c => conn'[b] = conn[b]
  BY <1>0, <1>2 DEF TypeOK
<1>4. \/ conn'[c].uid = 0 /\ lastUid' = lastUid
      \/ conn'[c].uid = lastUid + 1 /\ lastUid' = lastUid + 1 /\ conn'[c].url \in Urls[c]
  BY <1>0, <1>2 DEF TypeOK, NoConnection
<1>5. ConnOK'
  <2>1. \A b \in Conns : conn[b].uid \in Nat /\ conn[b].uid <= lastUid
    BY <1>0 DEF IInv, ConnOK, TypeOK, Connection
  <2>2. \A b \in Conns : conn'[b].uid <= lastUid'
    BY <1>1, <1>3, <1>4, <2>1
  <2>3. \A b \in Conns : conn'[b].uid # 0 => conn'[b].url \in Urls[b]
    BY <1>3, <1>4 DEF IInv, ConnOK
  <2> QED BY <2>2, <2>3 DEF ConnOK
<1>6. TargetOK'
  <2> SUFFICES ASSUME pc \notin {"idle", "mark", "bind"}
               PROVE  /\ target \in Urls[ConnOf[cur]]
                      /\ conn'[ConnOf[cur]].uid = mem.bound
                           => conn'[ConnOf[cur]].url = target
    BY <1>1 DEF TargetOK, localVars
  <2>1. target \in Urls[ConnOf[cur]]
        /\ (conn[ConnOf[cur]].uid = mem.bound => conn[ConnOf[cur]].url = target)
    BY DEF IInv, WorkerOK, TargetOK
  <2>2. mem.bound # 0 /\ mem.bound <= lastUid /\ mem.bound \in Nat
    BY MemFacts DEF Loading
  <2>3. ConnOf[cur] \in Conns
    BY <1>0, FunctionsAssumption DEF TypeOK
  <2>4. conn'[ConnOf[cur]].uid = mem.bound => ConnOf[cur] # c
    BY <1>1, <1>4, <2>2
  <2> QED BY <1>3, <2>1, <2>3, <2>4
<1> QED BY <1>0, <1>1, <1>5, <1>6, SameApi, OthersWorker, SameWriters DEF IInv

LEMMA LoadResourceInv ==
  ASSUME IInv, NEW o \in Objects, LoadResource(o) PROVE IInv'
<1>0. TypeOK' /\ TypeOK
  BY LoadResourceTypes DEF IInv
<1>1. UNCHANGED <<kind, cr, lastInc, watch, cache, harbor, conn, lastUid>>
  BY DEF LoadResource, apiVars, worldVars
<1>2. CASE UNCHANGED localVars
  BY <1>0, <1>1, <1>2, QuietInv
<1>3. CASE /\ cache[o].inc # 0
           /\ pc' = LoadedPC(cache[o]) /\ cur' = o
           /\ mem' = cache[o] /\ memFresh' = CacheIsCurrent(o)
  <2>1. pc' \in {"bind", "mark"}
    BY <1>3 DEF LoadedPC
  <2>2. KnownCopy(cur, mem)'
    BY <1>1, <1>3 DEF IInv, ApiOK, CopiesOK, KnownCopy
  <2>3. FreshOK'
    <3> SUFFICES ASSUME CacheIsCurrent(o) PROVE FreshOK'
      BY <1>3 DEF FreshOK
    <3>1. EventsOf(o) = {}
      BY DEF CacheIsCurrent, EventsOf
    <3>2. cache[o] = cr[o]
      BY <3>1 DEF IInv, ApiOK, LatestOK
    <3>3. EventsOf(o)' = {}
      BY <1>1, <3>1 DEF EventsOf
    <3>4. EventsOf(cur)' = {}
      BY <1>3, <3>3 DEF EventsOf
    <3> QED BY <1>1, <1>3, <3>2, <3>4 DEF FreshOK, Alike
  <2>4. PositionOK(pc, mem)'
    BY <1>3, <2>1 DEF PositionOK, HoldingPCs, QuotaPCs, ElectedPCs
  <2>5. TargetOK' /\ MemShownOK' /\ (pc' = "idle" => ~memFresh')
    BY <1>1, <1>3, <2>1 DEF TargetOK, MemShownOK
  <2>6. WorkerOK'
    BY <2>2, <2>3, <2>4, <2>5 DEF WorkerOK
  <2>7. lastUid <= lastUid' /\ ConnOK'
    BY <1>0, <1>1 DEF IInv, ConnOK, TypeOK
  <2> QED BY <1>0, <1>1, <2>6, <2>7, SameApi, SameWriters DEF IInv
<1> QED BY <1>2, <1>3 DEF LoadResource

LEMMA CrashInv == ASSUME IInv, Crash PROVE IInv'
<1>0. TypeOK /\ TypeOK'
  BY CrashTypes DEF IInv
<1>1. /\ UNCHANGED <<cr, lastInc, harbor, conn, lastUid>> /\ cache' = cr /\ ForgetLocals
  BY DEF Crash
<1>2. ConnOK' /\ WritersOK'
  BY <1>1 DEF IInv, ConnOK, WritersOK
<1> QED BY <1>0, <1>1, <1>2, CrashApi, IdleWorker DEF IInv

LEMMA DeliverInv == ASSUME IInv, Deliver PROVE IInv'
<1>0. TypeOK /\ TypeOK'
  BY DeliverTypes DEF IInv
<1>1. /\ UNCHANGED <<kind, cr, lastInc, harbor, conn, lastUid>>
      /\ UNCHANGED <<pc, cur, mem, memFresh, target>>
  BY DEF Deliver, localVars, worldVars
<1>2. PICK o \in Objects :
        /\ 1 \in EventsOf(o)
        /\ cache'[o] = watch[1][2] /\ \A p \in Objects \ {o} : cache'[p] = cache[p]
        /\ \A p \in Objects, i \in Nat :
             i \in EventsOf(p)' <=> i + 1 \in EventsOf(p) /\ i # 0
        /\ \A p \in Objects : \A i \in EventsOf(p)' :
             i \in Nat /\ watch'[i] = watch[i + 1]
  BY <1>0, DeliverStep
\* The current incarnation, once shown, stays shown.
<1>3. ASSUME NEW p \in Objects, cr[p].inc # 0, cache[p].inc = cr[p].inc
      PROVE  cache'[p].inc = cr[p].inc
  <2>1. \A i \in EventsOf(p) : watch[i][2].inc = cr[p].inc
    BY <1>3 DEF IInv, ApiOK, ShownOK
  <2> QED BY <1>2, <1>3, <2>1
<1>4. MemShownOK'
  <2> SUFFICES ASSUME pc # "idle", mem.inc = cr[cur].inc PROVE cache'[cur].inc = mem.inc
    BY <1>1 DEF MemShownOK
  <2>1. mem.inc # 0 /\ cur \in Objects /\ cache[cur].inc = mem.inc
    BY MemFacts DEF IInv, WorkerOK, MemShownOK
  <2> QED BY <1>3, <2>1
<1>5. WritersOK'
  BY <1>1, <1>3 DEF IInv, WritersOK
\* What is like the worker's copy stays so, whatever is delivered.
<1>6. ASSUME NEW p \in Objects, Alike(cache[p], mem),
             \A i \in EventsOf(p) : Alike(watch[i][2], mem)
      PROVE  Alike(cache'[p], mem) /\ \A i \in EventsOf(p)' : Alike(watch'[i][2], mem)
  <2>1. Alike(cache'[p], mem)
    BY <1>2, <1>6
  <2>2. ASSUME NEW i \in EventsOf(p)' PROVE Alike(watch'[i][2], mem)
    <3>1. i \in Nat /\ watch'[i] = watch[i + 1]
      BY <1>2
    <3>2. i + 1 \in EventsOf(p)
      BY <1>2, <3>1
    <3> QED BY <1>6, <3>1, <3>2
  <2> QED BY <2>1, <2>2
<1>8. FreshOK'
  <2> SUFFICES ASSUME memFresh PROVE FreshOK'
    BY <1>1 DEF FreshOK
  <2>1. PICK q \in Objects : q = cur
    BY FreshFacts
  <2>2. Alike(cache[q], mem) /\ \A i \in EventsOf(q) : Alike(watch[i][2], mem)
    BY <2>1, FreshFacts
  <2>3. Alike(cache'[q], mem) /\ \A i \in EventsOf(q)' : Alike(watch'[i][2], mem)
    BY <1>6, <2>2
  <2>4. Alike(cr[cur], mem) /\ cr[cur].fin = mem.fin /\ cr[cur].bound = mem.bound
    BY DEF IInv, WorkerOK, FreshOK
  <2>5. q = cur' /\ EventsOf(cur)' = EventsOf(q)'
    BY <1>1, <2>1 DEF EventsOf
  <2>6. Alike(cache[cur], mem)' /\ (\A i \in EventsOf(cur) : Alike(watch[i][2], mem))'
    BY <1>1, <2>1, <2>3, <2>5 DEF Alike
  <2> QED BY <1>1, <2>4, <2>6 DEF FreshOK, Alike
<1>7. TargetOK' /\ ConnOK' /\ PositionOK(pc, mem)' /\ (pc' = "idle" => ~memFresh')
      /\ (pc' # "idle" => KnownCopy(cur, mem)')
  BY <1>1 DEF IInv, WorkerOK, TargetOK, ConnOK, PositionOK, KnownCopy
<1> QED BY <1>0, <1>4, <1>5, <1>7, <1>8, DeliverApi DEF IInv, WorkerOK

\* What a user makes of a resource never surprises who has a copy of it.
UserRecord(o, rec) ==
  /\ \A c \in Resource : KnownCopy(o, c) => RecordKept(c, cr[o], rec, lastInc[o])
  /\ rec.inc \in {0, cr[o].inc} \/ rec.inc > lastInc[o]
  /\ rec.inc # 0 => /\ rec.inc <= lastInc'[o] /\ rec.bound <= lastUid
                    /\ rec.deleting => rec.fin

LEMMA UserWritesInv ==
  ASSUME IInv, TypeOK', NEW o \in Objects, NEW rec \in Resource, UserWrites(o, rec),
         UserRecord(o, rec), \A p \in Objects : lastInc[p] <= lastInc'[p]
  PROVE  IInv'
<1>0. TypeOK /\ ApiOK
  BY DEF IInv
<1>1. /\ UNCHANGED <<kind, cache, pc, cur, mem, target, harbor, conn, lastUid>>
      /\ memFresh' = (memFresh /\ cur # o) /\ Store(o, rec)
  BY DEF UserWrites, worldVars
<1>2. cr'[o] = rec /\ \A p \in Objects \ {o} : cr'[p] = cr[p]
  BY <1>0, <1>1 DEF Store, TypeOK
<1>3. ApiOK'
  <2>1. KnownCopy(o, cache[o]) /\ cache[o] \in Resource
    BY <1>0 DEF ApiOK, CopiesOK, TypeOK
  <2>2. \A i \in EventsOf(o) : KnownCopy(o, watch[i][2]) /\ watch[i][2] \in Resource
    BY <1>0, EventTypes DEF ApiOK, CopiesOK, EventsOf
  <2>3. Writable(o, rec)
    BY <2>1, <2>2 DEF Writable, UserRecord
  <2> QED BY <1>0, <1>1, <2>3, StoredApi DEF UserRecord
<1>4. pc # "idle" => KnownCopy(cur, mem)'
  <2> SUFFICES ASSUME pc # "idle" PROVE KnownCopy(cur, mem)'
    OBVIOUS
  <2>1. mem \in Resource /\ cur \in Objects /\ KnownCopy(cur, mem)
    BY MemFacts
  <2>2. RecordKept(mem, cr[cur], cr'[cur], lastInc[cur])
    <3>1. CASE cur = o
      BY <1>2, <2>1, <3>1 DEF UserRecord
    <3>2. CASE cur # o
      BY <1>2, <2>1, <3>2 DEF RecordKept
    <3> QED BY <3>1, <3>2
  <2>3. /\ cr[cur] \in Resource /\ cr'[cur] \in Resource
        /\ lastInc[cur] \in Nat /\ lastInc'[cur] \in Nat /\ lastUid \in Nat
        /\ lastInc[cur] <= lastInc'[cur] /\ lastUid <= lastUid
    BY <1>0, <2>1 DEF TypeOK
  <2>4. CopyOK(mem, cr'[cur], lastInc'[cur], lastUid)
    BY <2>1, <2>2, <2>3, CopyKept DEF KnownCopy
  <2> QED BY <1>1, <2>4 DEF KnownCopy
<1>5. FreshOK'
  <2> SUFFICES ASSUME memFresh, cur # o PROVE FreshOK'
    BY <1>1 DEF FreshOK
  <2>1. cur \in Objects /\ FreshOK
    BY FreshFacts DEF IInv, WorkerOK
  <2>2. EventsOf(cur)' = EventsOf(cur) /\ \A i \in EventsOf(cur) : watch'[i] = watch[i]
    <3>1. /\ \A p \in Objects \ {o} : EventsOf(p)' = EventsOf(p)
          /\ \A p \in Objects : \A i \in EventsOf(p) : watch'[i] = watch[i]
      BY <1>0, <1>1, AppendedEvents
    <3> QED BY <1>1, <2>1, <3>1 DEF EventsOf
  <2> QED BY <1>1, <1>2, <2>1, <2>2 DEF FreshOK, Alike
<1>6. MemShownOK'
  <2> SUFFICES ASSUME pc # "idle", mem.inc = cr'[cur].inc PROVE cache[cur].inc = mem.inc
    BY <1>1 DEF MemShownOK
  <2>1. /\ mem.inc # 0 /\ mem.inc \in Nat /\ cur \in Objects /\ MemShownOK
        /\ mem.inc <= lastInc[cur]
    BY MemFacts DEF IInv, WorkerOK, KnownCopy, CopyOK
  <2>2. cr'[cur].inc = cr[cur].inc
    <3>1. lastInc[cur] \in Nat
      BY <1>0, <2>1 DEF TypeOK
    <3>2. CASE cur = o
      BY <1>2, <2>1, <3>1, <3>2 DEF UserRecord
    <3>3. CASE cur # o
      BY <1>2, <2>1, <3>3
    <3> QED BY <3>2, <3>3
  <2> QED BY <2>1, <2>2 DEF MemShownOK
<1>7. WritersOK'
  <2> SUFFICES ASSUME NEW i \in Instances, NEW p \in Objects, NEW n \in Nat,
                      harbor[i].writer = <<p, n>>, n # 0
               PROVE  n <= lastInc'[p] /\ (n = cr'[p].inc => cache[p].inc = n)
    BY <1>1 DEF WritersOK
  <2>1. n <= lastInc[p] /\ (n = cr[p].inc => cache[p].inc = n)
    BY DEF IInv, WritersOK
  <2>2. lastInc[p] \in Nat /\ lastInc'[p] \in Nat /\ lastInc[p] <= lastInc'[p]
    BY <1>0 DEF TypeOK
  <2>3. n = cr'[p].inc => n = cr[p].inc
    BY <1>2, <2>1, <2>2 DEF UserRecord
  <2> QED BY <2>1, <2>2, <2>3
<1>8. TargetOK' /\ ConnOK' /\ PositionOK(pc, mem)' /\ (pc' = "idle" => ~memFresh')
  BY <1>1 DEF IInv, WorkerOK, TargetOK, ConnOK, PositionOK
<1> QED BY <1>1, <1>3, <1>4, <1>5, <1>6, <1>7, <1>8 DEF IInv, WorkerOK

LEMMA UserCreateInv == ASSUME IInv, NEW o \in Objects, UserCreate(o) PROVE IInv'
<1>0. TypeOK /\ TypeOK'
  BY UserCreateTypes DEF IInv
<1>1. PICK d \in Payloads : UserWrites(o, NewResource(o, d))
  BY DEF UserCreate, NewResource
<1>2. /\ NewResource(o, d) \in Resource
      /\ NewResource(o, d).inc = lastInc[o] + 1 /\ NewResource(o, d).bound = 0
      /\ ~NewResource(o, d).fin /\ ~NewResource(o, d).deleting
  BY <1>0, PayloadTypes, NewResourceType
<1>3. /\ cr[o].inc = 0 /\ lastInc[o] \in Nat /\ lastUid \in Nat
      /\ lastInc' = [lastInc EXCEPT ![o] = lastInc[o] + 1]
  BY <1>0 DEF UserCreate, Exists, TypeOK
<1>4. lastInc'[o] = lastInc[o] + 1 /\ \A p \in Objects : lastInc[p] <= lastInc'[p]
  BY <1>0, <1>3 DEF TypeOK
<1>5. UserRecord(o, NewResource(o, d))
  BY <1>2, <1>3, <1>4 DEF UserRecord, RecordKept
<1> QED BY <1>0, <1>1, <1>2, <1>4, <1>5, UserWritesInv

LEMMA OwnRecord ==
  ASSUME IInv, NEW o \in Objects, cr[o].inc # 0
  PROVE  /\ cr[o] \in Resource /\ cr[o].inc <= lastInc[o] /\ cr[o].bound <= lastUid
         /\ cr[o].deleting => cr[o].fin
BY DEF IInv, TypeOK, ApiOK, CopiesOK, KnownCopy, CopyOK

LEMMA UserEditInv == ASSUME IInv, NEW o \in Objects, UserEdit(o) PROVE IInv'
<1>0. TypeOK /\ TypeOK'
  BY UserEditTypes DEF IInv
<1>1. PICK d \in Payloads : UserWrites(o, [cr[o] EXCEPT !.gen = @ + 1, !.data = d])
  BY DEF UserEdit
<1> DEFINE rec == [cr[o] EXCEPT !.gen = @ + 1, !.data = d]
<1>2. cr[o] \in Resource /\ cr[o].inc # 0 /\ UNCHANGED lastInc
  BY <1>0 DEF UserEdit, Exists, TypeOK
<1>3. rec \in Resource
  BY <1>2, PayloadTypes, EditedType
<1>4. /\ rec.inc = cr[o].inc /\ rec.createdAt = cr[o].createdAt
      /\ rec.fin = cr[o].fin /\ rec.deleting = cr[o].deleting /\ rec.bound = cr[o].bound
  BY <1>2 DEF Resource
<1> HIDE DEF rec
<1>5. UserRecord(o, rec)
  BY <1>2, <1>4, OwnRecord DEF UserRecord, RecordKept
<1>6. \A p \in Objects : lastInc[p] <= lastInc'[p]
  BY <1>0, <1>2 DEF TypeOK
<1>7. UserWrites(o, rec)
  BY <1>1 DEF rec
<1> QED BY <1>0, <1>3, <1>5, <1>6, <1>7, UserWritesInv

LEMMA UserDeleteInv == ASSUME IInv, NEW o \in Objects, UserDelete(o) PROVE IInv'
<1>0. TypeOK /\ TypeOK'
  BY UserDeleteTypes DEF IInv
<1>1. UserWrites(o, Deleted(cr[o])) /\ Deleted(cr[o]) \in Resource
  BY <1>0, DeletedType DEF UserDelete, Deleted, TypeOK
<1>2. /\ cr[o] \in Resource /\ cr[o].inc # 0 /\ UNCHANGED lastInc
      /\ cr[o].inc <= lastInc[o] /\ cr[o].bound <= lastUid
  BY <1>0, OwnRecord DEF UserDelete, Exists
<1>3. UserRecord(o, Deleted(cr[o]))
  <2>1. CASE cr[o].fin
    <3>1. /\ Deleted(cr[o]).inc = cr[o].inc /\ Deleted(cr[o]).createdAt = cr[o].createdAt
          /\ Deleted(cr[o]).fin /\ Deleted(cr[o]).deleting
          /\ Deleted(cr[o]).bound = cr[o].bound
      BY <1>2, <2>1 DEF Deleted, Resource
    <3> QED BY <1>2, <3>1 DEF UserRecord, RecordKept
  <2>2. CASE ~cr[o].fin
    <3>1. Deleted(cr[o]) = NoResource
      BY <2>2 DEF Deleted
    <3>2. \A c \in Resource : KnownCopy(o, c) => (c.inc = cr[o].inc /\ c.fin => c.deleting)
      BY <1>2, <2>2 DEF KnownCopy, CopyOK
    <3> QED BY <3>1, <3>2, NoResourceType DEF UserRecord, RecordKept
  <2> QED BY <2>1, <2>2
<1>4. \A p \in Objects : lastInc[p] <= lastInc'[p]
  BY <1>0, <1>2 DEF TypeOK
<1> QED BY <1>0, <1>1, <1>3, <1>4, UserWritesInv

-----------------------------------------------------------------------------
(* The invariant *)

LEMMA InitInv == Init => IInv
<1> SUFFICES ASSUME Init PROVE IInv
  OBVIOUS
<1>1. TypeOK
  BY InitTypes
<1>2. \A o \in Objects : cr[o] = NoResource /\ cache[o] = NoResource /\ EventsOf(o) = {}
  <2>1. watch = <<>>
    BY DEF Init
  <2>2. \A o \in Objects : EventsOf(o) = {}
    BY <2>1 DEF EventsOf
  <2>3. \A o \in Objects : cr[o] = NoResource /\ cache[o] = NoResource
    BY DEF Init
  <2> QED BY <2>2, <2>3
<1>3. ApiOK
  BY <1>2, NoResourceType DEF ApiOK, CopiesOK, KnownCopy, CopyOK, LatestOK, ShownOK
<1>4. WorkerOK
  BY DEF Init, WorkerOK, FreshOK, PositionOK, TargetOK, MemShownOK, HoldingPCs,
         QuotaPCs, ElectedPCs
<1>5. ConnOK
  <2>1. lastUid = 0 /\ \A c \in Conns : conn[c] = NoConnection
    BY DEF Init
  <2>2. NoConnection.uid = 0
    BY DEF NoConnection
  <2> QED BY <2>1, <2>2 DEF ConnOK
<1>6. WritersOK
  BY DEF Init, WritersOK
<1> QED BY <1>1, <1>3, <1>4, <1>5, <1>6 DEF IInv

LEMMA NextInv == ASSUME IInv, [Next]_vars PROVE IInv'
<1>1. CASE UNCHANGED vars
  <2>1. /\ UNCHANGED <<kind, cr, lastInc, watch, cache, localVars, harbor, conn, lastUid>>
    BY <1>1 DEF vars, apiVars, workerVars, worldVars
  <2>2. TypeOK'
    BY <1>1, HoldingFacts, NextTypes DEF IInv
  <2> QED BY <2>1, <2>2, QuietInv
<1>2. CASE Next
  BY <1>2, LoadResourceInv, ReconcileInv, DeliverInv, QuietActionsInv, UserCreateInv,
     UserEditInv, UserDeleteInv, ConnectionInv, CrashInv, ForeignInv DEF Next
<1> QED BY <1>1, <1>2

LEMMA Invariance == Spec => []IInv
BY InitInv, NextInv, PTL DEF Spec

\* Every variable keeps its type, whatever users, connections, crashes and other
\* clients of Harbor do.
THEOREM TypeCorrect == Spec => []TypeOK
<1>1. IInv => TypeOK
  BY DEF IInv
<1> QED BY <1>1, Invariance, PTL

\* A resource writes to Harbor only while it is at the API server in the same
\* incarnation with its finalizer and the connection it recorded, and only to
\* the instance of that connection (the guards of ensureFinalizer and of the
\* binding survive every interleaving).
THEOREM WritesAreGuarded == Spec => GuardedWrite
<1>1. ASSUME IInv, CreateRemote \/ UpdateRemote, NEW i \in Instances,
             harbor'[i] # harbor[i]
      PROVE  /\ cr[cur].inc = mem.inc /\ cr[cur].fin
             /\ cr[cur].bound = mem.bound
             /\ conn[ConnOf[cur]].uid = mem.bound => conn[ConnOf[cur]].url = i
  <2>1. pc \in HoldingPCs /\ pc \notin Loading /\ pc # "idle"
    BY <1>1, HoldingFacts DEF CreateRemote, UpdateRemote, HoldingPCs, ElectedPCs
  <2>2. i = target
    BY <1>1, StepHarbor DEF Reconcile, Overwrite, IInv, TypeOK
  <2>3. /\ mem.inc # 0 /\ mem.bound # 0 /\ mem.fin /\ ~mem.deleting
        /\ KnownCopy(cur, mem)
    BY <1>1, <2>1, MemFacts DEF PositionOK
  <2>4. conn[ConnOf[cur]].uid = mem.bound => conn[ConnOf[cur]].url = target
    BY <1>1, <2>1 DEF IInv, WorkerOK, TargetOK, Loading
  <2> QED BY <2>2, <2>3, <2>4 DEF KnownCopy, CopyOK
<1>2. IInv /\ [Next]_vars =>
        [(CreateRemote \/ UpdateRemote) =>
           \A i \in Instances :
             harbor'[i] # harbor[i] =>
               /\ cr[cur].inc = mem.inc /\ cr[cur].fin
               /\ cr[cur].bound = mem.bound
               /\ conn[ConnOf[cur]].uid = mem.bound => conn[ConnOf[cur]].url = i]_vars
  BY <1>1
<1> QED BY <1>2, Invariance, PTL DEF Spec, GuardedWrite

=============================================================================
