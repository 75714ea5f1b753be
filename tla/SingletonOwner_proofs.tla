----------------------- MODULE SingletonOwner_proofs -----------------------
(***************************************************************************)
(* Proofs, for every value of the constants, of two facts about who has    *)
(* written a setting, and what.                                            *)
(*                                                                         *)
(* NoTakeover: as long as each connection is for one Harbor however often  *)
(* it is created, no resource overwrites what an older one wrote.  The     *)
(* election reads the informer's cache, at any distance behind the API     *)
(* server.  What makes it safe is in the invariant of Singleton_proofs:    *)
(* who has written to Harbor was shown to the informer before (WritersOK), *)
(* and a copy of the current incarnation has its creation second (CopyOK). *)
(* Between the election and the write, nobody comes to hold a setting:     *)
(* a connection's UID is new (ConnOK), and a new resource has none.        *)
(*                                                                         *)
(* ReadyMeansApplied, of the kinds that read Harbor before they decide:    *)
(* AppliedInv says of every copy which generation it has, that the         *)
(* informer was shown a generation before its status was written, and of   *)
(* the worker what it has found or written before it reports Ready.        *)
(***************************************************************************)
EXTENDS Singleton_proofs

\* Each connection is for one Harbor, however often it is created.
ConnectionsStay == \A c \in Conns : \A i, j \in Urls[c] : i = j

\* A resource that was found to be the owner is older than who holds the setting.
ElectionOK ==
  kind # "Quota" /\ pc \in ElectedPCs \cup {"update"} =>
    \A p \in Objects \ {cur} :
      /\ harbor[target].writer = <<p, cr[p].inc>>
      /\ Holds(p) /\ conn[ConnOf[p]].url = target
      => Older(cur, mem, p, cr[p])

Electing == ElectedPCs \cup {"update"}

\* Who, to the worker's disadvantage, holds the setting it is about to write.
Holder(p) ==
  /\ harbor[target].writer = <<p, cr[p].inc>>
  /\ Holds(p) /\ conn[ConnOf[p]].url = target

LEMMA ElectionMeans ==
  ElectionOK <=> (kind # "Quota" /\ pc \in Electing =>
                    \A p \in Objects \ {cur} : Holder(p) => Older(cur, mem, p, cr[p]))
BY DEF ElectionOK, Electing, Holder

-----------------------------------------------------------------------------
(* The election *)

LEMMA Elected ==
  ASSUME IInv, ConnectionsStay, pc = "owner", conn[ConnOf[cur]].uid # 0,
         ~SingletonOwnerConflict(cur), NEW p \in Objects \ {cur}, Holder(p)
  PROVE  Older(cur, mem, p, cr[p])
<1>1. /\ p \in Objects /\ p # cur /\ cur \in Objects /\ mem \in Resource
      /\ cr[p] \in Resource /\ cache[p] \in Resource /\ ConnOf[cur] \in Conns
  BY FunctionsAssumption DEF IInv, TypeOK
<1>2. /\ cr[p].inc # 0 /\ ~cr[p].deleting
      /\ conn[ConnOf[p]].uid # 0 /\ conn[ConnOf[p]].url = target
  BY DEF Holder, Holds, Exists
<1>3. target \in Instances /\ cr[p].inc \in Nat
  BY <1>1 DEF IInv, TypeOK, Resource
<1>4. cache[p].inc = cr[p].inc
  BY <1>1, <1>2, <1>3 DEF Holder, IInv, WritersOK
<1>5. KnownCopy(p, cache[p])
  BY <1>1 DEF IInv, ApiOK, CopiesOK
<1>6. ~cache[p].deleting /\ cr[p].createdAt = cache[p].createdAt
  BY <1>2, <1>4, <1>5 DEF KnownCopy, CopyOK
<1>7. conn[ConnOf[cur]].url = target
  <2>1. conn[ConnOf[cur]].url \in Urls[ConnOf[cur]]
    BY <1>1 DEF IInv, ConnOK
  <2>2. target \in Urls[ConnOf[cur]]
    BY DEF IInv, WorkerOK, TargetOK
  <2> QED BY <1>1, <2>1, <2>2 DEF ConnectionsStay
<1>8. p \in Peers(cur)
  BY <1>1, <1>2, <1>4, <1>6, <1>7 DEF Peers
<1>9. ~Older(p, cache[p], cur, mem)
  BY <1>8 DEF SingletonOwnerConflict
<1>10. /\ cache[p].createdAt \in Nat /\ mem.createdAt \in Nat
       /\ Rank[p] \in Nat /\ Rank[cur] \in Nat /\ Rank[p] # Rank[cur]
  BY <1>1, FunctionsAssumption DEF Resource
<1> QED BY <1>6, <1>9, <1>10 DEF Older

-----------------------------------------------------------------------------
(* How a reconcile comes to where it has been elected *)

LEMMA ElectingNames ==
  \A p \in {"idle", "error", "bind", "client", "finalize", "finalizer", "owner",
            "project", "findQuota", "recordQuota", "getQuota", "ready", "created",
            "noop"} : p \notin Electing
BY DEF Electing, ElectedPCs

LEMMA EndedIsIdle ==
  /\ \A r, d \in BOOLEAN : Return(r, d) => pc' = "idle"
  /\ \A reason \in Reasons : Fail(reason) => pc' = "idle"
  /\ \A reason \in Reasons, nf \in BOOLEAN : WithoutConnection(reason, nf) => pc' = "idle"
  /\ Refused => pc' = "idle"
  /\ RemoveFinalizer => pc' = "idle"
<1>1. \A r, d : Return(r, d) => pc' = "idle"
  BY DEF Return, ForgetLocals
<1>2. \A rec, r, d : PersistAndReturn(rec, r, d) => pc' = "idle"
  BY <1>1 DEF PersistAndReturn, Refused
<1>3. \A reason : Fail(reason) => pc' = "idle"
  BY <1>1, <1>2 DEF Fail, SetStatusAndReturn
<1>4. RemoveFinalizer => pc' = "idle"
  BY <1>1, <1>2 DEF RemoveFinalizer
<1> QED BY <1>1, <1>3, <1>4 DEF WithoutConnection, Refused

LEMMA SetStatusIsIdle ==
  \A w, reason, r, d : SetStatusAndReturn(w, reason, r, d) => pc' = "idle"
BY DEF SetStatusAndReturn, PersistAndReturn, Refused, Return, ForgetLocals

\* The calls that come before the election, and those that are not elected for.
LEMMA NotElecting ==
  ASSUME IInv, kind # "Quota",
         \/ MarkReconcilingIfNeeded \/ GetHarborClientForObject \/ BuildHarborClient
         \/ FinalizeIfDeleting \/ EnsureFinalizer \/ ResolveProject \/ FindQuotaID
         \/ RecordQuotaID \/ GetQuota
  PROVE  pc' \notin Electing
<1>1. pc \notin QuotaPCs
  BY HoldingFacts
<1>2. ~ResolveProject /\ ~FindQuotaID /\ ~RecordQuotaID /\ ~GetQuota
  BY <1>1 DEF ResolveProject, FindQuotaID, RecordQuotaID, GetQuota, QuotaPCs
<1>3. CASE MarkReconcilingIfNeeded
  BY <1>3, ElectingNames, EndedIsIdle DEF MarkReconcilingIfNeeded, Persist, Goto
<1>4. CASE GetHarborClientForObject
  BY <1>4, ElectingNames, EndedIsIdle, ReasonTypes DEF GetHarborClientForObject
<1>5. CASE BuildHarborClient
  BY <1>5, ElectingNames, EndedIsIdle, ReasonTypes
     DEF BuildHarborClient, Goto, HeldPC, CheckedPC
<1>6. CASE FinalizeIfDeleting
  BY <1>6, ElectingNames, EndedIsIdle DEF FinalizeIfDeleting
<1>7. CASE EnsureFinalizer
  BY <1>7, ElectingNames, EndedIsIdle DEF EnsureFinalizer, Persist, Goto, CheckedPC
<1> QED BY <1>2, <1>3, <1>4, <1>5, <1>6, <1>7

\* The calls that come after the writes, and the writes themselves.
LEMMA NoLongerElecting ==
  ASSUME \/ CreateRemote \/ UpdateRemote \/ UpdateVanishedQuota
         \/ SetCreatedStatus \/ SetReadyStatus \/ SetNoopStatus \/ SetErrorStatus
  PROVE  pc' \notin Electing
<1>1. CASE CreateRemote \/ UpdateRemote
  BY <1>1, WritesAreWritten, ElectingNames DEF Written, Goto, GotoDirty, CallFailed
<1>2. CASE UpdateVanishedQuota
  BY <1>2, ElectingNames DEF UpdateVanishedQuota, CallFailed
<1>3. CASE SetCreatedStatus \/ SetReadyStatus \/ SetNoopStatus \/ SetErrorStatus
  BY <1>3, ElectingNames, SetStatusIsIdle
     DEF SetCreatedStatus, SetReadyStatus, SetNoopStatus, SetErrorStatus, Fail
<1> QED BY <1>1, <1>2, <1>3

\* The reads of Harbor and of settings on the way from the election to the write.
LEMMA StillElecting ==
  ASSUME IInv, BuildDesiredSettings \/ GetScanAllSchedule \/ GetConfigurations,
         pc' \in Electing
  PROVE  /\ UNCHANGED <<harbor, cr, conn, cur, target>> /\ mem'.createdAt = mem.createdAt
         /\ pc \in Electing
<1>1. pc \in Electing
  BY DEF BuildDesiredSettings, GetScanAllSchedule, GetConfigurations, Electing, ElectedPCs
<1>2. UNCHANGED <<harbor, conn>>
  BY DEF BuildDesiredSettings, GetScanAllSchedule, GetConfigurations, worldVars
<1>3. CASE BuildDesiredSettings
  BY <1>1, <1>2, <1>3, ElectingNames, EndedIsIdle, ReasonTypes
     DEF BuildDesiredSettings, Goto
<1>4. CASE GetScanAllSchedule
  <2>1. /\ UNCHANGED <<cr, cur, target>> /\ mem' = mem
    BY <1>4, ElectingNames DEF GetScanAllSchedule, Goto, GotoDirty, CallFailed, apiVars
  <2> QED BY <1>1, <1>2, <2>1
<1>5. CASE GetConfigurations
  BY <1>1, <1>2, <1>5, ElectingNames DEF GetConfigurations, Goto, CallFailed, apiVars
<1> QED BY <1>3, <1>4, <1>5

LEMMA ElectionStep ==
  ASSUME IInv, EnsureSingletonOwner, pc' \in Electing
  PROVE  /\ UNCHANGED <<harbor, cr, conn, cur, target>> /\ mem'.createdAt = mem.createdAt
         /\ pc = "owner" /\ conn[ConnOf[cur]].uid # 0 /\ ~SingletonOwnerConflict(cur)
BY ElectingNames, EndedIsIdle, ReasonTypes DEF EnsureSingletonOwner, Goto, worldVars

LEMMA ReconcileElection ==
  ASSUME IInv, ConnectionsStay, ElectionOK, Reconcile PROVE ElectionOK'
<1> SUFFICES ASSUME kind' # "Quota", pc' \in Electing,
                    NEW p \in Objects \ {cur'}, Holder(p)'
             PROVE  Older(cur, mem, p, cr[p])'
  BY DEF ElectionOK, Electing, Holder
<1>1. kind' = kind
  BY ReconcileStep DEF WorkerStep, Framed
<1>2. ~MarkReconcilingIfNeeded /\ ~GetHarborClientForObject /\ ~BuildHarborClient
      /\ ~FinalizeIfDeleting /\ ~EnsureFinalizer /\ ~ResolveProject /\ ~FindQuotaID
      /\ ~RecordQuotaID /\ ~GetQuota
  BY <1>1, NotElecting
<1>3. /\ UNCHANGED <<harbor, cr, conn, cur, target>> /\ mem'.createdAt = mem.createdAt
      /\ \/ pc \in Electing
         \/ pc = "owner" /\ conn[ConnOf[cur]].uid # 0 /\ ~SingletonOwnerConflict(cur)
  BY <1>2, NoLongerElecting, StillElecting, ElectionStep DEF Reconcile
<1>4. Holder(p) /\ p \in Objects \ {cur}
  BY <1>3 DEF Holder, Holds, Exists
<1>5. Older(cur, mem, p, cr[p])
  BY <1>1, <1>3, <1>4, ElectionMeans, Elected
<1> QED BY <1>3, <1>5 DEF Older

-----------------------------------------------------------------------------
(* Between the election and the write *)

\* Nobody comes to hold the setting that the worker is about to write.
LEMMA NoNewHolder ==
  ASSUME ElectionOK, UNCHANGED <<kind, pc, cur, target, mem>>,
         \A p \in Objects : Holder(p)' => /\ Holder(p)
                                          /\ cr'[p].createdAt = cr[p].createdAt
  PROVE  ElectionOK'
<1> SUFFICES ASSUME kind' # "Quota", pc' \in Electing,
                    NEW p \in Objects \ {cur'}, Holder(p)'
             PROVE  Older(cur, mem, p, cr[p])'
  BY DEF ElectionOK, Electing, Holder
<1>1. Holder(p) /\ cr'[p].createdAt = cr[p].createdAt
  OBVIOUS
<1>2. Older(cur, mem, p, cr[p])
  BY <1>1, ElectionMeans
<1> QED BY <1>1, <1>2 DEF Older

LEMMA UserElection ==
  ASSUME IInv, ElectionOK, NEW o \in Objects,
         UserCreate(o) \/ UserEdit(o) \/ UserDelete(o)
  PROVE  ElectionOK'
<1>1. UNCHANGED <<kind, pc, cur, target, mem, harbor, conn>>
  BY DEF UserCreate, UserEdit, UserDelete, UserWrites, worldVars
<1>2. PICK rec : Store(o, rec) /\ \/ rec.bound = 0 \/ rec.deleting \/ rec.inc = 0
                                  \/ /\ rec.inc = cr[o].inc /\ rec.deleting = cr[o].deleting
                                     /\ rec.bound = cr[o].bound
                                     /\ rec.createdAt = cr[o].createdAt
  <2>0. TypeOK /\ cr[o] \in Resource
    BY DEF IInv, TypeOK
  <2>1. CASE UserCreate(o)
    <3>1. PICK d \in Payloads : UserWrites(o, NewResource(o, d))
      BY <2>1 DEF UserCreate, NewResource
    <3> QED BY <2>0, <3>1, PayloadTypes, NewResourceType DEF UserWrites
  <2>2. CASE UserEdit(o)
    <3>1. PICK d \in Payloads : UserWrites(o, [cr[o] EXCEPT !.gen = @ + 1, !.data = d])
      BY <2>2 DEF UserEdit
    <3> DEFINE rec == [cr[o] EXCEPT !.gen = @ + 1, !.data = d]
    <3>2. /\ rec.inc = cr[o].inc /\ rec.deleting = cr[o].deleting
          /\ rec.bound = cr[o].bound /\ rec.createdAt = cr[o].createdAt
      BY <2>0 DEF Resource
    <3>3. Store(o, rec)
      BY <3>1 DEF UserWrites
    <3> HIDE DEF rec
    <3> QED BY <3>2, <3>3
  <2>3. CASE UserDelete(o)
    <3>1. Store(o, Deleted(cr[o]))
      BY <2>3 DEF UserDelete, UserWrites, Deleted
    <3>2. Deleted(cr[o]).deleting \/ Deleted(cr[o]).inc = 0
      BY <2>0, NoResourceType DEF Deleted, Resource
    <3> QED BY <3>1, <3>2
  <2> QED BY <2>1, <2>2, <2>3
<1>3. cr'[o] = rec /\ \A p \in Objects \ {o} : cr'[p] = cr[p]
  BY <1>2 DEF Store, IInv, TypeOK
<1>4. ASSUME NEW p \in Objects, Holder(p)'
      PROVE  Holder(p) /\ cr'[p].createdAt = cr[p].createdAt
  BY <1>1, <1>2, <1>3, <1>4 DEF Holder, Holds, Exists
<1> QED BY <1>1, <1>4, NoNewHolder

LEMMA ConnectionElection ==
  ASSUME IInv, ElectionOK, NEW c \in Conns, DeleteConnection(c) \/ CreateConnection(c)
  PROVE  ElectionOK'
<1>0. TypeOK
  BY DEF IInv
<1>1. UNCHANGED <<kind, pc, cur, target, mem, harbor, cr>>
  BY DEF DeleteConnection, CreateConnection, localVars, apiVars
<1>2. /\ \A b \in Conns : b # c => conn'[b] = conn[b]
      /\ conn'[c].uid \in {0, lastUid + 1} /\ lastUid \in Nat
  BY <1>0 DEF DeleteConnection, CreateConnection, TypeOK, NoConnection
<1>3. ASSUME NEW p \in Objects, Holder(p)'
      PROVE  Holder(p) /\ cr'[p].createdAt = cr[p].createdAt
  <2>1. /\ harbor[target].writer = <<p, cr[p].inc>> /\ cr[p].inc # 0 /\ ~cr[p].deleting
        /\ cr[p].bound # 0 /\ conn'[ConnOf[p]].uid = cr[p].bound
        /\ conn'[ConnOf[p]].url = target
    BY <1>1, <1>3 DEF Holder, Holds, Exists
  <2>2. cr[p].bound <= lastUid /\ cr[p].bound \in Nat /\ ConnOf[p] \in Conns
    BY <1>0, <2>1, OwnRecord, FunctionsAssumption DEF Resource
  <2>3. ConnOf[p] # c
    BY <1>2, <2>1, <2>2
  <2> QED BY <1>1, <1>2, <2>1, <2>2, <2>3 DEF Holder, Holds, Exists
<1> QED BY <1>1, <1>3, NoNewHolder

LEMMA ForeignElection ==
  ASSUME IInv, ElectionOK, ForeignWrite \/ RecreateProject PROVE ElectionOK'
<1>0. TypeOK /\ target \in Instances
  BY DEF IInv, TypeOK
<1>1. UNCHANGED <<kind, pc, cur, target, mem, cr, conn>>
  BY DEF ForeignWrite, RecreateProject, workerVars, localVars, apiVars
<1>2. harbor'[target].writer \in {harbor[target].writer, <<Env, 0>>}
  <2>1. CASE ForeignWrite
    <3>1. PICK j \in Instances, d \in Payloads :
            harbor' = [harbor EXCEPT ![j] =
                         [harbor[j] EXCEPT !.data = d, !.writer = <<Env, 0>>]]
      BY <2>1, <1>0 DEF ForeignWrite, TypeOK
    <3>2. [harbor[j] EXCEPT !.data = d, !.writer = <<Env, 0>>].writer = <<Env, 0>>
      BY <1>0 DEF TypeOK, Setting
    <3> QED BY <1>0, <3>1, <3>2 DEF TypeOK
  <2>2. CASE RecreateProject
    <3>1. PICK j \in Instances :
            harbor' = [harbor EXCEPT ![j] = [data |-> None, writer |-> <<Env, 0>>,
                                             id |-> harbor[j].id + 1]]
      BY <2>2 DEF RecreateProject
    <3> QED BY <1>0, <3>1 DEF TypeOK
  <2> QED BY <2>1, <2>2
<1>3. ASSUME NEW p \in Objects, Holder(p)'
      PROVE  Holder(p) /\ cr'[p].createdAt = cr[p].createdAt
  <2>1. harbor'[target].writer = <<p, cr[p].inc>>
    BY <1>1, <1>3 DEF Holder
  <2>2. harbor'[target].writer # <<Env, 0>>
    BY <2>1, ConstantsAssumption
  <2> QED BY <1>1, <1>2, <1>3, <2>1, <2>2 DEF Holder, Holds, Exists
<1> QED BY <1>1, <1>3, NoNewHolder

\* What is not in ElectionOK changes.
LEMMA QuietElection ==
  ASSUME ElectionOK, UNCHANGED <<kind, pc, cur, target, mem, cr, conn, harbor>>
  PROVE  ElectionOK'
BY DEF ElectionOK, Holds, Exists, Older

LEMMA OtherElection ==
  ASSUME IInv, ElectionOK,
         \/ \E o \in Objects : LoadResource(o) \/ DriftTimer(o)
         \/ Deliver \/ Tick \/ Crash \/ LoseSecret \/ RestoreSecret
         \/ BreakSettings \/ RepairSettings
  PROVE  ElectionOK'
<1>1. CASE \/ \E o \in Objects : DriftTimer(o)
           \/ Deliver \/ Tick \/ LoseSecret \/ RestoreSecret
           \/ BreakSettings \/ RepairSettings
  <2>1. UNCHANGED <<kind, pc, cur, target, mem, cr, conn, harbor>>
    BY <1>1 DEF DriftTimer, Deliver, Tick, LoseSecret, RestoreSecret, BreakSettings,
                RepairSettings, apiVars, workerVars, localVars, worldVars
  <2> QED BY <2>1, QuietElection
<1>2. CASE Crash \/ \E o \in Objects : LoadResource(o)
  <2>1. pc' \in {"idle", "mark", "bind"}
    BY <1>2 DEF Crash, ForgetLocals, LoadResource, LoadedPC, localVars
  <2>2. pc' \notin Electing
    BY <2>1 DEF Electing, ElectedPCs
  <2> QED BY <2>2 DEF ElectionOK, Electing
<1> QED BY <1>1, <1>2

-----------------------------------------------------------------------------
(* No takeover *)

LEMMA ElectionInvariance == ASSUME ConnectionsStay PROVE Spec => [](IInv /\ ElectionOK)
<1>1. Init => IInv /\ ElectionOK
  BY InitInv DEF Init, ElectionOK, ElectedPCs
<1>2. IInv /\ ElectionOK /\ [Next]_vars => (IInv /\ ElectionOK)'
  <2> SUFFICES ASSUME IInv, ElectionOK, [Next]_vars PROVE ElectionOK'
    BY NextInv
  <2>1. CASE UNCHANGED vars
    BY <2>1, QuietElection DEF vars, apiVars, workerVars, localVars, worldVars
  <2>2. CASE Next
    BY <2>2, ReconcileElection, UserElection, ConnectionElection, ForeignElection,
       OtherElection DEF Next
  <2> QED BY <2>1, <2>2
<1> QED BY <1>1, <1>2, PTL DEF Spec

\* The election of the oldest resource holds from the list of peers to the write:
\* no younger resource overwrites what the oldest wrote, however far the cache is
\* behind and whoever creates, edits or deletes resources and connections in
\* between, if each connection is for one Harbor (ensureSingletonOwner).
THEOREM OldestKeepsItsSetting == ASSUME ConnectionsStay PROVE Spec => NoTakeover
<1>1. ASSUME IInv, ElectionOK, CreateRemote \/ UpdateRemote, kind # "Quota",
             NEW i \in Instances, NEW p \in Objects \ {cur}, harbor'[i] # harbor[i],
             harbor[i].writer = <<p, cr[p].inc>>,
             Holds(p), conn[ConnOf[p]].url = i
      PROVE  Older(cur, mem, p, cr[p])
  <2>1. i = target
    BY <1>1, StepHarbor DEF Reconcile, Overwrite, IInv, TypeOK
  <2>2. pc \in Electing
    BY <1>1 DEF CreateRemote, UpdateRemote, Electing, ElectedPCs
  <2> QED BY <1>1, <2>1, <2>2, ElectionMeans DEF Holder
<1>2. IInv /\ ElectionOK /\ [Next]_vars =>
        [(CreateRemote \/ UpdateRemote) /\ kind # "Quota" =>
           \A i \in Instances, p \in Objects \ {cur} :
             /\ harbor'[i] # harbor[i]
             /\ harbor[i].writer = <<p, cr[p].inc>>
             /\ Holds(p) /\ conn[ConnOf[p]].url = i
             => Older(cur, mem, p, cr[p])]_vars
  BY <1>1
<1> QED BY <1>2, ElectionInvariance, PTL DEF Spec, NoTakeover

-----------------------------------------------------------------------------
(* What Ready says of Harbor: the invariant *)

\* What a copy c says of the generation of the record rec that the API server has,
\* and of the generation that its status is about.
SeenOK(c, rec) ==
  /\ c.inc # 0 /\ c.inc = rec.inc =>
       c.gen <= rec.gen /\ (c.gen = rec.gen => c.data = rec.data)
  /\ rec.obsGen # 0 => c.inc = rec.inc /\ rec.obsGen <= c.gen

\* A generation was shown to the informer before the status was about it, and
\* only a resource that is bound to a connection becomes Ready.
RecordOK(o) ==
  /\ cr[o].obsGen <= cr[o].gen
  /\ cr[o].reason \in ReadyReasons => cr[o].bound # 0
  /\ SeenOK(cache[o], cr[o]) /\ \A i \in EventsOf(o) : SeenOK(watch[i][2], cr[o])

MemSeenOK == pc # "idle" => SeenOK(mem, cr[cur])

\* The worker whose write would be accepted has the current generation and
\* conditions, and nothing of another generation is on its way.
FreshSameOK ==
  memFresh =>
    /\ cr[cur].gen = mem.gen /\ cr[cur].data = mem.data
    /\ cr[cur].obsGen = mem.obsGen /\ cr[cur].reason = mem.reason
    /\ cache[cur].gen = mem.gen
    /\ \A i \in EventsOf(cur) : watch[i][2].gen = mem.gen

\* What a worker about to report Ready has found, or written, or need not write.
HeldOK ==
  ~ByHash /\ pc \in {"ready", "created"} /\ mem.data # Empty
  /\ harbor[target].writer = Me => harbor[target].data = mem.data

NoopOK == pc = "noop" => mem.data = Empty

AppliedInv ==
  /\ \A o \in Objects : RecordOK(o)
  /\ MemSeenOK /\ FreshSameOK /\ HeldOK /\ NoopOK
  /\ err \notin ReadyReasons
  /\ ReadyMeansApplied

-----------------------------------------------------------------------------
(* What Ready says of Harbor: the shapes of a worker's step *)

SameSpec(c, d) == d.inc = c.inc /\ d.gen = c.gen /\ d.data = c.data

\* The copy d is c but for the finalizer, the binding, the hash and the quota's id.
Keeps(c, d) ==
  /\ SameSpec(c, d) /\ d.obsGen = c.obsGen /\ d.reason = c.reason
  /\ c.bound # 0 => d.bound = c.bound

Finishing == pc \in {"ready", "created", "noop"}

\* The copy d is c with the conditions of its generation.
Marks(c, d) ==
  /\ SameSpec(c, d) /\ d.obsGen = c.gen /\ d.bound = c.bound
  /\ d.reason \in ReadyReasons => Finishing

SpecMoved ==
  pc # "idle" /\ pc' # "idle" /\ Keeps(mem, mem') /\ UNCHANGED <<cr, watch, cur, memFresh>>

SpecWrote ==
  \E rec \in Resource :
    /\ memFresh /\ (Keeps(mem, rec) \/ Marks(mem, rec)) /\ Store(cur, rec)
    /\ \/ ForgetLocals
       \/ pc' # "idle" /\ mem' = rec /\ UNCHANGED <<cur, memFresh>>

SpecRemoved == memFresh /\ Store(cur, NoResource) /\ ForgetLocals

SpecShape == StepEnded \/ SpecMoved \/ SpecWrote \/ SpecRemoved

SpecStep ==
  /\ Framed /\ pc # "idle" /\ SpecShape
  /\ HeldOK' /\ NoopOK' /\ err' \notin ReadyReasons

LEMMA NoReady ==
  /\ "" \notin ReadyReasons /\ "Reconciling" \notin ReadyReasons
  /\ "ConnectionNotFound" \notin ReadyReasons /\ "SecretNotFound" \notin ReadyReasons
  /\ "ConnectionChanged" \notin ReadyReasons /\ "Conflict" \notin ReadyReasons
  /\ "SettingsError" \notin ReadyReasons /\ "NotFound" \notin ReadyReasons
  /\ "HarborError" \notin ReadyReasons
BY DEF ReadyReasons

LEMMA ForgottenEnd ==
  ASSUME ForgetLocals PROVE HeldOK' /\ NoopOK' /\ err' \notin ReadyReasons
BY NoReady DEF ForgetLocals, HeldOK, NoopOK

LEMMA ReturnSpec ==
  ASSUME Framed, pc # "idle", NEW r, NEW d, Return(r, d), UNCHANGED <<cr, watch>>
  PROVE  SpecStep
BY ForgottenEnd DEF SpecStep, SpecShape, StepEnded, Return

LEMMA PersistAndReturnSpec ==
  ASSUME Framed, pc # "idle", NEW rec \in Resource, Keeps(mem, rec) \/ Marks(mem, rec),
         NEW r, NEW d, PersistAndReturn(rec, r, d)
  PROVE  SpecStep
<1>1. CASE Refused
  BY <1>1, ReturnSpec DEF Refused
<1>2. CASE memFresh /\ Store(cur, rec) /\ Return(r, d)
  BY <1>2, ForgottenEnd DEF SpecStep, SpecShape, SpecWrote, Return
<1> QED BY <1>1, <1>2 DEF PersistAndReturn, Refused

LEMMA RemoveSpec ==
  ASSUME Framed, pc # "idle", RemoveFinalizer
  PROVE  SpecStep
<1>1. CASE Refused \/ (Return(FALSE, FALSE) /\ UNCHANGED <<cr, watch>>)
  BY <1>1, ReturnSpec DEF Refused
<1>2. CASE memFresh /\ Store(cur, NoResource) /\ Return(FALSE, FALSE)
  BY <1>2, ForgottenEnd DEF SpecStep, SpecShape, SpecRemoved, Return
<1> QED BY <1>1, <1>2 DEF RemoveFinalizer, PersistAndReturn, Refused

\* A reconcile goes on; before it is about to finish there is nothing to show.
LEMMA GotoSpec ==
  ASSUME AppliedInv, Framed, pc # "idle", NEW p, p # "idle",
         NEW rec, Keeps(mem, rec), Goto(p, rec) \/ GotoDirty(p, rec),
         UNCHANGED <<cr, watch>>,
         ~ByHash /\ p \in {"ready", "created"} /\ rec.data # Empty
           /\ harbor'[target].writer = Me => harbor'[target].data = rec.data,
         p = "noop" => rec.data = Empty
  PROVE  SpecStep
<1>1. /\ pc' = p /\ mem' = rec /\ UNCHANGED <<cur, memFresh, target, err, kind>>
  BY DEF Goto, GotoDirty, Framed
<1>2. HeldOK'
  BY <1>1 DEF HeldOK, ByHash, Me, Keeps, SameSpec
<1>3. NoopOK' /\ err' \notin ReadyReasons
  BY <1>1 DEF NoopOK, AppliedInv
<1> QED BY <1>1, <1>2, <1>3 DEF SpecStep, SpecShape, SpecMoved

LEMMA KeepsMem == Keeps(mem, mem)
BY DEF Keeps, SameSpec

LEMMA CallFailedSpec ==
  ASSUME Framed, pc # "idle", NEW reason, reason \notin ReadyReasons, CallFailed(reason),
         UNCHANGED <<cr, watch>>
  PROVE  SpecStep
<1>1. /\ pc' = "error" /\ err' = reason /\ UNCHANGED <<mem, cur, memFresh>>
  BY DEF CallFailed
<1> QED BY <1>1, KeepsMem DEF SpecStep, SpecShape, SpecMoved, HeldOK, NoopOK, Keeps, SameSpec

LEMMA PersistSpec ==
  ASSUME AppliedInv, Framed, pc # "idle", NEW rec \in Resource,
         Keeps(mem, rec) \/ Marks(mem, rec),
         NEW p, p \notin {"idle", "ready", "created", "noop"}, Persist(rec, p)
  PROVE  SpecStep
<1>1. CASE Refused
  BY <1>1, ReturnSpec DEF Refused
<1>2. CASE memFresh /\ Store(cur, rec) /\ Goto(p, rec)
  <2>1. /\ pc' = p /\ mem' = rec /\ UNCHANGED <<cur, memFresh, err>>
    BY <1>2 DEF Goto
  <2>2. HeldOK' /\ NoopOK' /\ err' \notin ReadyReasons
    BY <2>1 DEF HeldOK, NoopOK, AppliedInv
  <2> QED BY <1>2, <2>1, <2>2 DEF SpecStep, SpecShape, SpecWrote
<1> QED BY <1>1, <1>2 DEF Persist, Refused

LEMMA MarkedMarks ==
  ASSUME NEW c \in Resource, NEW reason \in Reasons,
         reason \in ReadyReasons => Finishing
  PROVE  Marks(c, Marked(c, reason)) /\ Marked(c, reason) \in Resource
<1>1. Marked(c, reason) \in Resource
  BY MarkedType
<1> QED BY <1>1 DEF Marks, Marked, SameSpec, Resource

LEMMA SetStatusSpec ==
  ASSUME IInv, Framed, pc # "idle", NEW w, NEW reason \in Reasons, NEW r, NEW d,
         reason \in ReadyReasons => Finishing,
         SetStatusAndReturn(w, reason, r, d)
  PROVE  SpecStep
<1>1. CASE PersistAndReturn(Marked(mem, reason), r, d)
  BY <1>1, MemFacts, MarkedMarks, PersistAndReturnSpec
<1>2. CASE Return(r, d) /\ UNCHANGED <<cr, watch>>
  BY <1>2, ReturnSpec
<1> QED BY <1>1, <1>2 DEF SetStatusAndReturn

LEMMA FailSpec ==
  ASSUME IInv, Framed, pc # "idle", NEW reason \in Reasons, reason \notin ReadyReasons,
         Fail(reason)
  PROVE  SpecStep
BY SetStatusSpec DEF Fail

LEMMA WithoutConnectionSpec ==
  ASSUME IInv, Framed, pc # "idle", NEW reason \in Reasons, reason \notin ReadyReasons,
         NEW nf, WithoutConnection(reason, nf)
  PROVE  SpecStep
BY FailSpec, RemoveSpec DEF WithoutConnection

-----------------------------------------------------------------------------
(* What Ready says of Harbor: every action of the worker has one of the shapes *)

\* The calls that read or write neither the API server's records nor Harbor.
LEMMA LocalGotoSpec ==
  ASSUME AppliedInv, Framed, pc # "idle", NEW p, NEW rec, Keeps(mem, rec),
         p \notin {"idle", "ready", "created", "noop"}, Goto(p, rec) \/ GotoDirty(p, rec),
         UNCHANGED <<cr, watch>>
  PROVE  SpecStep
BY GotoSpec

LEMMA MarkReconcilingSpec ==
  ASSUME IInv, AppliedInv, MarkReconcilingIfNeeded PROVE SpecStep
<1>1. pc = "mark" /\ Framed /\ Persist(Marked(mem, "Reconciling"), "bind")
  BY DEF MarkReconcilingIfNeeded, Framed, worldVars
<1>2. mem \in Resource
  BY <1>1, MemFacts
<1>3. /\ Marks(mem, Marked(mem, "Reconciling"))
      /\ Marked(mem, "Reconciling") \in Resource
  BY <1>2, MarkedMarks, ReasonTypes, NoReady
<1> QED BY <1>1, <1>3, PersistSpec

LEMMA GetHarborClientSpec ==
  ASSUME IInv, AppliedInv, GetHarborClientForObject PROVE SpecStep
<1> DEFINE c == conn[ConnOf[cur]]
<1>0. pc = "bind" /\ pc # "idle" /\ Framed /\ mem \in Resource /\ cur \in Objects
  BY MemFacts DEF GetHarborClientForObject, Framed, worldVars
<1>1. CASE WithoutConnection("ConnectionNotFound", TRUE)
  BY <1>0, <1>1, WithoutConnectionSpec, ReasonTypes, NoReady
<1>2. CASE WithoutConnection("ConnectionChanged", FALSE)
  BY <1>0, <1>2, WithoutConnectionSpec, ReasonTypes, NoReady
<1>3. CASE Refused
  BY <1>0, <1>3, ReturnSpec DEF Refused
<1>4. CASE /\ mem.bound \in {0, c.uid}
           /\ mem.bound = 0 => memFresh
           /\ pc' = "client" /\ mem' = [mem EXCEPT !.bound = c.uid]
           /\ IF mem.bound = 0 THEN Store(cur, mem') ELSE UNCHANGED <<cr, watch>>
           /\ UNCHANGED <<queue, timer, cur, memFresh, dirty, err>>
  <2>1. ConnOf[cur] \in Conns /\ c \in Connection
    BY <1>0, FunctionsAssumption DEF IInv, TypeOK
  <2>2. c.uid \in Nat
    BY <2>1 DEF Connection
  <2>3. mem' \in Resource /\ mem'.bound = c.uid
    BY <1>0, <1>4, <2>2 DEF Resource
  <2>4. Keeps(mem, mem')
    <3>1. SameSpec(mem, mem') /\ mem'.obsGen = mem.obsGen /\ mem'.reason = mem.reason
      BY <1>0, <1>4 DEF SameSpec, Resource
    <3> QED BY <1>4, <2>3, <3>1 DEF Keeps
  <2>5. HeldOK' /\ NoopOK' /\ err' \notin ReadyReasons
    BY <1>4 DEF HeldOK, NoopOK, AppliedInv
  <2>6. SpecShape
    <3>1. CASE mem.bound = 0
      BY <1>0, <1>4, <2>3, <2>4, <3>1 DEF SpecShape, SpecWrote
    <3>2. CASE mem.bound # 0
      BY <1>0, <1>4, <2>4, <3>2 DEF SpecShape, SpecMoved
    <3> QED BY <3>1, <3>2
  <2> QED BY <1>0, <2>5, <2>6 DEF SpecStep
<1> QED BY <1>1, <1>2, <1>3, <1>4 DEF GetHarborClientForObject

LEMMA BuildHarborClientSpec ==
  ASSUME IInv, AppliedInv, BuildHarborClient PROVE SpecStep
<1>0. pc = "client" /\ pc # "idle" /\ Framed
  BY DEF BuildHarborClient, Framed, worldVars
<1>1. CASE WithoutConnection("SecretNotFound", TRUE)
  BY <1>0, <1>1, WithoutConnectionSpec, ReasonTypes, NoReady
<1>2. CASE /\ Goto(IF mem.deleting THEN "finalize" ELSE HeldPC(mem), mem)
           /\ UNCHANGED <<cr, watch>>
  <2>1. (IF mem.deleting THEN "finalize" ELSE HeldPC(mem))
          \notin {"idle", "ready", "created", "noop"}
    BY DEF HeldPC, CheckedPC
  <2> QED BY <1>0, <1>2, <2>1, LocalGotoSpec, KeepsMem
<1> QED BY <1>1, <1>2 DEF BuildHarborClient

LEMMA FinalizeSpec ==
  ASSUME IInv, FinalizeIfDeleting PROVE SpecStep
<1>1. pc # "idle" /\ Framed /\ RemoveFinalizer
  BY DEF FinalizeIfDeleting, Framed, worldVars
<1> QED BY <1>1, RemoveSpec

LEMMA EnsureFinalizerSpec ==
  ASSUME IInv, AppliedInv, EnsureFinalizer PROVE SpecStep
<1> DEFINE rec == [mem EXCEPT !.fin = TRUE]
<1>1. pc # "idle" /\ Framed /\ Persist(rec, CheckedPC)
  BY DEF EnsureFinalizer, Framed, worldVars
<1>2. mem \in Resource
  BY <1>1, MemFacts
<1>3. rec \in Resource /\ Keeps(mem, rec)
  BY <1>2 DEF Keeps, SameSpec, Resource
<1>4. CheckedPC \notin {"idle", "ready", "created", "noop"}
  BY DEF CheckedPC
<1> HIDE DEF rec
<1> QED BY <1>1, <1>3, <1>4, PersistSpec

LEMMA EnsureSingletonOwnerSpec ==
  ASSUME IInv, AppliedInv, EnsureSingletonOwner PROVE SpecStep
<1>0. pc = "owner" /\ pc # "idle" /\ Framed
  BY DEF EnsureSingletonOwner, Framed, worldVars
<1>1. CASE Fail("ConnectionNotFound") \/ Fail("Conflict")
  BY <1>0, <1>1, FailSpec, ReasonTypes, NoReady
<1>2. CASE Goto(OwnerPC(mem), mem) /\ UNCHANGED <<cr, watch>>
  <2>1. kind # "Quota" /\ kind \in AllKinds
    BY <1>0, HoldingFacts, ConstantsAssumption DEF IInv, TypeOK
  <2>2. ~ByHash => OwnerPC(mem) \in {"getSchedule", "settings"}
    BY <2>1 DEF OwnerPC, ByHash, AllKinds
  <2>3. OwnerPC(mem) \in {"create", "update", "ready", "getSchedule", "settings"}
    BY <1>0, <2>1, MemFacts, OwnerPCs DEF IInv
  <2> QED BY <1>0, <1>2, <2>2, <2>3, GotoSpec, KeepsMem
<1> QED BY <1>1, <1>2 DEF EnsureSingletonOwner

LEMMA BuildDesiredSettingsSpec ==
  ASSUME IInv, AppliedInv, BuildDesiredSettings PROVE SpecStep
<1>0. pc = "settings" /\ pc # "idle" /\ Framed
  BY DEF BuildDesiredSettings, Framed, worldVars
<1>1. CASE Fail("SettingsError")
  BY <1>0, <1>1, FailSpec, ReasonTypes, NoReady
<1>2. CASE Goto("noop", mem) /\ mem.data = Empty /\ UNCHANGED <<cr, watch>>
  BY <1>0, <1>2, GotoSpec, KeepsMem
<1>3. CASE Goto("getConfig", mem) /\ UNCHANGED <<cr, watch>>
  BY <1>0, <1>3, LocalGotoSpec, KeepsMem
<1> QED BY <1>1, <1>2, <1>3 DEF BuildDesiredSettings

LEMMA KeepsWithHash == ASSUME mem \in Resource PROVE Keeps(mem, WithHash(mem))
BY DEF Keeps, SameSpec, WithHash, Resource

LEMMA GetScanAllScheduleSpec ==
  ASSUME IInv, AppliedInv, GetScanAllSchedule PROVE SpecStep
<1>0. pc # "idle" /\ Framed /\ UNCHANGED <<cr, watch, harbor>>
  BY DEF GetScanAllSchedule, Framed, apiVars
<1>1. CASE CallFailed("HarborError")
  BY <1>0, <1>1, CallFailedSpec, NoReady
<1>2. CASE Goto("create", mem) \/ Goto("update", mem)
  BY <1>0, <1>2, LocalGotoSpec, KeepsMem
<1>3. CASE Goto("ready", mem) /\ harbor[target].data = mem.data
  BY <1>0, <1>3, GotoSpec, KeepsMem
<1>4. CASE GotoDirty("ready", WithHash(mem)) /\ harbor[target].data = mem.data
  <2>1. Keeps(mem, WithHash(mem)) /\ WithHash(mem).data = mem.data
    BY <1>0, MemFacts, KeepsWithHash DEF Keeps, SameSpec
  <2> QED BY <1>0, <1>4, <2>1, GotoSpec
<1> QED BY <1>1, <1>2, <1>3, <1>4 DEF GetScanAllSchedule

LEMMA GetConfigurationsSpec ==
  ASSUME IInv, AppliedInv, GetConfigurations PROVE SpecStep
<1>0. pc # "idle" /\ Framed /\ UNCHANGED <<cr, watch, harbor>>
  BY DEF GetConfigurations, Framed, apiVars
<1>1. CASE CallFailed("HarborError") \/ CallFailed("SettingsError")
  BY <1>0, <1>1, CallFailedSpec, NoReady
<1>2. CASE Goto("update", mem)
  BY <1>0, <1>2, LocalGotoSpec, KeepsMem
<1>3. CASE Goto("ready", mem) /\ harbor[target].data = mem.data
  BY <1>0, <1>3, GotoSpec, KeepsMem
<1> QED BY <1>1, <1>2, <1>3 DEF GetConfigurations

LEMMA ResolveProjectSpec ==
  ASSUME IInv, AppliedInv, ResolveProject PROVE SpecStep
<1>0. pc # "idle" /\ Framed
  BY DEF ResolveProject, Framed, worldVars
<1>1. CASE Fail("SettingsError")
  BY <1>0, <1>1, FailSpec, ReasonTypes, NoReady
<1>2. CASE (Goto("findQuota", mem) \/ Goto("getQuota", mem)) /\ UNCHANGED <<cr, watch>>
  BY <1>0, <1>2, LocalGotoSpec, KeepsMem
<1> QED BY <1>1, <1>2 DEF ResolveProject

LEMMA FindQuotaSpec ==
  ASSUME IInv, AppliedInv, FindQuotaID PROVE SpecStep
<1>0. pc # "idle" /\ Framed /\ UNCHANGED <<cr, watch>>
  BY DEF FindQuotaID, Framed, apiVars
<1>1. CASE CallFailed("HarborError")
  BY <1>0, <1>1, CallFailedSpec, NoReady
<1>2. CASE Goto("recordQuota", [mem EXCEPT !.quotaId = harbor[target].id])
  <2>1. Keeps(mem, [mem EXCEPT !.quotaId = harbor[target].id])
    BY DEF IInv, TypeOK, Keeps, SameSpec, Resource
  <2> QED BY <1>0, <1>2, <2>1, LocalGotoSpec
<1> QED BY <1>1, <1>2 DEF FindQuotaID

LEMMA RecordQuotaSpec ==
  ASSUME IInv, AppliedInv, RecordQuotaID PROVE SpecStep
<1>0. pc # "idle" /\ Framed /\ Persist(mem, "getQuota")
  BY DEF RecordQuotaID, Framed, worldVars
<1> QED BY <1>0, MemFacts, KeepsMem, PersistSpec

LEMMA GetQuotaSpec ==
  ASSUME IInv, AppliedInv, GetQuota PROVE SpecStep
<1>0. pc # "idle" /\ Framed /\ mem \in Resource /\ UNCHANGED harbor
  BY MemFacts DEF GetQuota, Framed
<1>1. CASE CallFailed("HarborError") /\ UNCHANGED <<cr, watch>>
  BY <1>0, <1>1, CallFailedSpec, NoReady
<1>2. CASE Goto("update", mem) /\ UNCHANGED <<cr, watch>>
  BY <1>0, <1>2, LocalGotoSpec, KeepsMem
<1>3. CASE /\ Goto("ready", mem) /\ mem.data \in {Empty, harbor[target].data}
           /\ UNCHANGED <<cr, watch>>
  BY <1>0, <1>3, GotoSpec, KeepsMem
<1>4. CASE RequeueOnRemoteNotFound
  <2> DEFINE rec == [mem EXCEPT !.quotaId = 0]
  <2>1. rec \in Resource /\ Keeps(mem, rec) /\ rec.bound = mem.bound
    BY <1>0 DEF Keeps, SameSpec, Resource
  <2> HIDE DEF rec
  <2>2. /\ Marks(rec, Marked(rec, "NotFound")) /\ Marked(rec, "NotFound") \in Resource
    BY <2>1, MarkedMarks, ReasonTypes, NoReady
  <2>3. Marks(mem, Marked(rec, "NotFound"))
    BY <2>1, <2>2 DEF Marks, Keeps, SameSpec
  <2>4. CASE PersistAndReturn(Marked(rec, "NotFound"), TRUE, FALSE)
    BY <1>0, <2>2, <2>3, <2>4, PersistAndReturnSpec
  <2>5. CASE Return(TRUE, FALSE) /\ UNCHANGED <<cr, watch>>
    BY <1>0, <2>5, ReturnSpec
  <2> QED BY <1>4, <2>4, <2>5 DEF RequeueOnRemoteNotFound, rec
<1> QED BY <1>1, <1>2, <1>3, <1>4 DEF GetQuota

\* A write that succeeds has put the payload there.
LEMMA WriteSpec ==
  ASSUME IInv, AppliedInv, CreateRemote \/ UpdateRemote PROVE SpecStep
<1>0. /\ pc # "idle" /\ Framed /\ UNCHANGED <<cr, watch>>
      /\ \/ CallFailed("HarborError")
         \/ /\ Overwrite
            /\ \E p \in {"created", "ready"} : Goto(p, mem) \/ GotoDirty(p, WithHash(mem))
  BY DEF CreateRemote, UpdateRemote, WriteRemote, Framed, apiVars
<1>1. CASE CallFailed("HarborError")
  BY <1>0, <1>1, CallFailedSpec, NoReady
<1>2. CASE /\ Overwrite
           /\ \E p \in {"created", "ready"} : Goto(p, mem) \/ GotoDirty(p, WithHash(mem))
  <2>1. harbor'[target].data = mem.data
    <3>1. harbor' = [harbor EXCEPT ![target] =
                       [harbor[target] EXCEPT !.data = mem.data, !.writer = Me]]
          /\ target \in Instances
      BY <1>2 DEF Overwrite, IInv, TypeOK
    <3>2. [harbor[target] EXCEPT !.data = mem.data, !.writer = Me].data = mem.data
      BY <3>1 DEF IInv, TypeOK, Setting
    <3> QED BY <3>1, <3>2 DEF IInv, TypeOK
  <2>2. Keeps(mem, WithHash(mem)) /\ WithHash(mem).data = mem.data
    BY <1>0, MemFacts, KeepsWithHash DEF Keeps, SameSpec
  <2> QED BY <1>0, <1>2, <2>1, <2>2, GotoSpec, KeepsMem
<1> QED BY <1>0, <1>1, <1>2

LEMMA UpdateVanishedQuotaSpec ==
  ASSUME IInv, UpdateVanishedQuota PROVE SpecStep
<1>0. pc # "idle" /\ Framed /\ UNCHANGED <<cr, watch>> /\ CallFailed("HarborError")
  BY DEF UpdateVanishedQuota, Framed, apiVars, worldVars
<1> QED BY <1>0, CallFailedSpec, NoReady

LEMMA SetStatusActionSpec ==
  ASSUME IInv, AppliedInv,
         SetCreatedStatus \/ SetReadyStatus \/ SetNoopStatus \/ SetErrorStatus
  PROVE  SpecStep
<1>0. Framed /\ pc # "idle" /\ err \in Reasons /\ err \notin ReadyReasons
  BY DEF SetCreatedStatus, SetReadyStatus, SetNoopStatus, SetErrorStatus, Framed,
         worldVars, IInv, TypeOK, AppliedInv
<1>1. CASE SetErrorStatus
  BY <1>0, <1>1, FailSpec DEF SetErrorStatus
<1>2. CASE SetCreatedStatus \/ SetReadyStatus \/ SetNoopStatus
  <2>1. Finishing
    BY <1>2 DEF Finishing, SetCreatedStatus, SetReadyStatus, SetNoopStatus
  <2> QED BY <1>0, <1>2, <2>1, SetStatusSpec, ReasonTypes
          DEF SetCreatedStatus, SetReadyStatus, SetNoopStatus
<1> QED BY <1>1, <1>2

LEMMA ReconcileSpec == ASSUME IInv, AppliedInv, Reconcile PROVE SpecStep
BY MarkReconcilingSpec, GetHarborClientSpec, BuildHarborClientSpec, FinalizeSpec,
   EnsureFinalizerSpec, EnsureSingletonOwnerSpec, BuildDesiredSettingsSpec,
   GetScanAllScheduleSpec, GetConfigurationsSpec, ResolveProjectSpec, FindQuotaSpec,
   RecordQuotaSpec, GetQuotaSpec, WriteSpec, UpdateVanishedQuotaSpec,
   SetStatusActionSpec
   DEF Reconcile

-----------------------------------------------------------------------------
(* What Ready says of Harbor: a worker's step *)

LEMMA NoResourceSeen ==
  /\ NoResource.obsGen = 0 /\ NoResource.gen = 0 /\ NoResource.inc = 0
  /\ NoResource.reason \notin ReadyReasons
  /\ \A c : SeenOK(c, NoResource)
<1>1. /\ NoResource.obsGen = 0 /\ NoResource.gen = 0 /\ NoResource.inc = 0
      /\ NoResource.reason = ""
  BY DEF NoResource
<1> QED BY <1>1, NoReady DEF SeenOK

LEMMA SeenItself ==
  ASSUME NEW rec \in Resource, rec.obsGen <= rec.gen PROVE SeenOK(rec, rec)
BY DEF SeenOK, Resource

\* Who has a copy of o when rec is written has seen of it what rec says.
LEMMA StoredSeen ==
  ASSUME TypeOK, \A p \in Objects : RecordOK(p), NEW o \in Objects, NEW rec \in Resource,
         Store(o, rec), cache' = cache, rec.obsGen <= rec.gen,
         rec.reason \in ReadyReasons => rec.bound # 0,
         SeenOK(cache[o], rec), \A i \in EventsOf(o) : SeenOK(watch[i][2], rec)
  PROVE  \A p \in Objects : RecordOK(p)'
<1> SUFFICES ASSUME NEW p \in Objects PROVE RecordOK(p)'
  OBVIOUS
<1>0. cr'[o] = rec /\ (p # o => cr'[p] = cr[p])
  BY DEF Store, TypeOK
<1>1. CASE p # o
  <2>1. /\ EventsOf(p)' = EventsOf(p) /\ cr'[p] = cr[p] /\ cache'[p] = cache[p]
        /\ \A i \in EventsOf(p) : watch'[i] = watch[i]
    BY <1>0, <1>1, AppendedEvents
  <2>2. RecordOK(p)
    OBVIOUS
  <2> QED BY <2>1, <2>2 DEF RecordOK
<1>2. CASE p = o
  <2>1. /\ EventsOf(p)' = EventsOf(p) \cup {Len(watch) + 1}
        /\ watch'[Len(watch) + 1][2] = rec
        /\ \A i \in EventsOf(p) : watch'[i] = watch[i]
    BY <1>2, AppendedEvents
  <2>2. \A i \in EventsOf(p)' : SeenOK(watch'[i][2], rec)
    BY <1>2, <2>1, SeenItself
  <2> QED BY <1>0, <1>2, <2>2 DEF RecordOK
<1> QED BY <1>1, <1>2

\* What the worker may write is of the generation that everybody has.
LEMMA FreshSeen ==
  ASSUME IInv, AppliedInv, memFresh, NEW rec \in Resource, SameSpec(mem, rec),
         rec.obsGen <= rec.gen
  PROVE  /\ SeenOK(cache[cur], rec) /\ \A i \in EventsOf(cur) : SeenOK(watch[i][2], rec)
         /\ rec.inc = cr[cur].inc /\ rec.gen = cr[cur].gen /\ rec.data = cr[cur].data
         /\ cache[cur].gen = rec.gen /\ \A i \in EventsOf(cur) : watch[i][2].gen = rec.gen
<1>1. cur \in Objects /\ mem.inc = cr[cur].inc /\ mem.inc # 0
  BY FreshFacts
<1>2. /\ cr[cur].gen = mem.gen /\ cr[cur].data = mem.data
      /\ cache[cur].gen = mem.gen /\ \A i \in EventsOf(cur) : watch[i][2].gen = mem.gen
  BY DEF AppliedInv, FreshSameOK
<1>3. /\ rec.inc = mem.inc /\ rec.gen = mem.gen /\ rec.data = mem.data
  BY DEF SameSpec
<1>4. /\ SeenOK(cache[cur], cr[cur]) /\ \A i \in EventsOf(cur) : SeenOK(watch[i][2], cr[cur])
  BY <1>1 DEF AppliedInv, RecordOK
<1>5. /\ cache[cur].inc = mem.inc /\ \A i \in EventsOf(cur) : watch[i][2].inc = mem.inc
  BY FreshFacts DEF Alike
<1>6. rec.gen \in Nat
  BY DEF Resource
<1>7. ASSUME NEW c, SeenOK(c, cr[cur]), c.gen = mem.gen, c.inc = mem.inc
      PROVE  SeenOK(c, rec)
  <2>1. c.data = cr[cur].data
    BY <1>1, <1>2, <1>7 DEF SeenOK
  <2> QED BY <1>2, <1>3, <1>6, <1>7, <2>1 DEF SeenOK
<1>8. SeenOK(cache[cur], rec)
  BY <1>2, <1>4, <1>5, <1>7
<1>9. \A i \in EventsOf(cur) : SeenOK(watch[i][2], rec)
  BY <1>2, <1>4, <1>5, <1>7
<1> QED BY <1>1, <1>2, <1>3, <1>8, <1>9

\* What the worker may write, and what follows from its conditions.
LEMMA WrittenSpec ==
  ASSUME IInv, AppliedInv, memFresh, NEW rec \in Resource, Keeps(mem, rec) \/ Marks(mem, rec)
  PROVE  /\ SameSpec(mem, rec) /\ rec.obsGen <= rec.gen
         /\ rec.reason \in ReadyReasons => rec.bound # 0 /\ rec.bound = mem.bound
         /\ rec.obsGen = rec.gen /\ rec.reason \in ReadyReasons =>
              Ready(cur) \/ Finishing
<1>1. /\ cr[cur].bound = mem.bound /\ cur \in Objects /\ pc # "idle"
  BY FreshFacts
<1>2. /\ cr[cur].gen = mem.gen /\ cr[cur].obsGen = mem.obsGen
      /\ cr[cur].reason = mem.reason
  BY DEF AppliedInv, FreshSameOK
<1>3. cr[cur].obsGen <= cr[cur].gen /\ (cr[cur].reason \in ReadyReasons => cr[cur].bound # 0)
  BY <1>1 DEF AppliedInv, RecordOK
<1>4. CASE Keeps(mem, rec)
  BY <1>1, <1>2, <1>3, <1>4 DEF Keeps, SameSpec, Ready
<1>5. CASE Marks(mem, rec)
  <2>1. rec.gen \in Nat /\ rec.gen <= rec.gen
    BY DEF Resource
  <2>2. SameSpec(mem, rec) /\ rec.obsGen = rec.gen /\ rec.bound = mem.bound
        /\ (rec.reason \in ReadyReasons => Finishing)
    BY <1>5 DEF Marks, SameSpec
  <2>3. Finishing => mem.bound # 0
    BY <1>1, MemFacts DEF Finishing, Loading
  <2> QED BY <2>1, <2>2, <2>3
<1> QED BY <1>4, <1>5

LEMMA StepRecords ==
  ASSUME IInv, AppliedInv, SpecStep PROVE \A p \in Objects : RecordOK(p)'
<1>0. TypeOK /\ (\A p \in Objects : RecordOK(p)) /\ cache' = cache
  BY DEF IInv, AppliedInv, SpecStep, Framed
<1>1. CASE UNCHANGED <<cr, watch>>
  <2>1. \A p \in Objects : EventsOf(p)' = EventsOf(p)
    BY <1>1 DEF EventsOf
  <2> QED BY <1>0, <1>1, <2>1 DEF RecordOK
<1>2. CASE SpecWrote
  <2>1. PICK rec \in Resource :
          memFresh /\ (Keeps(mem, rec) \/ Marks(mem, rec)) /\ Store(cur, rec)
    BY <1>2 DEF SpecWrote
  <2>2. /\ SameSpec(mem, rec) /\ rec.obsGen <= rec.gen
        /\ rec.reason \in ReadyReasons => rec.bound # 0
    BY <2>1, WrittenSpec
  <2>3. SeenOK(cache[cur], rec) /\ \A i \in EventsOf(cur) : SeenOK(watch[i][2], rec)
    BY <2>1, <2>2, FreshSeen
  <2>4. cur \in Objects
    BY DEF IInv, TypeOK
  <2> QED BY <1>0, <2>1, <2>2, <2>3, <2>4, StoredSeen
<1>3. CASE SpecRemoved
  <2>1. cur \in Objects /\ Store(cur, NoResource) /\ NoResource \in Resource
    BY <1>3, NoResourceType DEF IInv, TypeOK, SpecRemoved
  <2>2. NoResource.obsGen <= NoResource.gen
    BY NoResourceSeen
  <2> QED BY <1>0, <2>1, <2>2, NoResourceSeen, StoredSeen
<1> QED BY <1>1, <1>2, <1>3 DEF SpecStep, SpecShape, StepEnded, SpecMoved

LEMMA StepMem ==
  ASSUME IInv, AppliedInv, SpecStep PROVE MemSeenOK' /\ FreshSameOK'
<1>0. TypeOK /\ cache' = cache /\ pc # "idle" /\ cur \in Objects
  BY DEF IInv, TypeOK, SpecStep, Framed
<1>1. CASE ForgetLocals
  BY <1>1 DEF ForgetLocals, MemSeenOK, FreshSameOK
<1>2. CASE SpecMoved
  <2>1. /\ SameSpec(mem, mem') /\ mem'.obsGen = mem.obsGen /\ mem'.reason = mem.reason
        /\ UNCHANGED <<cr, watch, cur, memFresh>>
    BY <1>2 DEF SpecMoved, Keeps
  <2>2. EventsOf(cur)' = EventsOf(cur)
    BY <2>1 DEF EventsOf
  <2>3. MemSeenOK'
    BY <1>0, <2>1 DEF AppliedInv, MemSeenOK, SeenOK, SameSpec
  <2>4. FreshSameOK'
    BY <1>0, <2>1, <2>2 DEF AppliedInv, FreshSameOK, SameSpec
  <2> QED BY <2>3, <2>4
<1>3. CASE SpecWrote /\ ~ForgetLocals
  <2>1. PICK rec \in Resource :
          /\ memFresh /\ (Keeps(mem, rec) \/ Marks(mem, rec)) /\ Store(cur, rec)
          /\ mem' = rec /\ UNCHANGED <<cur, memFresh>>
    BY <1>3 DEF SpecWrote
  <2>2. SameSpec(mem, rec) /\ rec.obsGen <= rec.gen
    BY <2>1, WrittenSpec
  <2>3. cr'[cur] = rec
    BY <1>0, <2>1 DEF Store, TypeOK
  <2>4. MemSeenOK'
    BY <2>1, <2>2, <2>3, SeenItself DEF MemSeenOK
  <2>5. cache[cur].gen = rec.gen /\ \A i \in EventsOf(cur) : watch[i][2].gen = rec.gen
    BY <2>1, <2>2, FreshSeen
  <2>6. /\ EventsOf(cur)' = EventsOf(cur) \cup {Len(watch) + 1}
        /\ watch'[Len(watch) + 1][2] = rec
        /\ \A i \in EventsOf(cur) : watch'[i] = watch[i]
    BY <1>0, <2>1, AppendedEvents DEF EventsOf
  <2>7. \A i \in EventsOf(cur)' : watch'[i][2].gen = rec.gen
    BY <2>5, <2>6
  <2>8. FreshSameOK'
    BY <1>0, <2>1, <2>3, <2>5, <2>7 DEF FreshSameOK
  <2> QED BY <2>4, <2>8
<1> QED BY <1>1, <1>2, <1>3 DEF SpecStep, SpecShape, StepEnded, SpecRemoved

-----------------------------------------------------------------------------
(* What Ready says of Harbor: a worker's step, and the settings *)

\* What ReadyMeansApplied says of o and of the instance i.
AppliedAt(o, i) ==
  /\ Exists(o) /\ Ready(o) /\ cr[o].data # Empty
  /\ harbor[i].writer = <<o, cr[o].inc>>
  /\ conn[ConnOf[o]].uid = cr[o].bound /\ conn[ConnOf[o]].url = i
  => harbor[i].data = cr[o].data

LEMMA AppliedParts ==
  ASSUME ~ByHash
  PROVE  ReadyMeansApplied <=> \A o \in Objects, i \in Instances : AppliedAt(o, i)
BY DEF ReadyMeansApplied, AppliedAt

LEMMA SameApplied ==
  ASSUME NEW o \in Objects, NEW i \in Instances, AppliedAt(o, i),
         cr'[o] = cr[o], harbor'[i] = harbor[i], conn' = conn
  PROVE  AppliedAt(o, i)'
BY DEF AppliedAt, Exists, Ready

\* A worker that has finished with its resource has what Harbor has.
LEMMA FinishedApplied ==
  ASSUME IInv, AppliedInv, ~ByHash, Finishing, memFresh, mem.data # Empty,
         NEW i \in Instances, harbor[i].writer = <<cur, mem.inc>>,
         conn[ConnOf[cur]].uid = mem.bound, conn[ConnOf[cur]].url = i
  PROVE  harbor[i].data = mem.data
<1>1. i = target
  BY DEF Finishing, IInv, WorkerOK, TargetOK
<1>2. pc \in {"ready", "created"}
  BY DEF AppliedInv, NoopOK, Finishing
<1> QED BY <1>1, <1>2 DEF AppliedInv, HeldOK, Me

LEMMA WroteApplied ==
  ASSUME IInv, AppliedInv, ~ByHash, SpecStep, SpecWrote, harbor' = harbor
  PROVE  ReadyMeansApplied'
<1>1. PICK rec \in Resource :
        memFresh /\ (Keeps(mem, rec) \/ Marks(mem, rec)) /\ Store(cur, rec)
  BY DEF SpecWrote
<1>2. PICK q \in Objects : q = cur
  BY DEF IInv, TypeOK
<1>3. /\ cr'[q] = rec /\ \A p \in Objects \ {q} : cr'[p] = cr[p]
      /\ conn' = conn
  BY <1>1, <1>2 DEF Store, IInv, TypeOK, SpecStep, Framed
<1>4. \A o \in Objects, i \in Instances : AppliedAt(o, i)
  BY AppliedParts DEF AppliedInv
<1>5. ASSUME NEW i \in Instances, rec.obsGen = rec.gen, rec.reason \in ReadyReasons,
             rec.data # Empty, harbor[i].writer = <<q, rec.inc>>, rec.inc # 0,
             conn[ConnOf[q]].uid = rec.bound, conn[ConnOf[q]].url = i
      PROVE  harbor[i].data = rec.data
  <2>1. /\ rec.inc = mem.inc /\ rec.data = mem.data /\ rec.bound = mem.bound
        /\ Ready(cur) \/ Finishing
    BY <1>1, <1>5, WrittenSpec DEF SameSpec
  <2>2. CASE Finishing
    BY <1>1, <1>2, <1>5, <2>1, <2>2, FinishedApplied
  <2>3. CASE Ready(cur)
    <3>1. cr[q].inc = mem.inc /\ cr[q].bound = mem.bound
      BY <1>1, <1>2, FreshFacts
    <3>2. cr[q].data = mem.data
      BY <1>1, <1>2 DEF AppliedInv, FreshSameOK
    <3>3. AppliedAt(q, i) /\ Ready(q)
      BY <1>2, <1>4, <2>3
    <3> QED BY <1>5, <2>1, <3>1, <3>2, <3>3 DEF AppliedAt, Exists
  <2> QED BY <2>1, <2>2, <2>3
<1>6. ASSUME NEW i \in Instances PROVE AppliedAt(q, i)'
  BY <1>3, <1>5 DEF AppliedAt, Exists, Ready
<1>7. ASSUME NEW o \in Objects, NEW i \in Instances PROVE AppliedAt(o, i)'
  BY <1>3, <1>4, <1>6, SameApplied
<1> QED BY <1>7 DEF ReadyMeansApplied, AppliedAt

\* What the worker writes to Harbor is the payload of the generation that is Ready,
\* if one is.
LEMMA OverwriteApplied ==
  ASSUME IInv, AppliedInv, ~ByHash, SpecStep, Overwrite, UNCHANGED cr
  PROVE  ReadyMeansApplied'
<1>1. /\ \A i \in Instances \ {target} : harbor'[i] = harbor[i]
      /\ harbor'[target].data = mem.data /\ harbor'[target].writer = Me
  <2>1. harbor' = [harbor EXCEPT ![target] =
                     [harbor[target] EXCEPT !.data = mem.data, !.writer = Me]]
        /\ target \in Instances
    BY DEF Overwrite, IInv, TypeOK
  <2>2. /\ [harbor[target] EXCEPT !.data = mem.data, !.writer = Me].data = mem.data
        /\ [harbor[target] EXCEPT !.data = mem.data, !.writer = Me].writer = Me
    BY <2>1 DEF IInv, TypeOK, Setting
  <2> QED BY <2>1, <2>2 DEF IInv, TypeOK
<1>2. conn' = conn /\ pc # "idle"
  BY DEF SpecStep, Framed
<1>3. ASSUME NEW o \in Objects, NEW i \in Instances PROVE AppliedAt(o, i)'
  <2>1. AppliedAt(o, i)
    BY AppliedParts DEF AppliedInv
  <2>2. CASE i # target
    BY <1>1, <1>2, <2>1, <2>2, SameApplied
  <2>3. CASE i = target /\ Me = <<o, cr[o].inc>> /\ Ready(o) /\ Exists(o)
    <3>1. o = cur /\ mem.inc = cr[o].inc /\ mem.inc # 0
      BY <2>3 DEF Me, Exists
    <3>2. SeenOK(mem, cr[o]) /\ cr[o].obsGen = cr[o].gen
      BY <1>2, <2>3, <3>1 DEF AppliedInv, MemSeenOK, Ready
    <3>3. mem \in Resource /\ cr[o] \in Resource
      BY DEF IInv, TypeOK
    <3>4. mem.gen \in Nat /\ cr[o].gen \in Nat
      BY <3>3 DEF Resource
    <3>5. mem.data = cr[o].data
      BY <3>1, <3>2, <3>4 DEF SeenOK
    <3> QED BY <1>1, <2>3, <3>5 DEF AppliedAt
  <2>4. CASE i = target /\ ~(Me = <<o, cr[o].inc>> /\ Ready(o) /\ Exists(o))
    BY <1>1, <2>4 DEF AppliedAt, Ready, Exists
  <2> QED BY <2>2, <2>3, <2>4
<1> QED BY <1>3 DEF ReadyMeansApplied, AppliedAt

LEMMA StepApplied ==
  ASSUME IInv, AppliedInv, SpecStep, ~ByHash,
         harbor' = harbor \/ (Overwrite /\ UNCHANGED <<cr, watch>>)
  PROVE  ReadyMeansApplied'
<1>0. conn' = conn /\ \A o \in Objects, i \in Instances : AppliedAt(o, i)
  BY AppliedParts DEF AppliedInv, SpecStep, Framed
<1>1. CASE Overwrite /\ UNCHANGED cr
  BY <1>1, OverwriteApplied
<1>2. CASE SpecWrote /\ harbor' = harbor
  BY <1>2, WroteApplied
<1>3. CASE UNCHANGED cr /\ harbor' = harbor
  BY <1>0, <1>3 DEF ReadyMeansApplied, AppliedAt, Exists, Ready
<1>4. CASE SpecRemoved /\ harbor' = harbor
  <2>1. PICK q \in Objects : q = cur
    BY DEF IInv, TypeOK
  <2>2. cr'[q] = NoResource /\ \A p \in Objects \ {q} : cr'[p] = cr[p]
    BY <1>4, <2>1 DEF SpecRemoved, Store, IInv, TypeOK
  <2>3. ASSUME NEW o \in Objects, NEW i \in Instances PROVE AppliedAt(o, i)'
    <3>1. CASE o = q
      BY <2>2, <3>1, NoResourceSeen DEF AppliedAt, Exists
    <3>2. CASE o # q
      BY <1>0, <1>4, <2>2, <3>2, SameApplied
    <3> QED BY <3>1, <3>2
  <2> QED BY <2>3 DEF ReadyMeansApplied, AppliedAt
<1> QED BY <1>1, <1>2, <1>3, <1>4 DEF SpecStep, SpecShape, StepEnded, SpecMoved

LEMMA ReconcileApplied == ASSUME IInv, AppliedInv, Reconcile PROVE AppliedInv'
<1>1. SpecStep /\ kind' = kind
  BY ReconcileSpec DEF SpecStep, Framed
<1>2. harbor' = harbor \/ (Overwrite /\ UNCHANGED <<cr, watch>>)
  BY StepHarbor
<1>3. ReadyMeansApplied'
  <2>1. ByHash' <=> ByHash
    BY <1>1 DEF ByHash
  <2>2. ~ByHash => ReadyMeansApplied'
    BY <1>1, <1>2, StepApplied
  <2> QED BY <2>1, <2>2 DEF ReadyMeansApplied
<1> QED BY <1>1, <1>3, StepRecords, StepMem DEF AppliedInv, SpecStep

-----------------------------------------------------------------------------
(* What Ready says of Harbor: the steps of others *)

\* Neither the records nor the worker's copy change, nor what is Ready.
LEMMA OthersApplied ==
  ASSUME AppliedInv, UNCHANGED <<kind, cr, watch, cache, localVars>>,
         \A o \in Objects, i \in Instances : ~ByHash /\ AppliedAt(o, i) => AppliedAt(o, i)',
         harbor'[target] = harbor[target] \/ HeldOK'
  PROVE  AppliedInv'
<1>1. \A p \in Objects : EventsOf(p)' = EventsOf(p)
  BY DEF EventsOf
<1>2. UNCHANGED <<pc, cur, mem, memFresh, target, err>>
  BY DEF localVars
<1>3. EventsOf(cur)' = EventsOf(cur)
  BY <1>2 DEF EventsOf
<1>4. \A o \in Objects : RecordOK(o)'
  BY <1>1 DEF AppliedInv, RecordOK
<1>5. MemSeenOK' /\ FreshSameOK' /\ NoopOK' /\ err' \notin ReadyReasons
  BY <1>2, <1>3 DEF AppliedInv, MemSeenOK, FreshSameOK, NoopOK
<1>6. HeldOK'
  BY <1>2 DEF AppliedInv, HeldOK, ByHash, Me
<1>7. ReadyMeansApplied'
  <2> SUFFICES ASSUME ~ByHash' PROVE ReadyMeansApplied'
    BY DEF ReadyMeansApplied
  <2>1. ~ByHash /\ \A o \in Objects, i \in Instances : AppliedAt(o, i)
    BY AppliedParts DEF AppliedInv, ByHash
  <2>2. \A o \in Objects, i \in Instances : AppliedAt(o, i)'
    BY <2>1
  <2> QED BY <2>2 DEF ReadyMeansApplied, AppliedAt
<1> QED BY <1>4, <1>5, <1>6, <1>7 DEF AppliedInv

LEMMA QuietApplied ==
  ASSUME AppliedInv, UNCHANGED <<kind, cr, watch, cache, localVars, harbor, conn>>
  PROVE  AppliedInv'
BY OthersApplied, SameApplied

\* A connection that comes has a UID that nobody recorded.
LEMMA ConnectionApplied ==
  ASSUME IInv, AppliedInv, NEW c \in Conns, DeleteConnection(c) \/ CreateConnection(c)
  PROVE  AppliedInv'
<1>0. TypeOK
  BY DEF IInv
<1>1. UNCHANGED <<kind, cr, watch, cache, localVars, harbor>>
  BY DEF DeleteConnection, CreateConnection, apiVars
<1>2. /\ \A b \in Conns : b # c => conn'[b] = conn[b]
      /\ conn'[c].uid \in {0, lastUid + 1} /\ lastUid \in Nat
  BY <1>0 DEF DeleteConnection, CreateConnection, TypeOK, NoConnection
<1>3. ASSUME NEW o \in Objects, NEW i \in Instances, AppliedAt(o, i)
      PROVE  AppliedAt(o, i)'
  <2> SUFFICES ASSUME cr[o].inc # 0, cr[o].reason \in ReadyReasons,
                      conn'[ConnOf[o]].uid = cr[o].bound
               PROVE  ConnOf[o] # c
    BY <1>1, <1>2, <1>3, FunctionsAssumption DEF AppliedAt, Exists, Ready
  <2>1. cr[o].bound # 0 /\ cr[o].bound <= lastUid /\ cr[o].bound \in Nat
    BY <1>0, OwnRecord DEF AppliedInv, RecordOK, Resource
  <2> QED BY <1>2, <2>1
<1> QED BY <1>1, <1>3, OthersApplied

\* What another client writes is not the resource's.
LEMMA ForeignApplied ==
  ASSUME IInv, AppliedInv, ForeignWrite \/ RecreateProject PROVE AppliedInv'
<1>0. TypeOK /\ target \in Instances
  BY DEF IInv, TypeOK
<1>1. UNCHANGED <<kind, cr, watch, cache, localVars, conn>>
  BY DEF ForeignWrite, RecreateProject, workerVars, apiVars
<1>2. \A i \in Instances : harbor'[i] = harbor[i] \/ harbor'[i].writer = <<Env, 0>>
  <2>1. CASE ForeignWrite
    <3>1. PICK j \in Instances, d \in Payloads :
            harbor' = [harbor EXCEPT ![j] =
                         [harbor[j] EXCEPT !.data = d, !.writer = <<Env, 0>>]]
      BY <2>1, <1>0 DEF ForeignWrite, TypeOK
    <3>2. [harbor[j] EXCEPT !.data = d, !.writer = <<Env, 0>>].writer = <<Env, 0>>
      BY <1>0 DEF TypeOK, Setting
    <3> QED BY <1>0, <3>1, <3>2 DEF TypeOK
  <2>2. CASE RecreateProject
    <3>1. PICK j \in Instances :
            harbor' = [harbor EXCEPT ![j] = [data |-> None, writer |-> <<Env, 0>>,
                                             id |-> harbor[j].id + 1]]
      BY <2>2 DEF RecreateProject
    <3> QED BY <1>0, <3>1 DEF TypeOK
  <2> QED BY <2>1, <2>2
<1>3. \A o \in Objects : \A n : <<o, n>> # <<Env, 0>>
  BY ConstantsAssumption
<1>4. ASSUME NEW o \in Objects, NEW i \in Instances, AppliedAt(o, i)
      PROVE  AppliedAt(o, i)'
  BY <1>1, <1>2, <1>3, <1>4 DEF AppliedAt, Exists, Ready
<1>5. harbor'[target] = harbor[target] \/ HeldOK'
  <2> SUFFICES ASSUME harbor'[target].writer = <<Env, 0>> PROVE HeldOK'
    BY <1>0, <1>2
  <2>1. UNCHANGED <<cur, mem, target>> /\ cur \in Objects
    BY <1>0, <1>1 DEF localVars, TypeOK
  <2>2. harbor'[target'].writer # Me'
    BY <1>3, <2>1 DEF Me
  <2> QED BY <2>2 DEF HeldOK
<1> QED BY <1>1, <1>4, <1>5, OthersApplied

LEMMA LoadResourceApplied ==
  ASSUME IInv, AppliedInv, NEW o \in Objects, LoadResource(o) PROVE AppliedInv'
<1>1. UNCHANGED <<kind, cr, lastInc, watch, cache, harbor, conn>>
  BY DEF LoadResource, apiVars, worldVars
<1>2. CASE UNCHANGED localVars
  BY <1>1, <1>2, QuietApplied
<1>3. CASE /\ pc' = LoadedPC(cache[o]) /\ cur' = o
           /\ mem' = cache[o] /\ memFresh' = CacheIsCurrent(o)
           /\ UNCHANGED <<target, dirty, err>>
  <2>1. pc' \in {"bind", "mark"}
    BY <1>3 DEF LoadedPC
  <2>2. \A p \in Objects : EventsOf(p)' = EventsOf(p)
    BY <1>1 DEF EventsOf
  <2>3. \A p \in Objects : RecordOK(p)'
    BY <1>1, <2>2 DEF AppliedInv, RecordOK
  <2>4. MemSeenOK'
    BY <1>1, <1>3 DEF AppliedInv, RecordOK, MemSeenOK
  <2>5. FreshSameOK'
    <3> SUFFICES ASSUME CacheIsCurrent(o) PROVE FreshSameOK'
      BY <1>3 DEF FreshSameOK
    <3>1. EventsOf(o) = {}
      BY DEF CacheIsCurrent, EventsOf
    <3>2. cache[o] = cr[o]
      BY <3>1 DEF IInv, ApiOK, LatestOK
    <3>3. EventsOf(cur)' = {}
      BY <1>3, <2>2, <3>1 DEF EventsOf
    <3> QED BY <1>1, <1>3, <3>2, <3>3 DEF FreshSameOK
  <2>6. HeldOK' /\ NoopOK' /\ err' \notin ReadyReasons
    BY <1>3, <2>1 DEF HeldOK, NoopOK, AppliedInv
  <2>7. ReadyMeansApplied'
    BY <1>1 DEF AppliedInv, ByHash, ReadyMeansApplied, Exists, Ready
  <2> QED BY <2>3, <2>4, <2>5, <2>6, <2>7 DEF AppliedInv
<1> QED BY <1>2, <1>3 DEF LoadResource

LEMMA CrashApplied == ASSUME IInv, AppliedInv, Crash PROVE AppliedInv'
<1>1. /\ UNCHANGED <<kind, cr, harbor, conn>> /\ cache' = cr /\ watch' = <<>>
      /\ ForgetLocals
  BY DEF Crash
<1>2. \A p \in Objects : EventsOf(p)' = {}
  BY <1>1 DEF EventsOf
<1>3. \A p \in Objects : SeenOK(cr[p], cr[p])
  BY SeenItself DEF AppliedInv, RecordOK, IInv, TypeOK
<1>4. \A p \in Objects : RecordOK(p)'
  BY <1>1, <1>2, <1>3 DEF AppliedInv, RecordOK
<1>5. MemSeenOK' /\ FreshSameOK' /\ HeldOK' /\ NoopOK' /\ err' \notin ReadyReasons
  BY <1>1, ForgottenEnd DEF ForgetLocals, MemSeenOK, FreshSameOK
<1>6. ReadyMeansApplied'
  BY <1>1 DEF AppliedInv, ByHash, ReadyMeansApplied, Exists, Ready
<1> QED BY <1>4, <1>5, <1>6 DEF AppliedInv

LEMMA DeliverApplied == ASSUME IInv, AppliedInv, Deliver PROVE AppliedInv'
<1>0. TypeOK
  BY DEF IInv
<1>1. UNCHANGED <<kind, cr, harbor, conn, pc, cur, mem, memFresh, target, err>>
  BY DEF Deliver, localVars, worldVars
<1>2. PICK o \in Objects :
        /\ 1 \in EventsOf(o)
        /\ cache'[o] = watch[1][2] /\ \A p \in Objects \ {o} : cache'[p] = cache[p]
        /\ \A p \in Objects, i \in Nat :
             i \in EventsOf(p)' <=> i + 1 \in EventsOf(p) /\ i # 0
        /\ \A p \in Objects : \A i \in EventsOf(p)' :
             i \in Nat /\ watch'[i] = watch[i + 1]
  BY <1>0, DeliverStep
<1>3. \A p \in Objects : \A i \in EventsOf(p)' :
        i + 1 \in EventsOf(p) /\ watch'[i] = watch[i + 1]
  BY <1>2
<1>4. ASSUME NEW p \in Objects PROVE RecordOK(p)'
  <2>1. RecordOK(p)
    BY DEF AppliedInv
  <2>2. SeenOK(cache'[p], cr[p])
    BY <1>2, <2>1 DEF RecordOK
  <2>3. \A i \in EventsOf(p)' : SeenOK(watch'[i][2], cr[p])
    BY <1>3, <2>1 DEF RecordOK
  <2> QED BY <1>1, <2>1, <2>2, <2>3 DEF RecordOK
<1>5. FreshSameOK'
  <2> SUFFICES ASSUME memFresh PROVE FreshSameOK'
    BY <1>1 DEF FreshSameOK
  <2>1. PICK q \in Objects : q = cur
    BY DEF IInv, TypeOK
  <2>2. cache[q].gen = mem.gen /\ \A i \in EventsOf(q) : watch[i][2].gen = mem.gen
    BY <2>1 DEF AppliedInv, FreshSameOK, EventsOf
  <2>3. cache'[q].gen = mem.gen
    BY <1>2, <2>2
  <2>4. \A i \in EventsOf(q)' : watch'[i][2].gen = mem.gen
    BY <1>3, <2>2
  <2>5. q = cur' /\ EventsOf(cur)' = EventsOf(q)'
    BY <1>1, <2>1 DEF EventsOf
  <2> QED BY <1>1, <2>1, <2>3, <2>4, <2>5 DEF AppliedInv, FreshSameOK
<1>6. MemSeenOK' /\ HeldOK' /\ NoopOK' /\ err' \notin ReadyReasons
  BY <1>1 DEF AppliedInv, MemSeenOK, HeldOK, NoopOK, ByHash, Me
<1>7. ReadyMeansApplied'
  BY <1>1 DEF AppliedInv, ByHash, ReadyMeansApplied, Exists, Ready
<1> QED BY <1>4, <1>5, <1>6, <1>7 DEF AppliedInv

-----------------------------------------------------------------------------
(* What Ready says of Harbor: users *)

\* What a user makes of a resource is not Ready, and of a generation of its own.
UserSpec(o, rec) ==
  /\ \A c \in Resource : KnownCopy(o, c) /\ SeenOK(c, cr[o]) => SeenOK(c, rec)
  /\ rec.obsGen <= rec.gen
  /\ rec.reason \in ReadyReasons => rec.bound # 0
  /\ rec.inc = 0 \/ rec.obsGen # rec.gen \/ rec.reason \notin ReadyReasons

LEMMA UserWritesApplied ==
  ASSUME IInv, AppliedInv, NEW o \in Objects, NEW rec \in Resource, UserWrites(o, rec),
         UserSpec(o, rec)
  PROVE  AppliedInv'
<1>0. TypeOK /\ ApiOK /\ \A p \in Objects : RecordOK(p)
  BY DEF IInv, AppliedInv
<1>1. /\ UNCHANGED <<kind, cache, pc, cur, mem, target, err, harbor, conn>>
      /\ memFresh' = (memFresh /\ cur # o) /\ Store(o, rec)
  BY DEF UserWrites, worldVars
<1>2. cr'[o] = rec /\ \A p \in Objects \ {o} : cr'[p] = cr[p]
  BY <1>0, <1>1 DEF Store, TypeOK
<1>3. \A p \in Objects : RecordOK(p)'
  <2>1. SeenOK(cache[o], rec)
    BY <1>0 DEF ApiOK, CopiesOK, TypeOK, RecordOK, UserSpec
  <2>2. \A i \in EventsOf(o) : SeenOK(watch[i][2], rec)
    <3>1. \A i \in EventsOf(o) : KnownCopy(o, watch[i][2]) /\ watch[i][2] \in Resource
      BY <1>0, EventTypes DEF ApiOK, CopiesOK, EventsOf
    <3> QED BY <1>0, <3>1 DEF RecordOK, UserSpec
  <2> QED BY <1>0, <1>1, <2>1, <2>2, StoredSeen DEF UserSpec
<1>4. MemSeenOK'
  <2> SUFFICES ASSUME pc # "idle" PROVE SeenOK(mem, cr'[cur])
    BY <1>1 DEF MemSeenOK
  <2>1. mem \in Resource /\ cur \in Objects /\ KnownCopy(cur, mem) /\ SeenOK(mem, cr[cur])
    BY MemFacts DEF AppliedInv, MemSeenOK
  <2> QED BY <1>2, <2>1 DEF UserSpec
<1>5. FreshSameOK'
  <2> SUFFICES ASSUME memFresh, cur # o PROVE FreshSameOK'
    BY <1>1 DEF FreshSameOK
  <2>1. cur \in Objects /\ FreshSameOK
    BY FreshFacts DEF AppliedInv
  <2>2. EventsOf(cur)' = EventsOf(cur) /\ \A i \in EventsOf(cur) : watch'[i] = watch[i]
    <3>1. /\ \A p \in Objects \ {o} : EventsOf(p)' = EventsOf(p)
          /\ \A p \in Objects : \A i \in EventsOf(p) : watch'[i] = watch[i]
      BY <1>0, <1>1, AppendedEvents
    <3> QED BY <1>1, <2>1, <3>1 DEF EventsOf
  <2> QED BY <1>1, <1>2, <2>1, <2>2 DEF FreshSameOK
<1>6. HeldOK' /\ NoopOK' /\ err' \notin ReadyReasons
  BY <1>1 DEF AppliedInv, HeldOK, NoopOK, ByHash, Me
<1>7. ReadyMeansApplied'
  <2> SUFFICES ASSUME ~ByHash', NEW p \in Objects, NEW i \in Instances
               PROVE  AppliedAt(p, i)'
    BY DEF ReadyMeansApplied, AppliedAt
  <2>1. AppliedAt(p, i)
    BY <1>1, AppliedParts DEF AppliedInv, ByHash
  <2>2. CASE p = o
    BY <1>2, <2>2 DEF UserSpec, AppliedAt, Exists, Ready
  <2>3. CASE p # o
    BY <1>1, <1>2, <2>1, <2>3, SameApplied
  <2> QED BY <2>2, <2>3
<1> QED BY <1>3, <1>4, <1>5, <1>6, <1>7 DEF AppliedInv

LEMMA UserCreateApplied ==
  ASSUME IInv, AppliedInv, NEW o \in Objects, UserCreate(o) PROVE AppliedInv'
<1>0. TypeOK
  BY DEF IInv
<1>1. PICK d \in Payloads : UserWrites(o, NewResource(o, d))
  BY DEF UserCreate, NewResource
<1> DEFINE rec == NewResource(o, d)
<1>2. rec \in Resource /\ rec.inc = lastInc[o] + 1
  BY <1>0, PayloadTypes, NewResourceType
<1>3. rec.obsGen = NoResource.obsGen /\ rec.reason = NoResource.reason
  BY NoResourceType DEF NewResource, Resource
<1>4. UserWrites(o, rec)
  BY <1>1
<1> HIDE DEF rec
<1>5. rec.obsGen = 0 /\ rec.reason \notin ReadyReasons /\ rec.obsGen <= rec.gen
  BY <1>2, <1>3, NoResourceSeen DEF Resource
<1>6. ASSUME NEW c \in Resource, KnownCopy(o, c) PROVE SeenOK(c, rec)
  <2>1. c.inc # 0 => c.inc <= lastInc[o]
    BY <1>6 DEF KnownCopy, CopyOK
  <2>2. c.inc \in Nat /\ lastInc[o] \in Nat
    BY <1>0 DEF Resource, TypeOK
  <2>3. c.inc # 0 => c.inc # rec.inc
    BY <1>2, <2>1, <2>2
  <2> QED BY <1>5, <2>3 DEF SeenOK
<1>7. UserSpec(o, rec)
  BY <1>5, <1>6 DEF UserSpec
<1> QED BY <1>2, <1>4, <1>7, UserWritesApplied

\* A new generation of o, with whatever payload.
LEMMA NextGeneration ==
  ASSUME IInv, AppliedInv, NEW o \in Objects, NEW rec \in Resource,
         rec.inc = cr[o].inc, rec.gen = cr[o].gen + 1, rec.obsGen = cr[o].obsGen,
         rec.reason = cr[o].reason, rec.bound = cr[o].bound
  PROVE  UserSpec(o, rec)
<1>1. cr[o] \in Resource
  BY DEF IInv, TypeOK
<1>2. cr[o].gen \in Nat /\ cr[o].obsGen \in Nat
  BY <1>1 DEF Resource
<1>3. cr[o].obsGen <= cr[o].gen /\ (cr[o].reason \in ReadyReasons => cr[o].bound # 0)
  BY DEF AppliedInv, RecordOK
<1>4. rec.obsGen <= rec.gen /\ rec.obsGen # rec.gen
  BY <1>2, <1>3
<1>5. ASSUME NEW c \in Resource, SeenOK(c, cr[o]) PROVE SeenOK(c, rec)
  <2>1. c.gen \in Nat
    BY DEF Resource
  <2>2. c.inc # 0 /\ c.inc = rec.inc => c.gen <= cr[o].gen
    BY <1>5 DEF SeenOK
  <2>3. c.inc # 0 /\ c.inc = rec.inc => c.gen <= rec.gen /\ c.gen # rec.gen
    BY <1>2, <2>1, <2>2
  <2> QED BY <1>5, <2>3 DEF SeenOK
<1> QED BY <1>3, <1>4, <1>5 DEF UserSpec

LEMMA UserEditApplied ==
  ASSUME IInv, AppliedInv, NEW o \in Objects, UserEdit(o) PROVE AppliedInv'
<1>1. PICK d \in Payloads : UserWrites(o, [cr[o] EXCEPT !.gen = @ + 1, !.data = d])
  BY DEF UserEdit
<1> DEFINE rec == [cr[o] EXCEPT !.gen = @ + 1, !.data = d]
<1>2. cr[o] \in Resource
  BY DEF IInv, TypeOK
<1>3. rec \in Resource
  BY <1>2, PayloadTypes, EditedType
<1>4. /\ rec.inc = cr[o].inc /\ rec.gen = cr[o].gen + 1 /\ rec.obsGen = cr[o].obsGen
      /\ rec.reason = cr[o].reason /\ rec.bound = cr[o].bound
  BY <1>2 DEF Resource
<1>5. UserWrites(o, rec)
  BY <1>1
<1> HIDE DEF rec
<1> QED BY <1>3, <1>4, <1>5, NextGeneration, UserWritesApplied

LEMMA UserDeleteApplied ==
  ASSUME IInv, AppliedInv, NEW o \in Objects, UserDelete(o) PROVE AppliedInv'
<1>1. cr[o] \in Resource
  BY DEF IInv, TypeOK
<1>2. UserWrites(o, Deleted(cr[o])) /\ Deleted(cr[o]) \in Resource
  BY <1>1, DeletedType DEF UserDelete, Deleted
<1>3. CASE cr[o].fin
  <2>1. /\ Deleted(cr[o]).inc = cr[o].inc /\ Deleted(cr[o]).gen = cr[o].gen + 1
        /\ Deleted(cr[o]).obsGen = cr[o].obsGen /\ Deleted(cr[o]).reason = cr[o].reason
        /\ Deleted(cr[o]).bound = cr[o].bound
    BY <1>1, <1>3 DEF Deleted, Resource
  <2> QED BY <1>2, <2>1, NextGeneration, UserWritesApplied
<1>4. CASE ~cr[o].fin
  <2>1. Deleted(cr[o]) = NoResource
    BY <1>4 DEF Deleted
  <2>2. UserSpec(o, NoResource)
    BY NoResourceSeen DEF UserSpec
  <2> QED BY <1>2, <2>1, <2>2, UserWritesApplied
<1> QED BY <1>3, <1>4

-----------------------------------------------------------------------------
(* What Ready says of Harbor: the theorem *)

LEMMA InitApplied == Init => AppliedInv
<1> SUFFICES ASSUME Init PROVE AppliedInv
  OBVIOUS
<1>1. \A o \in Objects : EventsOf(o) = {}
  <2>1. watch = <<>>
    BY DEF Init
  <2> QED BY <2>1 DEF EventsOf
<1>2. \A o \in Objects : cr[o] = NoResource /\ cache[o] = NoResource
  BY DEF Init
<1>3. NoResource.obsGen <= NoResource.gen
  BY NoResourceSeen
<1>4. \A o \in Objects : RecordOK(o)
  BY <1>1, <1>2, <1>3, NoResourceSeen DEF RecordOK
<1>5. MemSeenOK /\ FreshSameOK /\ HeldOK /\ NoopOK /\ err \notin ReadyReasons
  BY NoReady DEF Init, MemSeenOK, FreshSameOK, HeldOK, NoopOK
<1>6. ReadyMeansApplied
  BY <1>2, NoResourceSeen DEF ReadyMeansApplied, Exists
<1> QED BY <1>4, <1>5, <1>6 DEF AppliedInv

LEMMA NextApplied == ASSUME IInv, AppliedInv, [Next]_vars PROVE AppliedInv'
<1>1. CASE UNCHANGED vars
  BY <1>1, QuietApplied DEF vars, apiVars, workerVars, worldVars
<1>2. CASE \/ \E o \in Objects : DriftTimer(o)
           \/ LoseSecret \/ RestoreSecret \/ BreakSettings \/ RepairSettings \/ Tick
  <2>1. UNCHANGED <<kind, cr, watch, cache, localVars, harbor, conn>>
    BY <1>2 DEF DriftTimer, LoseSecret, RestoreSecret, BreakSettings, RepairSettings,
                Tick, apiVars, workerVars, worldVars
  <2> QED BY <2>1, QuietApplied
<1>3. CASE Next
  BY <1>2, <1>3, ReconcileApplied, LoadResourceApplied, DeliverApplied, CrashApplied,
     UserCreateApplied, UserEditApplied, UserDeleteApplied, ConnectionApplied,
     ForeignApplied DEF Next
<1> QED BY <1>1, <1>3

\* A resource that is Ready for its current generation, and was the last to write
\* the setting of its instance, has the setting that it asks for, whatever crashed,
\* failed or was edited on the way: for the kinds that read Harbor before they
\* decide (Configuration, ScanAllSchedule and Quota; setReadyStatus, markReady).
THEOREM ReadyIsApplied == Spec => []ReadyMeansApplied
<1>1. Init => IInv /\ AppliedInv
  BY InitInv, InitApplied
<1>2. IInv /\ AppliedInv /\ [Next]_vars => (IInv /\ AppliedInv)'
  BY NextInv, NextApplied
<1>3. IInv /\ AppliedInv => ReadyMeansApplied
  BY DEF AppliedInv
<1> QED BY <1>1, <1>2, <1>3, PTL DEF Spec

=============================================================================
