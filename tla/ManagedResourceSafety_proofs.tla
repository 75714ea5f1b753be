-------------------- MODULE ManagedResourceSafety_proofs --------------------
(***************************************************************************)
(* Proofs, for every set of resources, kind, policy, payload and bound, of *)
(* the two action properties of ManagedResource that say when the operator *)
(* may touch Harbor (GuardedMutation) and when it may let go of a resource *)
(* (CleanedBeforeFinalized).                                               *)
(*                                                                         *)
(* Both rest on one inductive invariant, IInv: how an old copy of a        *)
(* resource compares with what the API server holds.  Its parts are        *)
(* constant operators that take the state as parameters, so that the facts *)
(* about them are stated without primes; every reconcile step is first     *)
(* shown to have one of four shapes (ReconcileShape), and the invariant is *)
(* then proved once per shape.                                             *)
(***************************************************************************)
EXTENDS ManagedResource_proofs

-----------------------------------------------------------------------------
(* The inductive invariant *)

HeldPCs == {"refs", "list", "adopted", "create", "lookup", "created", "get",
            "notFound", "update", "ready"}

\* The object that copy c records is not among hb.
DeadIn(hb, c) == \A x \in hb : ~(x.at = c.bound /\ x.id = c.id)

\* What position p of the worker says about its copy c.
PositionOK(p, c, hb) ==
  /\ (p = "idle") <=> (c.inc = 0)
  /\ p \notin {"idle", "mark", "bind"} => c.bound # 0
  /\ p = "finalizer" => ~c.deleting
  /\ p \in HeldPCs => c.fin /\ ~c.deleting
  /\ p \in {"finalize", "unfinalize"} => c.deleting
  /\ p = "unfinalize" => DeadIn(hb, c)

\* The id copy c records was given out by the Harbor instance it is bound to.
IdKnown(c, ids) == c.id # 0 => c.bound # 0 /\ c.id <= ids[c.bound]

\* A copy c compared with the resource r the API server holds under its name, n
\* being the last incarnation of that name.  Of the same incarnation, the copy is
\* no further in its life.  Of an earlier one, the copy held no finalizer or was
\* being deleted, and what it would delete in Harbor is gone.
CopyOK(c, r, n, hb, ids) ==
  c.inc # 0 =>
    /\ c.inc <= n
    /\ IdKnown(c, ids) /\ (c.id # 0 => c.fin)
    /\ c.inc = r.inc =>
         /\ c.fin => r.fin
         /\ c.bound # 0 => r.bound = c.bound
         /\ c.deleting => r.deleting
    /\ c.inc # r.inc =>
         /\ c.fin => c.deleting
         /\ c.deleting /\ c.deletionPolicy = "Delete" /\ c.id # 0 => DeadIn(hb, c)

\* A deletion the worker's copy c knows of, the cached copy k knows of.
MemCacheOK(c, k) == c.inc # 0 /\ c.deleting /\ k.inc = c.inc => k.deleting

\* The worker's copy c, if of the current version, agrees with the API server's r
\* in all but an id not yet written, and with the cached k in all but what the
\* worker wrote since.
MemFreshOK(fresh, c, r, k) ==
  fresh =>
    /\ c.inc # 0
    /\ r.inc = c.inc /\ r.fin = c.fin /\ r.bound = c.bound
    /\ r.deleting = c.deleting /\ r.deletionPolicy = c.deletionPolicy
    /\ k.inc = c.inc /\ k.deletionPolicy = c.deletionPolicy
    /\ c.deleting => r.id = c.id /\ k.id = c.id

IdOK(hb, ids) == \A x \in hb : x.id <= ids[x.at]

IInv ==
  /\ TypeOK
  /\ PositionOK(pc, mem, harbor)
  /\ \A o \in Objects : CopyOK(cr[o], cr[o], lastInc[o], harbor, lastId)
  /\ \A o \in Objects : CopyOK(cache[o], cr[o], lastInc[o], harbor, lastId)
  /\ CopyOK(mem, cr[cur], lastInc[cur], harbor, lastId)
  /\ \A o \in Objects : cacheFresh[o] => cache[o] = cr[o]
  /\ MemCacheOK(mem, cache[cur])
  /\ MemFreshOK(memFresh, mem, cr[cur], cache[cur])
  /\ IdOK(harbor, lastId)

LEMMA IInvType == IInv => TypeInv
BY DEF IInv, TypeInv, PositionOK

-----------------------------------------------------------------------------
(* Facts about copies *)

\* Harbor goes from hb to hb2: what is new there has a new id.
HarborMoves(hb, ids, hb2, ids2) ==
  /\ \A x \in hb2 : \/ \E y \in hb : y.at = x.at /\ y.id = x.id
                    \/ x.id > ids[x.at]
  /\ \A u \in 1..MaxUid : ids[u] <= ids2[u]

LEMMA NoCopy ==
  ASSUME NEW r, NEW n, NEW hb, NEW ids
  PROVE  CopyOK(NoResource, r, n, hb, ids)
BY NoResourceType DEF CopyOK

LEMMA DeadStays ==
  ASSUME NEW c \in Resource, NEW hb, NEW ids \in [1..MaxUid -> Nat], NEW hb2, NEW ids2,
         HarborMoves(hb, ids, hb2, ids2), DeadIn(hb, c), hb2 \subseteq HarborObject,
         IdKnown(c, ids)
  PROVE  DeadIn(hb2, c)
<1> SUFFICES ASSUME NEW x \in hb2, x.at = c.bound, x.id = c.id PROVE FALSE
  BY DEF DeadIn
<1>1. x.at \in 1..MaxUid /\ x.id \in Nat /\ ids[x.at] \in Nat
  BY DEF HarborObject
<1>2. ~(x.id > ids[x.at])
  BY <1>1 DEF IdKnown
<1> QED BY <1>2 DEF HarborMoves, DeadIn

LEMMA CopyHarborMoves ==
  ASSUME NEW c \in Resource, NEW r, NEW n,
         NEW hb, NEW ids \in [1..MaxUid -> Nat],
         NEW hb2, NEW ids2 \in [1..MaxUid -> Nat],
         HarborMoves(hb, ids, hb2, ids2), hb2 \subseteq HarborObject,
         CopyOK(c, r, n, hb, ids)
  PROVE  CopyOK(c, r, n, hb2, ids2)
<1>1. ASSUME c.inc # 0 PROVE IdKnown(c, ids2)
  <2> SUFFICES ASSUME c.id # 0 PROVE c.bound # 0 /\ c.id <= ids2[c.bound]
    BY DEF IdKnown
  <2>1. c.bound \in 0..MaxUid /\ c.id \in Nat
    BY DEF Resource
  <2>2. c.bound # 0 /\ c.id <= ids[c.bound]
    BY <1>1 DEF CopyOK, IdKnown
  <2>3. c.bound \in 1..MaxUid
    BY <2>1, <2>2, BoundsAssumption
  <2>4. ids[c.bound] <= ids2[c.bound] /\ ids[c.bound] \in Nat /\ ids2[c.bound] \in Nat
    BY <2>3 DEF HarborMoves
  <2> QED BY <2>1, <2>2, <2>4
<1>2. ASSUME c.inc # 0, DeadIn(hb, c) PROVE DeadIn(hb2, c)
  <2>1. IdKnown(c, ids)
    BY <1>2 DEF CopyOK
  <2> QED BY <1>2, <2>1, DeadStays
<1> QED BY <1>1, <1>2 DEF CopyOK

\* The API server's resource goes on in its life.
LEMMA CopyServerAdvances ==
  ASSUME NEW c, NEW r, NEW r2, NEW n, NEW hb, NEW ids, CopyOK(c, r, n, hb, ids),
         r2.inc = r.inc, r.fin => r2.fin, r.bound # 0 => r2.bound = r.bound,
         r.deleting => r2.deleting
  PROVE  CopyOK(c, r2, n, hb, ids)
BY DEF CopyOK

\* The API server's resource goes away.
LEMMA CopyServerRemoves ==
  ASSUME NEW c, NEW r, NEW r2, NEW n, NEW hb, NEW ids, CopyOK(c, r, n, hb, ids),
         r2.inc = 0,
         c.inc # 0 /\ c.inc = r.inc =>
           /\ c.fin => c.deleting
           /\ c.deleting /\ c.deletionPolicy = "Delete" /\ c.id # 0 => DeadIn(hb, c)
  PROVE  CopyOK(c, r2, n, hb, ids)
BY DEF CopyOK

\* A new resource takes the name.
LEMMA CopyServerCreates ==
  ASSUME NEW c \in Resource, NEW r, NEW r2, NEW n \in Nat, NEW hb, NEW ids,
         CopyOK(c, r, n, hb, ids), r.inc = 0, r2.inc = n + 1
  PROVE  CopyOK(c, r2, n + 1, hb, ids)
<1>1. c.inc \in Nat
  BY DEF Resource
<1> QED BY <1>1 DEF CopyOK

LEMMA HarborStays ==
  ASSUME NEW hb, NEW ids \in [1..MaxUid -> Nat]
  PROVE  HarborMoves(hb, ids, hb, ids)
BY DEF HarborMoves

-----------------------------------------------------------------------------
(* The shapes of a reconcile step *)

Ended == pc' = "idle" /\ mem' = NoResource /\ memFresh' = FALSE

\* The worker's copy d has all of c but perhaps the id, which only a worker that
\* holds the finalizer of a live resource changes.
SameBut(c, d) ==
  /\ d.inc = c.inc /\ d.fin = c.fin /\ d.bound = c.bound
  /\ d.deleting = c.deleting /\ d.deletionPolicy = c.deletionPolicy
  /\ d.id = c.id \/ (c.fin /\ ~c.deleting)

\* What the worker may write in place of c: the finalizer and the connection are
\* only ever added.
Writes(c, d) ==
  /\ d.inc = c.inc /\ d.deleting = c.deleting /\ d.deletionPolicy = c.deletionPolicy
  /\ d.id = c.id
  /\ c.fin => d.fin
  /\ c.bound # 0 => d.bound = c.bound

\* Nothing is left to delete in Harbor for copy c.
LetGo(c, hb) == c.deletionPolicy = "Orphan" \/ c.id = 0 \/ DeadIn(hb, c)

StepEnded == UNCHANGED <<cr, cacheFresh>> /\ Ended

StepMoved ==
  /\ UNCHANGED <<cr, cacheFresh, memFresh>>
  /\ mem.inc # 0 /\ SameBut(mem, mem') /\ IdKnown(mem', lastId')
  /\ PositionOK(pc', mem', harbor')

StepWrote ==
  /\ Accepted /\ mem.inc # 0
  /\ \E rec \in Resource :
       /\ Store(rec) /\ Writes(mem, rec)
       /\ \/ Ended
          \/ mem' = rec /\ UNCHANGED memFresh /\ PositionOK(pc', rec, harbor')

StepRemoved ==
  /\ Accepted /\ Store(NoResource) /\ Ended
  /\ mem.deleting /\ LetGo(mem, harbor)
  /\ UNCHANGED harbor

WorkerStep ==
  /\ UNCHANGED <<cur, cache, lastInc>>
  /\ HarborMoves(harbor, lastId, harbor', lastId') /\ IdOK(harbor', lastId')
  /\ StepEnded \/ StepMoved \/ StepWrote \/ StepRemoved

\* A step that leaves Harbor alone.
Quiet == UNCHANGED <<lastInc, cache, harbor, lastId>>

HarborOK == HarborMoves(harbor, lastId, harbor', lastId') /\ IdOK(harbor', lastId')

LEMMA QuietHarbor == ASSUME IInv, Quiet PROVE HarborOK
BY HarborStays DEF HarborOK, IInv, TypeOK, Quiet

LEMMA ReturnShape ==
  ASSUME NEW r, NEW d, Return(r, d), UNCHANGED <<cr, cacheFresh, cache, lastInc>>, HarborOK
  PROVE  WorkerStep
BY DEF Return, WorkerStep, StepEnded, Ended, HarborOK

LEMMA GotoShape ==
  ASSUME NEW p, NEW rec, Goto(p, rec), UNCHANGED <<cr, cacheFresh, cache, lastInc>>,
         HarborOK, mem.inc # 0, SameBut(mem, rec), IdKnown(rec, lastId'),
         PositionOK(p, rec, harbor')
  PROVE  WorkerStep
BY DEF Goto, WorkerStep, StepMoved, HarborOK

LEMMA SameCopy ==
  ASSUME IInv, mem.inc # 0, lastId' \in [1..MaxUid -> Nat], harbor' \subseteq HarborObject,
         HarborOK
  PROVE  SameBut(mem, mem) /\ IdKnown(mem, lastId')
<1>1. CopyOK(mem, cr[cur], lastInc[cur], harbor', lastId')
  <2>1. CopyOK(mem, cr[cur], lastInc[cur], harbor, lastId) /\ mem \in Resource
        /\ lastId \in [1..MaxUid -> Nat]
    BY DEF IInv, TypeOK
  <2> QED BY <2>1, CopyHarborMoves DEF HarborOK
<1> QED BY <1>1 DEF CopyOK, SameBut

LEMMA CallFailedShape ==
  ASSUME IInv, NEW reason, CallFailed(reason), UNCHANGED <<cr, cacheFresh, cache, lastInc>>,
         HarborOK, mem.inc # 0, mem.bound # 0,
         lastId' \in [1..MaxUid -> Nat], harbor' \subseteq HarborObject
  PROVE  WorkerStep
<1>1. SameBut(mem, mem) /\ IdKnown(mem, lastId')
  BY SameCopy
<1>2. PositionOK("error", mem, harbor')
  BY DEF PositionOK, HeldPCs
<1> QED BY <1>1, <1>2 DEF CallFailed, WorkerStep, StepMoved, HarborOK

LEMMA RefusedShape ==
  ASSUME IInv, Refused, Quiet
  PROVE  WorkerStep
BY QuietHarbor, ReturnShape DEF Refused, Quiet

LEMMA PersistShape ==
  ASSUME IInv, NEW p, NEW rec \in Resource, Persist(rec, p), Quiet, mem.inc # 0,
         Writes(mem, rec), PositionOK(p, rec, harbor)
  PROVE  WorkerStep
<1>1. CASE Accepted /\ Store(rec) /\ Goto(p, rec)
  BY <1>1, QuietHarbor DEF Goto, WorkerStep, StepWrote, HarborOK, Quiet
<1>2. CASE Refused
  BY <1>2, RefusedShape
<1> QED BY <1>1, <1>2 DEF Persist

LEMMA PersistAndReturnShape ==
  ASSUME IInv, NEW r, NEW d, NEW rec \in Resource, PersistAndReturn(rec, r, d), Quiet,
         mem.inc # 0, Writes(mem, rec)
  PROVE  WorkerStep
<1>1. CASE Accepted /\ Store(rec) /\ Return(r, d)
  BY <1>1, QuietHarbor DEF Return, WorkerStep, StepWrote, Ended, HarborOK, Quiet
<1>2. CASE Refused
  BY <1>2, RefusedShape
<1> QED BY <1>1, <1>2 DEF PersistAndReturn

LEMMA MarkedWrites ==
  ASSUME NEW rec \in Resource, NEW reason
  PROVE  Writes(rec, Marked(rec, reason))
BY DEF Marked, Writes, Resource

LEMMA SetStatusShape ==
  ASSUME IInv, NEW reason \in Reasons, NEW r, NEW d, SetStatusAndReturn(reason, r, d),
         Quiet, mem.inc # 0
  PROVE  WorkerStep
<1>1. mem \in Resource
  BY DEF IInv, TypeOK
<1>2. CASE PersistAndReturn(Marked(mem, reason), r, d)
  BY <1>1, <1>2, MarkedType, MarkedWrites, PersistAndReturnShape
<1>3. CASE Return(r, d) /\ UNCHANGED <<cr, cacheFresh>>
  BY <1>3, QuietHarbor, ReturnShape DEF Quiet
<1> QED BY <1>2, <1>3 DEF SetStatusAndReturn

LEMMA RemoveFinalizerShape ==
  ASSUME IInv, RemoveFinalizer, Quiet, mem.deleting, LetGo(mem, harbor)
  PROVE  WorkerStep
<1>1. CASE PersistAndReturn(NoResource, FALSE, FALSE)
  <2>1. CASE Accepted /\ Store(NoResource) /\ Return(FALSE, FALSE)
    BY <2>1, QuietHarbor DEF Return, WorkerStep, StepRemoved, Ended, HarborOK, Quiet
  <2>2. CASE Refused
    BY <2>2, RefusedShape
  <2> QED BY <1>1, <2>1, <2>2 DEF PersistAndReturn
<1>2. CASE Return(FALSE, FALSE) /\ UNCHANGED <<cr, cacheFresh>>
  BY <1>2, QuietHarbor, ReturnShape DEF Quiet
<1> QED BY <1>1, <1>2 DEF RemoveFinalizer

LEMMA WithoutConnectionShape ==
  ASSUME IInv, NEW reason \in Reasons, NEW nf, WithoutConnection(reason, nf), Quiet,
         mem.inc # 0
  PROVE  WorkerStep
BY RemoveFinalizerShape, SetStatusShape DEF WithoutConnection, Fail, LetGo

-----------------------------------------------------------------------------
(* Every shape keeps the invariant *)

\* The copies of one name, at the API server and in the cache.
NameOK(r, k, fresh, n, hb, ids) ==
  /\ CopyOK(r, r, n, hb, ids)
  /\ CopyOK(k, r, n, hb, ids)
  /\ fresh => k = r

LEMMA NameInv ==
  ASSUME IInv, NEW o \in Objects
  PROVE  /\ NameOK(cr[o], cache[o], cacheFresh[o], lastInc[o], harbor, lastId)
         /\ cr[o] \in Resource /\ cache[o] \in Resource /\ lastInc[o] \in Nat
BY DEF IInv, TypeOK, NameOK

LEMMA NameSuffices ==
  ASSUME TypeOK',
         \A o \in Objects :
           NameOK(cr'[o], cache'[o], cacheFresh'[o], lastInc'[o], harbor', lastId'),
         PositionOK(pc', mem', harbor'),
         CopyOK(mem', cr'[cur'], lastInc'[cur'], harbor', lastId'),
         MemCacheOK(mem', cache'[cur']),
         MemFreshOK(memFresh', mem', cr'[cur'], cache'[cur']),
         IdOK(harbor', lastId')
  PROVE  IInv'
BY DEF IInv, NameOK

LEMMA NameHarborMoves ==
  ASSUME IInv, TypeOK', NEW o \in Objects, HarborMoves(harbor, lastId, harbor', lastId'),
         UNCHANGED <<lastInc, cache>>, cr'[o] = cr[o], cacheFresh'[o] = cacheFresh[o]
  PROVE  NameOK(cr'[o], cache'[o], cacheFresh'[o], lastInc'[o], harbor', lastId')
<1>1. /\ NameOK(cr[o], cache[o], cacheFresh[o], lastInc[o], harbor, lastId)
      /\ cr[o] \in Resource /\ cache[o] \in Resource
  BY NameInv
<1>2. /\ lastId \in [1..MaxUid -> Nat] /\ lastId' \in [1..MaxUid -> Nat]
      /\ harbor' \subseteq HarborObject
  BY DEF IInv, TypeOK
<1>3. /\ CopyOK(cr[o], cr[o], lastInc[o], harbor', lastId')
      /\ CopyOK(cache[o], cr[o], lastInc[o], harbor', lastId')
  BY <1>1, <1>2, CopyHarborMoves DEF NameOK
<1> QED BY <1>1, <1>3 DEF NameOK

\* A worker without a copy.
LEMMA EndedInv ==
  ASSUME NEW p, NEW fresh, NEW c, NEW r, NEW k, NEW n, NEW hb, NEW ids,
         p = "idle", c = NoResource, fresh = FALSE
  PROVE  /\ PositionOK(p, c, hb) /\ CopyOK(c, r, n, hb, ids)
         /\ MemCacheOK(c, k) /\ MemFreshOK(fresh, c, r, k)
BY NoCopy, NoResourceType DEF PositionOK, HeldPCs, MemCacheOK, MemFreshOK

LEMMA StepEndedInv ==
  ASSUME IInv, TypeOK', UNCHANGED <<cur, cache, lastInc>>,
         HarborMoves(harbor, lastId, harbor', lastId'), IdOK(harbor', lastId'),
         StepEnded
  PROVE  IInv'
<1>1. \A o \in Objects :
        NameOK(cr'[o], cache'[o], cacheFresh'[o], lastInc'[o], harbor', lastId')
  BY NameHarborMoves DEF StepEnded
<1> QED BY <1>1, EndedInv, NameSuffices DEF StepEnded, Ended

LEMMA SameButCopy ==
  ASSUME NEW c, NEW d, NEW r, NEW n, NEW hb, NEW ids, CopyOK(c, r, n, hb, ids),
         SameBut(c, d), IdKnown(d, ids)
  PROVE  CopyOK(d, r, n, hb, ids)
BY DEF CopyOK, SameBut, DeadIn

LEMMA StepMovedInv ==
  ASSUME IInv, TypeOK', UNCHANGED <<cur, cache, lastInc>>,
         HarborMoves(harbor, lastId, harbor', lastId'), IdOK(harbor', lastId'),
         StepMoved
  PROVE  IInv'
<1>1. \A o \in Objects :
        NameOK(cr'[o], cache'[o], cacheFresh'[o], lastInc'[o], harbor', lastId')
  BY NameHarborMoves DEF StepMoved
<1>2. CopyOK(mem, cr[cur], lastInc[cur], harbor', lastId')
  <2>1. /\ CopyOK(mem, cr[cur], lastInc[cur], harbor, lastId) /\ mem \in Resource
        /\ lastId \in [1..MaxUid -> Nat] /\ lastId' \in [1..MaxUid -> Nat]
        /\ harbor' \subseteq HarborObject
    BY DEF IInv, TypeOK
  <2> QED BY <2>1, CopyHarborMoves
<1>3. CopyOK(mem', cr'[cur'], lastInc'[cur'], harbor', lastId')
  BY <1>2, SameButCopy DEF StepMoved
<1>4. MemCacheOK(mem', cache'[cur'])
  BY DEF IInv, MemCacheOK, StepMoved, SameBut
<1>5. MemFreshOK(memFresh', mem', cr'[cur'], cache'[cur'])
  BY DEF IInv, MemFreshOK, StepMoved, SameBut
<1> QED BY <1>1, <1>3, <1>4, <1>5, NameSuffices DEF StepMoved

\* A write of the worker takes effect on the API server's resource.
LEMMA StepWroteInv ==
  ASSUME IInv, TypeOK', UNCHANGED <<cur, cache, lastInc>>,
         HarborMoves(harbor, lastId, harbor', lastId'), IdOK(harbor', lastId'),
         StepWrote
  PROVE  IInv'
<1>1. PICK rec \in Resource :
        /\ Store(rec) /\ Writes(mem, rec)
        /\ \/ Ended
           \/ mem' = rec /\ UNCHANGED memFresh /\ PositionOK(pc', rec, harbor')
  BY DEF StepWrote
<1>0. /\ cur \in Objects /\ mem \in Resource /\ memFresh /\ mem.inc # 0
      /\ lastId \in [1..MaxUid -> Nat] /\ lastId' \in [1..MaxUid -> Nat]
      /\ harbor' \subseteq HarborObject /\ cr \in [Objects -> Resource]
      /\ cacheFresh \in [Objects -> BOOLEAN]
  BY DEF IInv, TypeOK, StepWrote, Accepted
<1>2. /\ cr'[cur] = rec /\ cacheFresh'[cur] = FALSE
      /\ \A o \in Objects \ {cur} : cr'[o] = cr[o] /\ cacheFresh'[o] = cacheFresh[o]
  BY <1>0, <1>1 DEF Store
<1>3. /\ cr[cur].inc = mem.inc /\ cr[cur].fin = mem.fin /\ cr[cur].bound = mem.bound
      /\ cr[cur].deleting = mem.deleting
      /\ MemFreshOK(TRUE, mem, cr[cur], cache[cur])
  BY <1>0 DEF IInv, MemFreshOK
<1>4. /\ CopyOK(mem, cr[cur], lastInc[cur], harbor', lastId')
      /\ CopyOK(cache[cur], cr[cur], lastInc[cur], harbor', lastId')
  BY <1>0, NameInv, CopyHarborMoves DEF IInv, NameOK
<1>5. /\ CopyOK(mem, rec, lastInc[cur], harbor', lastId')
      /\ CopyOK(cache[cur], rec, lastInc[cur], harbor', lastId')
  BY <1>1, <1>3, <1>4, CopyServerAdvances DEF Writes
<1>6. CopyOK(rec, rec, lastInc[cur], harbor', lastId')
  BY <1>0, <1>1, <1>5 DEF CopyOK, Writes, IdKnown
<1>7. \A o \in Objects :
        NameOK(cr'[o], cache'[o], cacheFresh'[o], lastInc'[o], harbor', lastId')
  <2> SUFFICES ASSUME NEW o \in Objects
               PROVE NameOK(cr'[o], cache'[o], cacheFresh'[o], lastInc'[o], harbor', lastId')
    OBVIOUS
  <2>1. CASE o = cur
    BY <2>1, <1>2, <1>5, <1>6 DEF NameOK
  <2>2. CASE o # cur
    BY <2>2, <1>2, NameHarborMoves
  <2> QED BY <2>1, <2>2
<1>8. CASE Ended
  BY <1>7, <1>8, EndedInv, NameSuffices DEF Ended
<1>9. CASE mem' = rec /\ UNCHANGED memFresh /\ PositionOK(pc', rec, harbor')
  <2>1. CopyOK(mem', cr'[cur'], lastInc'[cur'], harbor', lastId')
    BY <1>9, <1>2, <1>6
  <2>2. MemCacheOK(mem', cache'[cur'])
    BY <1>1, <1>9 DEF IInv, MemCacheOK, Writes
  <2>3. MemFreshOK(memFresh', mem', cr'[cur'], cache'[cur'])
    BY <1>0, <1>1, <1>2, <1>3, <1>9 DEF MemFreshOK, Writes
  <2> QED BY <1>7, <1>9, <2>1, <2>2, <2>3, NameSuffices
<1> QED BY <1>1, <1>8, <1>9

\* The finalizer goes and the API server drops the resource: what the cache still
\* holds of it has nothing left in Harbor.
LEMMA StepRemovedInv ==
  ASSUME IInv, TypeOK', UNCHANGED <<cur, cache, lastInc>>,
         HarborMoves(harbor, lastId, harbor', lastId'), IdOK(harbor', lastId'),
         StepRemoved
  PROVE  IInv'
<1>0. /\ cur \in Objects /\ mem \in Resource /\ memFresh
      /\ lastId \in [1..MaxUid -> Nat] /\ lastId' \in [1..MaxUid -> Nat]
      /\ harbor' \subseteq HarborObject /\ cr \in [Objects -> Resource]
      /\ cacheFresh \in [Objects -> BOOLEAN]
  BY DEF IInv, TypeOK, StepRemoved, Accepted
<1>2. /\ cr'[cur] = NoResource /\ cacheFresh'[cur] = FALSE
      /\ \A o \in Objects \ {cur} : cr'[o] = cr[o] /\ cacheFresh'[o] = cacheFresh[o]
  BY <1>0 DEF StepRemoved, Store
<1>3. MemFreshOK(TRUE, mem, cr[cur], cache[cur])
  BY <1>0 DEF IInv, MemFreshOK
<1>4. CopyOK(cache[cur], cr[cur], lastInc[cur], harbor', lastId')
  BY <1>0, NameInv, CopyHarborMoves DEF NameOK
<1>5. CopyOK(cache[cur], NoResource, lastInc[cur], harbor', lastId')
  <2>1. cache[cur].deleting
    BY <1>3 DEF IInv, MemCacheOK, MemFreshOK, StepRemoved
  <2>2. ASSUME cache[cur].deletionPolicy = "Delete", cache[cur].id # 0
        PROVE  DeadIn(harbor', cache[cur])
    <3>1. /\ mem.deletionPolicy = "Delete" /\ mem.id = cache[cur].id
          /\ cr[cur].bound = mem.bound /\ cache[cur].inc = cr[cur].inc
          /\ cache[cur].inc # 0
      BY <1>3, <2>2 DEF MemFreshOK, StepRemoved
    <3>2. cache[cur].bound = mem.bound
      BY <1>4, <3>1, <2>2 DEF CopyOK, IdKnown
    <3>3. DeadIn(harbor', mem)
      BY <3>1, <2>2 DEF StepRemoved, LetGo
    <3> QED BY <3>1, <3>2, <3>3 DEF DeadIn
  <2> QED BY <1>4, <2>1, <2>2, NoResourceType, CopyServerRemoves
<1>7. \A o \in Objects :
        NameOK(cr'[o], cache'[o], cacheFresh'[o], lastInc'[o], harbor', lastId')
  <2> SUFFICES ASSUME NEW o \in Objects
               PROVE NameOK(cr'[o], cache'[o], cacheFresh'[o], lastInc'[o], harbor', lastId')
    OBVIOUS
  <2>1. CASE o = cur
    BY <2>1, <1>2, <1>5, NoCopy DEF NameOK
  <2>2. CASE o # cur
    BY <2>2, <1>2, NameHarborMoves
  <2> QED BY <2>1, <2>2
<1> QED BY <1>7, EndedInv, NameSuffices DEF StepRemoved, Ended

LEMMA WorkerStepInv == ASSUME IInv, TypeOK', WorkerStep PROVE IInv'
BY StepEndedInv, StepMovedInv, StepWroteInv, StepRemovedInv DEF WorkerStep

-----------------------------------------------------------------------------
(* Every reconcile step has one of the shapes *)

LEMMA HeldTargets ==
  ASSUME NEW rec
  PROVE  /\ ApplyPC(rec) \in HeldPCs /\ AcquiredPC(rec) \in HeldPCs
         /\ AcquirePC(rec) \in HeldPCs /\ HeldPC(rec) \in HeldPCs
         /\ ResolvedPC(rec) \in HeldPCs
BY DEF ApplyPC, AcquiredPC, AcquirePC, HeldPC, ResolvedPC, HeldPCs

LEMMA HeldPosition ==
  ASSUME NEW p \in HeldPCs, NEW c, NEW hb, c.inc # 0, c.bound # 0, c.fin, ~c.deleting
  PROVE  PositionOK(p, c, hb)
BY DEF HeldPCs, PositionOK

\* A worker that holds the finalizer goes on without touching Harbor.
LEMMA HeldGoto ==
  ASSUME IInv, pc \in HeldPCs, NEW p \in HeldPCs, Goto(p, mem),
         UNCHANGED <<cr, cacheFresh, cache, lastInc>>, HarborOK,
         lastId' \in [1..MaxUid -> Nat], harbor' \subseteq HarborObject
  PROVE  WorkerStep
<1>1. mem.inc # 0 /\ mem.bound # 0 /\ mem.fin /\ ~mem.deleting
  BY DEF IInv, PositionOK, HeldPCs
<1>2. PositionOK(p, mem, harbor')
  BY <1>1, HeldPosition
<1> QED BY <1>1, <1>2, SameCopy, GotoShape

\* It takes over an id that the Harbor instance gave out.
LEMMA HeldGotoId ==
  ASSUME IInv, pc \in HeldPCs, NEW p \in HeldPCs, NEW i \in Nat,
         Goto(p, [mem EXCEPT !.id = i]), i # 0 => i <= lastId'[mem.bound],
         UNCHANGED <<cr, cacheFresh, cache, lastInc>>, HarborOK
  PROVE  WorkerStep
<1> DEFINE rec == [mem EXCEPT !.id = i]
<1>1. mem.inc # 0 /\ mem.bound # 0 /\ mem.fin /\ ~mem.deleting /\ mem \in Resource
  BY DEF IInv, TypeOK, PositionOK, HeldPCs
<1>2. /\ rec.inc = mem.inc /\ rec.fin = mem.fin /\ rec.bound = mem.bound
      /\ rec.deleting = mem.deleting /\ rec.deletionPolicy = mem.deletionPolicy
      /\ rec.id = i
  BY <1>1 DEF Resource
<1> HIDE DEF rec
<1>3. SameBut(mem, rec) /\ IdKnown(rec, lastId')
  BY <1>1, <1>2 DEF SameBut, IdKnown
<1>4. PositionOK(p, rec, harbor')
  BY <1>1, <1>2, HeldPosition
<1>5. Goto(p, rec)
  BY DEF rec
<1> QED BY <1>1, <1>3, <1>4, <1>5, GotoShape

LEMMA ReconcileShape == ASSUME IInv, TypeOK', Reconcile PROVE WorkerStep
<1>0. /\ mem \in Resource /\ err \in Reasons
      /\ {"HarborError", "Conflict", "NotFound", "Reconciling", "Created",
          "Reconciled", "ConnectionNotFound", "SecretNotFound", "ConnectionChanged",
          "ReferenceError", "CreationDenied"} \subseteq Reasons
      /\ harbor \subseteq HarborObject /\ lastId \in [1..MaxUid -> Nat]
      /\ harbor' \subseteq HarborObject /\ lastId' \in [1..MaxUid -> Nat]
  BY DEF IInv, TypeOK, Reasons, ReadyReasons, NotReadyReasons
<1>1. UNCHANGED <<kind, lastInc, cache, harborVars, worldVars>> => Quiet /\ HarborOK
  BY QuietHarbor DEF Quiet, harborVars
<1>2. pc # "idle" => mem.inc # 0
  BY DEF IInv, PositionOK
<1>3. pc \notin {"idle", "mark", "bind"} => mem.bound # 0
  BY DEF IInv, PositionOK
<1>4. pc \in HeldPCs => mem.fin /\ ~mem.deleting
  BY DEF IInv, PositionOK
<1>5. UNCHANGED <<kind, apiVars>> => UNCHANGED <<cr, cacheFresh, cache, lastInc>>
  BY DEF apiVars
<1>a. CASE MarkReconcilingIfNeeded
  <2>0. mem.inc # 0 /\ Quiet /\ HarborOK
    BY <1>a, <1>1, <1>2 DEF MarkReconcilingIfNeeded
  <2>1. PositionOK("bind", mem, harbor) /\ PositionOK("bind", mem, harbor')
    BY <2>0 DEF PositionOK, HeldPCs
  <2>2. CASE Goto("bind", mem) /\ UNCHANGED <<cr, cacheFresh>>
    BY <2>0, <2>1, <2>2, <1>0, SameCopy, GotoShape DEF Quiet
  <2>3. CASE Persist(Marked(mem, "Reconciling"), "bind")
    <3>1. /\ Marked(mem, "Reconciling") \in Resource
          /\ Writes(mem, Marked(mem, "Reconciling"))
      BY <1>0, MarkedType, MarkedWrites
    <3>2. PositionOK("bind", Marked(mem, "Reconciling"), harbor)
      BY <2>0, <3>1 DEF PositionOK, HeldPCs, Writes
    <3> QED BY <2>0, <2>3, <3>1, <3>2, PersistShape
  <2> QED BY <1>a, <2>2, <2>3 DEF MarkReconcilingIfNeeded
<1>b. CASE GetHarborClientForObject
  <2>0. mem.inc # 0 /\ Quiet /\ HarborOK
    BY <1>b, <1>1, <1>2 DEF GetHarborClientForObject
  <2>1. CASE \/ WithoutConnection("ConnectionNotFound", TRUE)
             \/ WithoutConnection("ConnectionChanged", FALSE)
    BY <2>0, <2>1, <1>0, WithoutConnectionShape
  <2>2. CASE conn # 0 /\ mem.bound = conn /\ Goto("client", mem)
             /\ UNCHANGED <<cr, cacheFresh>>
    <3>1. PositionOK("client", mem, harbor')
      BY <2>0, <2>2 DEF PositionOK, HeldPCs
    <3> QED BY <2>0, <2>2, <3>1, <1>0, SameCopy, GotoShape DEF Quiet
  <2>3. CASE conn # 0 /\ mem.bound = 0 /\ Persist([mem EXCEPT !.bound = conn], "client")
    <3> DEFINE rec == [mem EXCEPT !.bound = conn]
    <3>1. rec \in Resource /\ rec.bound = conn
      BY <1>0 DEF Resource, IInv, TypeOK
    <3>2. Writes(mem, rec)
      BY <1>0, <2>3 DEF Writes, Resource
    <3>3. Persist(rec, "client")
      BY <2>3
    <3> HIDE DEF rec
    <3>4. PositionOK("client", rec, harbor)
      BY <2>0, <2>3, <3>1, <3>2 DEF PositionOK, HeldPCs, Writes
    <3> QED BY <2>0, <3>1, <3>2, <3>3, <3>4, PersistShape
  <2> QED BY <1>b, <2>1, <2>2, <2>3 DEF GetHarborClientForObject
<1>c. CASE BuildHarborClient
  <2>0. mem.inc # 0 /\ mem.bound # 0 /\ Quiet /\ HarborOK
    BY <1>c, <1>1, <1>2, <1>3 DEF BuildHarborClient
  <2>1. CASE WithoutConnection("SecretNotFound", TRUE)
    BY <2>0, <2>1, <1>0, WithoutConnectionShape
  <2>2. CASE /\ Goto(IF mem.deleting THEN "finalize" ELSE "finalizer", mem)
             /\ UNCHANGED <<cr, cacheFresh>>
    <3>1. PositionOK(IF mem.deleting THEN "finalize" ELSE "finalizer", mem, harbor')
      BY <2>0 DEF PositionOK, HeldPCs
    <3> QED BY <2>0, <2>2, <3>1, <1>0, SameCopy, GotoShape DEF Quiet
  <2> QED BY <1>c, <2>1, <2>2 DEF BuildHarborClient
<1>d. CASE FinalizeIfDeleting
  <2>1. Quiet /\ mem.deleting /\ LetGo(mem, harbor)
    BY <1>d, <1>1 DEF FinalizeIfDeleting, CleanupNeeded, LetGo, IInv, PositionOK
  <2> QED BY <1>d, <2>1, RemoveFinalizerShape DEF FinalizeIfDeleting
<1>e. CASE DeleteRemote
  <2>0. /\ mem.inc # 0 /\ mem.bound # 0 /\ mem.deleting
        /\ UNCHANGED <<cr, cacheFresh, cache, lastInc, lastId>>
    BY <1>e, <1>2, <1>3, <1>5 DEF DeleteRemote, IInv, PositionOK
  <2>1. harbor' \subseteq harbor /\ (harbor' = harbor \/ harbor' = harbor \ Recorded)
    BY <1>e DEF DeleteRemote
  <2>2. HarborOK
    <3>1. \A u \in 1..MaxUid : lastId[u] <= lastId[u]
      BY <1>0
    <3> QED BY <2>0, <2>1, <3>1 DEF HarborOK, HarborMoves, IdOK, IInv
  <2>3. CASE CleanupFailed
    BY <2>0, <2>2, <2>3, <1>0, ReturnShape, CallFailedShape DEF CleanupFailed
  <2>4. CASE harbor' = harbor \ Recorded /\ Goto("unfinalize", mem)
    <3>1. DeadIn(harbor', mem)
      BY <2>4 DEF DeadIn, Recorded
    <3>2. PositionOK("unfinalize", mem, harbor')
      BY <2>0, <3>1 DEF PositionOK, HeldPCs
    <3> QED BY <2>0, <2>2, <2>4, <3>2, <1>0, SameCopy, GotoShape
  <2> QED BY <1>e, <2>3, <2>4 DEF DeleteRemote
<1>f. CASE FinalizeAfterCleanup
  <2>1. Quiet /\ mem.deleting /\ LetGo(mem, harbor)
    BY <1>f, <1>1 DEF FinalizeAfterCleanup, LetGo, IInv, PositionOK
  <2> QED BY <1>f, <2>1, RemoveFinalizerShape DEF FinalizeAfterCleanup
<1>g. CASE EnsureFinalizer
  <2>0. mem.inc # 0 /\ mem.bound # 0 /\ ~mem.deleting /\ Quiet /\ HarborOK
    BY <1>g, <1>1, <1>2, <1>3 DEF EnsureFinalizer, IInv, PositionOK
  <2>1. CASE mem.fin /\ Goto(HeldPC(mem), mem) /\ UNCHANGED <<cr, cacheFresh>>
    <3>1. PositionOK(HeldPC(mem), mem, harbor')
      BY <2>0, <2>1, HeldTargets, HeldPosition
    <3> QED BY <2>0, <2>1, <3>1, <1>0, SameCopy, GotoShape DEF Quiet
  <2>2. CASE Persist([mem EXCEPT !.fin = TRUE], HeldPC(mem))
    <3> DEFINE rec == [mem EXCEPT !.fin = TRUE]
    <3>1. /\ rec \in Resource /\ Writes(mem, rec) /\ rec.fin /\ ~rec.deleting
          /\ rec.inc # 0 /\ rec.bound # 0
      BY <1>0, <2>0 DEF Resource, Writes
    <3>2. Persist(rec, HeldPC(mem))
      BY <2>2
    <3> HIDE DEF rec
    <3>3. PositionOK(HeldPC(mem), rec, harbor)
      BY <3>1, HeldTargets, HeldPosition
    <3> QED BY <2>0, <3>1, <3>2, <3>3, PersistShape
  <2> QED BY <1>g, <2>1, <2>2 DEF EnsureFinalizer
<1>h. CASE ResolveReferences
  <2>0. mem.inc # 0 /\ pc \in HeldPCs /\ Quiet /\ HarborOK
    BY <1>h, <1>1, <1>2 DEF ResolveReferences, HeldPCs
  <2>1. CASE Goto(ResolvedPC(mem), mem) /\ UNCHANGED <<cr, cacheFresh>>
    BY <2>0, <2>1, <1>0, HeldTargets, HeldGoto DEF Quiet
  <2>2. CASE Fail("ReferenceError")
    BY <2>0, <2>2, <1>0, SetStatusShape DEF Fail
  <2> QED BY <1>h, <2>1, <2>2 DEF ResolveReferences
<1>i. CASE AdoptExisting
  <2>0. /\ mem.inc # 0 /\ mem.bound # 0 /\ pc \in HeldPCs /\ Quiet /\ HarborOK
        /\ UNCHANGED <<cr, cacheFresh, cache, lastInc>>
    BY <1>i, <1>2, <1>3, <1>5, QuietHarbor
    DEF AdoptExisting, HeldPCs, Quiet, harborVars
  <2>1. ASSUME NEW x \in Matching, Goto("adopted", [mem EXCEPT !.id = x.id])
        PROVE  WorkerStep
    <3>1. x \in harbor /\ x.at = mem.bound /\ x.id \in Nat
      BY <1>0 DEF Matching, HarborObject
    <3>2. x.id <= lastId'[mem.bound]
      BY <2>0, <3>1 DEF IInv, IdOK, Quiet
    <3> QED BY <2>0, <2>1, <3>1, <3>2, HeldGotoId DEF HeldPCs
  <2>2. CASE Goto(AcquiredPC(mem), mem)
    BY <2>0, <2>2, <1>0, HeldTargets, HeldGoto
  <2>3. CASE CallFailed("HarborError")
    BY <2>0, <2>3, <1>0, CallFailedShape
  <2> QED BY <1>i, <2>1, <2>2, <2>3 DEF AdoptExisting
<1>j. CASE PersistAdoption
  <2>0. mem.inc # 0 /\ mem.bound # 0 /\ mem.fin /\ ~mem.deleting /\ Quiet
    BY <1>j, <1>1, <1>2, <1>3, <1>4 DEF PersistAdoption, HeldPCs
  <2>1. Writes(mem, mem) /\ PositionOK(AcquiredPC(mem), mem, harbor)
    BY <2>0, HeldTargets, HeldPosition DEF Writes
  <2> QED BY <1>j, <2>0, <2>1, <1>0, PersistShape, PersistAndReturnShape
      DEF PersistAdoption
<1>k. CASE RequireCreationAllowed
  BY <1>k, <1>0, <1>1, <1>2, SetStatusShape DEF RequireCreationAllowed, Fail
<1>l. CASE CreateRemote
  <2>0. /\ mem.inc # 0 /\ mem.bound \in 1..MaxUid /\ pc \in HeldPCs
        /\ UNCHANGED <<cr, cacheFresh, cache, lastInc>> /\ mem.bound # 0
        /\ pc = "create"
    <3>1. pc = "create" /\ UNCHANGED <<cr, cacheFresh, cache, lastInc>>
      BY <1>l, <1>5 DEF CreateRemote
    <3>2. mem.bound \in 0..MaxUid
      BY <1>0 DEF Resource
    <3> QED BY <3>1, <3>2, <1>2, <1>3, BoundsAssumption DEF HeldPCs
  <2>1. CASE /\ UNCHANGED harborVars
             /\ \/ Goto("lookup", mem) \/ CallFailed("Conflict")
                \/ CallFailed("HarborError")
    <3>1. HarborOK
      BY <2>0, <2>1, QuietHarbor DEF Quiet, harborVars
    <3>2. CASE Goto("lookup", mem)
      BY <2>0, <3>1, <3>2, <1>0, HeldGoto DEF HeldPCs
    <3>3. CASE CallFailed("HarborError") \/ CallFailed("Conflict")
      BY <2>0, <3>1, <3>3, <1>0, CallFailedShape
    <3> QED BY <2>1, <3>2, <3>3
  <2>2. CASE /\ harbor' = harbor \cup {NewObject}
             /\ lastId' = [lastId EXCEPT ![mem.bound] = @ + 1]
             /\ \/ Goto("lookup", mem)
                \/ Goto("created", [mem EXCEPT !.id = NewObject.id])
                \/ CallFailed("HarborError")
    <3>1. /\ NewObject.at = mem.bound /\ NewObject.id = lastId[mem.bound] + 1
          /\ lastId[mem.bound] \in Nat /\ lastId'[mem.bound] = lastId[mem.bound] + 1
      BY <2>0, <2>2, <1>0 DEF NewObject
    <3>2. \A u \in 1..MaxUid : lastId[u] <= lastId'[u] /\ lastId[u] \in Nat /\ lastId'[u] \in Nat
      BY <2>0, <2>2, <1>0
    <3>3. IdOK(harbor', lastId')
      <4> SUFFICES ASSUME NEW x \in harbor' PROVE x.id <= lastId'[x.at]
        BY DEF IdOK
      <4>1. CASE x \in harbor
        <5>1. x.at \in 1..MaxUid /\ x.id \in Nat /\ x.id <= lastId[x.at]
          BY <4>1, <1>0 DEF HarborObject, IInv, IdOK
        <5> QED BY <5>1, <3>2
      <4>2. CASE x = NewObject
        BY <4>2, <3>1
      <4> QED BY <2>2, <4>1, <4>2
    <3>4. HarborMoves(harbor, lastId, harbor', lastId')
      BY <2>2, <3>1, <3>2 DEF HarborMoves
    <3>5. HarborOK
      BY <3>3, <3>4 DEF HarborOK
    <3>6. CASE Goto("lookup", mem)
      BY <2>0, <3>5, <3>6, <1>0, HeldGoto DEF HeldPCs
    <3>7. CASE Goto("created", [mem EXCEPT !.id = NewObject.id])
      <4>1. NewObject.id \in Nat /\ NewObject.id <= lastId'[mem.bound]
        BY <3>1
      <4> QED BY <2>0, <3>5, <3>7, <4>1, HeldGotoId DEF HeldPCs
    <3>8. CASE CallFailed("HarborError")
      BY <2>0, <3>5, <3>8, <1>0, CallFailedShape
    <3> QED BY <2>2, <3>6, <3>7, <3>8
  <2> QED BY <1>l, <2>1, <2>2 DEF CreateRemote
<1>m. CASE LookupRemote
  <2>0. /\ mem.inc # 0 /\ mem.bound # 0 /\ pc \in HeldPCs /\ Quiet /\ HarborOK
        /\ UNCHANGED <<cr, cacheFresh, cache, lastInc>>
    BY <1>m, <1>2, <1>3, <1>5, QuietHarbor
    DEF LookupRemote, HeldPCs, Quiet, harborVars
  <2>1. ASSUME NEW x \in Matching, NEW p \in {"created", "adopted"},
               Goto(p, [mem EXCEPT !.id = x.id])
        PROVE  WorkerStep
    <3>1. x \in harbor /\ x.at = mem.bound /\ x.id \in Nat
      BY <1>0 DEF Matching, HarborObject
    <3>2. x.id <= lastId'[mem.bound]
      BY <2>0, <3>1 DEF IInv, IdOK, Quiet
    <3> QED BY <2>0, <2>1, <3>1, <3>2, HeldGotoId DEF HeldPCs
  <2>2. CASE Goto("created", mem)
    BY <2>0, <2>2, <1>0, HeldGoto DEF HeldPCs
  <2>3. CASE CallFailed("HarborError")
    BY <2>0, <2>3, <1>0, CallFailedShape
  <2> QED BY <1>m, <2>1, <2>2, <2>3 DEF LookupRemote
<1>n. CASE SetCreatedStatus
  BY <1>n, <1>0, <1>1, <1>2, SetStatusShape DEF SetCreatedStatus
<1>o. CASE GetRemote
  <2>0. /\ mem.inc # 0 /\ mem.bound # 0 /\ pc \in HeldPCs /\ Quiet /\ HarborOK
        /\ UNCHANGED <<cr, cacheFresh, cache, lastInc>>
    BY <1>o, <1>2, <1>3, <1>5, QuietHarbor
    DEF GetRemote, HeldPCs, Quiet, harborVars
  <2>1. CASE Goto("notFound", [mem EXCEPT !.id = 0])
    BY <2>0, <2>1, HeldGotoId DEF HeldPCs
  <2>2. CASE Goto("ready", mem) \/ Goto("update", mem)
    BY <2>0, <2>2, <1>0, HeldGoto DEF HeldPCs
  <2>3. CASE CallFailed("HarborError")
    BY <2>0, <2>3, <1>0, CallFailedShape
  <2> QED BY <1>o, <2>1, <2>2, <2>3 DEF GetRemote
<1>p. CASE RequeueOnRemoteNotFound
  BY <1>p, <1>0, <1>1, <1>2, SetStatusShape DEF RequeueOnRemoteNotFound
<1>q. CASE UpdateRemote
  <2>0. /\ mem.inc # 0 /\ mem.bound # 0 /\ pc \in HeldPCs
        /\ UNCHANGED <<cr, cacheFresh, cache, lastInc, lastId>>
    BY <1>q, <1>2, <1>3, <1>5 DEF UpdateRemote, HeldPCs
  <2>1. \A x \in harbor' : \E y \in harbor : y.at = x.at /\ y.id = x.id
    <3>1. ASSUME NEW y \in harbor PROVE Overwrite(y).at = y.at /\ Overwrite(y).id = y.id
      BY <1>0 DEF Overwrite, HarborObject
    <3> QED BY <1>q, <3>1 DEF UpdateRemote, Recorded
  <2>2. HarborOK
    <3>1. \A u \in 1..MaxUid : lastId[u] <= lastId[u]
      BY <1>0
    <3> QED BY <2>0, <2>1, <3>1 DEF HarborOK, HarborMoves, IdOK, IInv
  <2>3. CASE Goto("ready", mem)
    BY <2>0, <2>2, <2>3, <1>0, HeldGoto DEF HeldPCs
  <2>4. CASE CallFailed("HarborError")
    BY <2>0, <2>2, <2>4, <1>0, CallFailedShape
  <2> QED BY <1>q, <2>3, <2>4 DEF UpdateRemote
<1>r. CASE SetReadyStatus
  BY <1>r, <1>0, <1>1, <1>2, SetStatusShape DEF SetReadyStatus
<1>s. CASE SetErrorStatus
  BY <1>s, <1>0, <1>1, <1>2, SetStatusShape DEF SetErrorStatus, Fail
<1> QED
  BY <1>a, <1>b, <1>c, <1>d, <1>e, <1>f, <1>g, <1>h, <1>i, <1>j, <1>k, <1>l, <1>m,
     <1>n, <1>o, <1>p, <1>q, <1>r, <1>s DEF Reconcile

-----------------------------------------------------------------------------
(* The other steps *)

\* A user's write replaces the resource r of o by r2.
LEMMA UserWritesInv ==
  ASSUME IInv, TypeOK', NEW o \in Objects, NEW r2 \in Resource, UserWrites(o, r2),
         \A u \in Objects \ {o} : lastInc'[u] = lastInc[u],
         CopyOK(r2, r2, lastInc'[o], harbor, lastId),
         \A c \in Resource : CopyOK(c, cr[o], lastInc[o], harbor, lastId)
                             => CopyOK(c, r2, lastInc'[o], harbor, lastId)
  PROVE  IInv'
<1>0. /\ cr \in [Objects -> Resource] /\ cacheFresh \in [Objects -> BOOLEAN]
      /\ cur \in Objects /\ mem \in Resource /\ memFresh \in BOOLEAN
  BY DEF IInv, TypeOK
<1>1. /\ UNCHANGED <<cache, pc, cur, mem, harbor, lastId>>
      /\ cr'[o] = r2 /\ cacheFresh'[o] = FALSE
      /\ \A u \in Objects \ {o} : cr'[u] = cr[u] /\ cacheFresh'[u] = cacheFresh[u]
  BY <1>0 DEF UserWrites, harborVars
<1>2. \A u \in Objects :
        NameOK(cr'[u], cache'[u], cacheFresh'[u], lastInc'[u], harbor', lastId')
  <2> SUFFICES ASSUME NEW u \in Objects
               PROVE NameOK(cr'[u], cache'[u], cacheFresh'[u], lastInc'[u], harbor', lastId')
    OBVIOUS
  <2>1. /\ NameOK(cr[u], cache[u], cacheFresh[u], lastInc[u], harbor, lastId)
        /\ cache[u] \in Resource
    BY NameInv
  <2>2. CASE u = o
    BY <2>1, <2>2, <1>1 DEF NameOK
  <2>3. CASE u # o
    BY <2>1, <2>3, <1>1
  <2> QED BY <2>2, <2>3
<1>3. CopyOK(mem', cr'[cur'], lastInc'[cur'], harbor', lastId')
  <2>1. CopyOK(mem, cr[cur], lastInc[cur], harbor, lastId)
    BY DEF IInv
  <2>2. CASE cur = o
    BY <2>1, <2>2, <1>0, <1>1
  <2>3. CASE cur # o
    BY <2>1, <2>3, <1>0, <1>1
  <2> QED BY <2>2, <2>3
<1>4. MemFreshOK(memFresh', mem', cr'[cur'], cache'[cur'])
  <2>1. MemFreshOK(memFresh, mem, cr[cur], cache[cur])
    BY DEF IInv
  <2>2. CASE cur = o
    BY <2>2 DEF UserWrites, MemFreshOK
  <2>3. CASE cur # o
    <3>1. cr'[cur'] = cr[cur] /\ mem' = mem /\ cache'[cur'] = cache[cur]
      BY <2>3, <1>0, <1>1
    <3>2. memFresh' = memFresh
      BY <2>3, <1>0 DEF UserWrites
    <3> QED BY <2>1, <3>1, <3>2
  <2> QED BY <2>2, <2>3
<1>5. /\ PositionOK(pc', mem', harbor') /\ MemCacheOK(mem', cache'[cur'])
      /\ IdOK(harbor', lastId')
  BY <1>1 DEF IInv
<1> QED BY <1>2, <1>3, <1>4, <1>5, NameSuffices

LEMMA UserCreateInv == ASSUME IInv, TypeOK', NEW o \in Objects, UserCreate(o) PROVE IInv'
<1>1. PICK d \in Data, cp \in CreationPolicies, dp \in DeletionPolicies :
        UserWrites(o, NewResource(lastInc[o] + 1, d, cp, dp))
  BY DEF UserCreate
<1> DEFINE r2 == NewResource(lastInc[o] + 1, d, cp, dp)
<1>2. lastInc \in [Objects -> Nat] /\ lastInc[o] \in Nat /\ lastInc[o] + 1 \in Nat
      /\ cr[o].inc = 0
  BY DEF IInv, TypeOK, UserCreate, Exists
<1>3. r2 \in Resource
  BY <1>2, CreatedType
<1>4. r2.inc = lastInc[o] + 1 /\ r2.id = 0
  BY NoResourceType DEF NewResource, NoResource
<1>5. UserWrites(o, r2)
  BY <1>1
<1>6. /\ lastInc'[o] = lastInc[o] + 1
      /\ \A u \in Objects \ {o} : lastInc'[u] = lastInc[u]
  BY <1>2 DEF UserCreate
<1> HIDE DEF r2
<1>7. CopyOK(r2, r2, lastInc'[o], harbor, lastId)
  BY <1>2, <1>4, <1>6 DEF CopyOK, IdKnown
<1>8. \A c \in Resource : CopyOK(c, cr[o], lastInc[o], harbor, lastId)
                          => CopyOK(c, r2, lastInc'[o], harbor, lastId)
  BY <1>2, <1>4, <1>6, CopyServerCreates
<1> QED BY <1>3, <1>5, <1>6, <1>7, <1>8, UserWritesInv

LEMMA UserEditInv == ASSUME IInv, TypeOK', NEW o \in Objects, UserEdit(o) PROVE IInv'
<1>1. PICK d \in Data, dp \in DeletionPolicies :
        UserWrites(o, [cr[o] EXCEPT !.gen = @ + 1, !.data = d, !.deletionPolicy = dp])
  BY DEF UserEdit
<1> DEFINE r2 == [cr[o] EXCEPT !.gen = @ + 1, !.data = d, !.deletionPolicy = dp]
<1>2. cr[o] \in Resource
  BY DEF IInv, TypeOK
<1>3. r2 \in Resource
  BY <1>2, EditedType
<1>4. /\ r2.inc = cr[o].inc /\ r2.fin = cr[o].fin /\ r2.bound = cr[o].bound
      /\ r2.deleting = cr[o].deleting /\ r2.id = cr[o].id
  BY <1>2 DEF Resource
<1>5. UserWrites(o, r2) /\ UNCHANGED lastInc
  BY <1>1 DEF UserEdit
<1> HIDE DEF r2
<1>6. CopyOK(r2, r2, lastInc'[o], harbor, lastId)
  BY <1>4, <1>5, NameInv DEF NameOK, CopyOK, IdKnown
<1>7. \A c \in Resource : CopyOK(c, cr[o], lastInc[o], harbor, lastId)
                          => CopyOK(c, r2, lastInc'[o], harbor, lastId)
  BY <1>4, <1>5, CopyServerAdvances
<1> QED BY <1>3, <1>5, <1>6, <1>7, UserWritesInv

\* Deleted at once is only a resource without a finalizer, and no copy of that
\* incarnation ever had one or an id.
LEMMA UserDeleteInv == ASSUME IInv, TypeOK', NEW o \in Objects, UserDelete(o) PROVE IInv'
<1>2. cr[o] \in Resource /\ UNCHANGED lastInc
  BY DEF IInv, TypeOK, UserDelete
<1>3. CASE cr[o].fin
  <2> DEFINE r2 == [cr[o] EXCEPT !.deleting = TRUE, !.gen = @ + 1]
  <2>1. r2 \in Resource
    BY <1>2, DeletedType
  <2>2. /\ r2.inc = cr[o].inc /\ r2.fin = cr[o].fin /\ r2.bound = cr[o].bound
        /\ r2.deleting /\ r2.id = cr[o].id
    BY <1>2 DEF Resource
  <2>3. UserWrites(o, r2)
    BY <1>3 DEF UserDelete
  <2> HIDE DEF r2
  <2>4. CopyOK(r2, r2, lastInc'[o], harbor, lastId)
    BY <1>2, <2>2, NameInv DEF NameOK, CopyOK, IdKnown
  <2>5. \A c \in Resource : CopyOK(c, cr[o], lastInc[o], harbor, lastId)
                            => CopyOK(c, r2, lastInc'[o], harbor, lastId)
    BY <1>2, <2>2, CopyServerAdvances
  <2> QED BY <1>2, <2>1, <2>3, <2>4, <2>5, UserWritesInv
<1>4. CASE ~cr[o].fin
  <2>1. UserWrites(o, NoResource)
    BY <1>4 DEF UserDelete
  <2>2. CopyOK(NoResource, NoResource, lastInc'[o], harbor, lastId)
    BY NoCopy
  <2>3. \A c \in Resource : CopyOK(c, cr[o], lastInc[o], harbor, lastId)
                            => CopyOK(c, NoResource, lastInc'[o], harbor, lastId)
    BY <1>2, <1>4, NoResourceType DEF CopyOK
  <2> QED BY <1>2, <2>1, <2>2, <2>3, NoResourceType, UserWritesInv
<1> QED BY <1>3, <1>4

LEMMA LoadResourceInv == ASSUME IInv, TypeOK', NEW o \in Objects, LoadResource(o) PROVE IInv'
<1>1. /\ UNCHANGED <<cr, cache, cacheFresh, lastInc, harbor, lastId>> /\ cur' = o
  BY DEF LoadResource, apiVars, harborVars
<1>2. \A u \in Objects :
        NameOK(cr'[u], cache'[u], cacheFresh'[u], lastInc'[u], harbor', lastId')
  BY <1>1, NameInv
<1>3. IdOK(harbor', lastId')
  BY <1>1 DEF IInv
<1>4. CASE cache[o].inc = 0
  BY <1>2, <1>3, <1>4, EndedInv, NameSuffices DEF LoadResource
<1>5. CASE cache[o].inc # 0
  <2>1. pc' = "mark" /\ mem' = cache[o] /\ memFresh' = cacheFresh[o]
    BY <1>5 DEF LoadResource
  <2>2. PositionOK(pc', mem', harbor')
    BY <1>5, <2>1 DEF PositionOK, HeldPCs
  <2>3. CopyOK(mem', cr'[cur'], lastInc'[cur'], harbor', lastId')
    BY <1>1, <2>1, NameInv DEF NameOK
  <2>4. MemCacheOK(mem', cache'[cur'])
    BY <1>1, <2>1 DEF MemCacheOK
  <2>5. MemFreshOK(memFresh', mem', cr'[cur'], cache'[cur'])
    BY <1>1, <1>5, <2>1, NameInv DEF MemFreshOK, NameOK
  <2> QED BY <1>2, <1>3, <2>2, <2>3, <2>4, <2>5, NameSuffices
<1> QED BY <1>4, <1>5

LEMMA SyncCacheInv == ASSUME IInv, TypeOK', NEW o \in Objects, SyncCache(o) PROVE IInv'
<1>0. /\ cache \in [Objects -> Resource] /\ cacheFresh \in [Objects -> BOOLEAN]
      /\ cur \in Objects
  BY DEF IInv, TypeOK
<1>1. /\ UNCHANGED <<cr, lastInc, pc, cur, mem, memFresh, harbor, lastId>>
      /\ cache'[o] = cr[o]
      /\ \A u \in Objects \ {o} : cache'[u] = cache[u] /\ cacheFresh'[u] = cacheFresh[u]
  BY <1>0 DEF SyncCache, harborVars
<1>2. \A u \in Objects :
        NameOK(cr'[u], cache'[u], cacheFresh'[u], lastInc'[u], harbor', lastId')
  <2> SUFFICES ASSUME NEW u \in Objects
               PROVE NameOK(cr'[u], cache'[u], cacheFresh'[u], lastInc'[u], harbor', lastId')
    OBVIOUS
  <2>1. NameOK(cr[u], cache[u], cacheFresh[u], lastInc[u], harbor, lastId)
    BY NameInv
  <2>2. CASE u = o
    BY <2>1, <2>2, <1>1 DEF NameOK
  <2>3. CASE u # o
    BY <2>1, <2>3, <1>1
  <2> QED BY <2>2, <2>3
<1>3. /\ CopyOK(mem, cr[cur], lastInc[cur], harbor, lastId)
      /\ MemFreshOK(memFresh, mem, cr[cur], cache[cur]) /\ MemCacheOK(mem, cache[cur])
      /\ PositionOK(pc, mem, harbor) /\ IdOK(harbor, lastId)
  BY DEF IInv
<1>4. MemCacheOK(mem', cache'[cur'])
  <2>1. CASE cur = o
    BY <2>1, <1>1, <1>3 DEF MemCacheOK, CopyOK
  <2>2. CASE cur # o
    BY <2>2, <1>0, <1>1, <1>3
  <2> QED BY <2>1, <2>2
<1>5. MemFreshOK(memFresh', mem', cr'[cur'], cache'[cur'])
  <2>1. CASE cur = o
    BY <2>1, <1>1, <1>3 DEF MemFreshOK
  <2>2. CASE cur # o
    BY <2>2, <1>0, <1>1, <1>3
  <2> QED BY <2>1, <2>2
<1> QED BY <1>1, <1>2, <1>3, <1>4, <1>5, NameSuffices

LEMMA CrashInv == ASSUME IInv, TypeOK', Crash PROVE IInv'
<1>1. UNCHANGED <<cr, lastInc, harbor, lastId>> /\ cache' = cr /\ Ended
  BY DEF Crash, harborVars, Ended
<1>2. \A o \in Objects :
        NameOK(cr'[o], cache'[o], cacheFresh'[o], lastInc'[o], harbor', lastId')
  BY <1>1, NameInv DEF NameOK
<1>3. IdOK(harbor', lastId')
  BY <1>1 DEF IInv
<1> QED BY <1>1, <1>2, <1>3, EndedInv, NameSuffices DEF Ended

\* Other clients change Harbor while the worker holds a copy.
LEMMA HarborChangeInv ==
  ASSUME IInv, TypeOK', UNCHANGED <<apiVars, pc, cur, mem, memFresh>>, HarborOK
  PROVE  IInv'
<1>0. /\ mem \in Resource /\ lastId \in [1..MaxUid -> Nat]
      /\ lastId' \in [1..MaxUid -> Nat] /\ harbor' \subseteq HarborObject
      /\ HarborMoves(harbor, lastId, harbor', lastId') /\ IdOK(harbor', lastId')
      /\ UNCHANGED <<cr, cache, cacheFresh, lastInc>>
  BY DEF IInv, TypeOK, HarborOK, apiVars
<1>1. \A o \in Objects :
        NameOK(cr'[o], cache'[o], cacheFresh'[o], lastInc'[o], harbor', lastId')
  BY <1>0, NameHarborMoves
<1>2. /\ CopyOK(mem, cr[cur], lastInc[cur], harbor, lastId)
      /\ MemFreshOK(memFresh, mem, cr[cur], cache[cur]) /\ MemCacheOK(mem, cache[cur])
      /\ PositionOK(pc, mem, harbor)
  BY DEF IInv
<1>3. CopyOK(mem, cr[cur], lastInc[cur], harbor', lastId')
  BY <1>0, <1>2, CopyHarborMoves
<1>4. PositionOK(pc, mem, harbor')
  <2>1. ASSUME pc = "unfinalize" PROVE DeadIn(harbor', mem)
    <3>1. mem.inc # 0 /\ DeadIn(harbor, mem)
      BY <2>1, <1>2 DEF PositionOK
    <3>2. IdKnown(mem, lastId)
      BY <3>1, <1>2 DEF CopyOK
    <3> QED BY <1>0, <3>1, <3>2, DeadStays
  <2> QED BY <1>2, <2>1 DEF PositionOK
<1> QED BY <1>0, <1>1, <1>2, <1>3, <1>4, NameSuffices

LEMMA ForeignHarbor ==
  ASSUME IInv, TypeOK', ForeignCreate \/ ForeignUpdate \/ ForeignDelete
  PROVE  HarborOK
<1>0. harbor \subseteq HarborObject /\ lastId \in [1..MaxUid -> Nat] /\ IdOK(harbor, lastId)
  BY DEF IInv, TypeOK
<1>1. CASE ForeignCreate
  <2>1. PICK h \in 1..MaxUid, o \in Objects, d \in Data :
          /\ harbor' = harbor \cup
               {[at |-> h, id |-> lastId[h] + 1, name |-> HarborName[o],
                 data |-> d, maker |-> <<Env, 0>>, writer |-> <<Env, 0>>]}
          /\ lastId' = [lastId EXCEPT ![h] = @ + 1]
    BY <1>1 DEF ForeignCreate
  <2>2. \A u \in 1..MaxUid : lastId[u] <= lastId'[u] /\ lastId[u] \in Nat /\ lastId'[u] \in Nat
    BY <2>1, <1>0
  <2>3. lastId'[h] = lastId[h] + 1 /\ lastId[h] \in Nat
    BY <2>1, <1>0
  <2>4. \A x \in harbor' : x \in harbor \/ (x.at = h /\ x.id = lastId[h] + 1)
    BY <2>1
  <2>5. IdOK(harbor', lastId')
    <3> SUFFICES ASSUME NEW x \in harbor' PROVE x.id <= lastId'[x.at]
      BY DEF IdOK
    <3>1. CASE x \in harbor
      <4>1. x.at \in 1..MaxUid /\ x.id \in Nat /\ x.id <= lastId[x.at]
        BY <3>1, <1>0 DEF HarborObject, IdOK
      <4> QED BY <4>1, <2>2
    <3>2. CASE x.at = h /\ x.id = lastId[h] + 1
      BY <3>2, <2>3
    <3> QED BY <2>4, <3>1, <3>2
  <2>6. HarborMoves(harbor, lastId, harbor', lastId')
    BY <2>2, <2>3, <2>4 DEF HarborMoves
  <2> QED BY <2>5, <2>6 DEF HarborOK
<1>2. CASE ForeignUpdate \/ ForeignDelete
  <2>1. UNCHANGED lastId
    BY <1>2 DEF ForeignUpdate, ForeignDelete
  <2>2. \A x \in harbor' : \E y \in harbor : y.at = x.at /\ y.id = x.id
    <3>1. CASE ForeignUpdate
      <4>1. PICK y \in harbor : \E d \in Data \ {y.data} :
              harbor' = (harbor \ {y}) \cup
                        {[y EXCEPT !.data = d, !.writer = <<Env, 0>>]}
        BY <3>1 DEF ForeignUpdate
      <4>2. PICK d \in Data \ {y.data} :
              harbor' = (harbor \ {y}) \cup
                        {[y EXCEPT !.data = d, !.writer = <<Env, 0>>]}
        BY <4>1
      <4>3. /\ [y EXCEPT !.data = d, !.writer = <<Env, 0>>].at = y.at
            /\ [y EXCEPT !.data = d, !.writer = <<Env, 0>>].id = y.id
        BY <1>0 DEF HarborObject
      <4> QED BY <4>2, <4>3
    <3>2. CASE ForeignDelete
      BY <3>2 DEF ForeignDelete
    <3> QED BY <1>2, <3>1, <3>2
  <2>3. \A u \in 1..MaxUid : lastId[u] <= lastId[u]
    BY <1>0
  <2> QED BY <2>1, <2>2, <2>3, <1>0 DEF HarborOK, HarborMoves, IdOK
<1> QED BY <1>1, <1>2

-----------------------------------------------------------------------------
(* The invariant *)

LEMMA IInvInit == Init => IInv
<1> SUFFICES ASSUME Init PROVE IInv
  OBVIOUS
<1>1. TypeOK
  BY TypeInit DEF TypeInv
<1>2. /\ \A o \in Objects : cr[o] = NoResource /\ cache[o] = NoResource
      /\ pc = "idle" /\ mem = NoResource /\ memFresh = FALSE /\ harbor = {}
      /\ cur \in Objects
  BY DEF Init
<1>3. IdOK(harbor, lastId)
  BY <1>2 DEF IdOK
<1>4. /\ PositionOK(pc, mem, harbor)
      /\ CopyOK(mem, cr[cur], lastInc[cur], harbor, lastId)
      /\ MemCacheOK(mem, cache[cur])
      /\ MemFreshOK(memFresh, mem, cr[cur], cache[cur])
  BY <1>2, EndedInv
<1>5. \A o \in Objects :
        /\ CopyOK(cr[o], cr[o], lastInc[o], harbor, lastId)
        /\ CopyOK(cache[o], cr[o], lastInc[o], harbor, lastId)
        /\ cacheFresh[o] => cache[o] = cr[o]
  BY <1>2, NoCopy
<1> QED BY <1>1, <1>3, <1>4, <1>5 DEF IInv

LEMMA IInvStep == IInv /\ [Next]_vars => IInv'
<1> SUFFICES ASSUME IInv, [Next]_vars PROVE IInv'
  OBVIOUS
<1>0. TypeOK'
  BY IInvType, TypeStep DEF TypeInv
<1>1. CASE Reconcile
  BY <1>0, <1>1, ReconcileShape, WorkerStepInv
<1>2. ASSUME NEW o \in Objects,
             \/ LoadResource(o) \/ SyncCache(o)
             \/ UserCreate(o) \/ UserEdit(o) \/ UserDelete(o)
      PROVE  IInv'
  BY <1>0, <1>2, LoadResourceInv, SyncCacheInv, UserCreateInv, UserEditInv, UserDeleteInv
<1>3. CASE Crash
  BY <1>0, <1>3, CrashInv
<1>4. CASE ForeignCreate \/ ForeignUpdate \/ ForeignDelete
  <2>1. UNCHANGED <<apiVars, pc, cur, mem, memFresh>>
    BY <1>4 DEF ForeignCreate, ForeignUpdate, ForeignDelete, workerVars
  <2> QED BY <1>0, <1>4, <2>1, ForeignHarbor, HarborChangeInv
<1>5. ASSUME \/ DeleteConnection \/ CreateConnection \/ LoseSecret \/ RestoreSecret
             \/ LoseReference \/ ReferenceResolves \/ UNCHANGED vars
             \/ \E o \in Objects : DriftTimer(o)
      PROVE  IInv'
  <2>1. UNCHANGED <<apiVars, pc, cur, mem, memFresh, harbor, lastId>>
    BY <1>5
    DEF DeleteConnection, CreateConnection, LoseSecret, RestoreSecret, LoseReference,
        ReferenceResolves, DriftTimer, vars, workerVars, harborVars
  <2>2. HarborOK
    BY <2>1, QuietHarbor DEF Quiet, apiVars
  <2> QED BY <1>0, <2>1, <2>2, HarborChangeInv
<1> QED BY <1>1, <1>2, <1>3, <1>4, <1>5 DEF Next

\* The relation between old copies and the API server holds throughout.
THEOREM CopiesSound == Spec => []IInv
BY IInvInit, IInvStep, PTL DEF Spec

-----------------------------------------------------------------------------
(* The action properties *)

\* A worker that changes Harbor acts for the incarnation the API server holds.
LEMMA MutationGuarded ==
  ASSUME IInv, Mutation, NEW x \in (harbor \ harbor') \cup (harbor' \ harbor)
  PROVE  cr[cur].inc = mem.inc /\ cr[cur].fin /\ cr[cur].bound = x.at
<1>0. /\ CopyOK(mem, cr[cur], lastInc[cur], harbor, lastId) /\ PositionOK(pc, mem, harbor)
      /\ mem \in Resource /\ harbor \subseteq HarborObject
  BY DEF IInv, TypeOK
<1>1. CASE CreateRemote \/ UpdateRemote
  <2>1. mem.fin /\ ~mem.deleting /\ mem.bound # 0 /\ mem.inc # 0
    BY <1>0, <1>1 DEF CreateRemote, UpdateRemote, PositionOK, HeldPCs
  <2>2. cr[cur].inc = mem.inc /\ cr[cur].fin /\ cr[cur].bound = mem.bound
    BY <1>0, <2>1 DEF CopyOK
  <2>3. CASE CreateRemote
    <3>1. x = NewObject
      BY <2>3 DEF CreateRemote, harborVars
    <3> QED BY <3>1, <2>2 DEF NewObject
  <2>4. CASE UpdateRemote
    <3>1. ASSUME NEW y \in Recorded PROVE Overwrite(y).at = y.at /\ y.at = mem.bound
      BY <1>0 DEF Overwrite, HarborObject, Recorded
    <3>2. x.at = mem.bound
      BY <2>4, <3>1 DEF UpdateRemote
    <3> QED BY <3>2, <2>2
  <2> QED BY <1>1, <2>3, <2>4
<1>2. CASE DeleteRemote
  <2>1. x \in Recorded /\ mem.deletionPolicy = "Delete" /\ mem.id # 0
    BY <1>0, <1>2 DEF DeleteRemote, CleanupNeeded, Resource
  <2>2. mem.deleting /\ mem.inc # 0 /\ mem.bound # 0
    BY <1>0, <1>2 DEF DeleteRemote, PositionOK
  <2>3. ~DeadIn(harbor, mem) /\ x.at = mem.bound
    BY <2>1 DEF DeadIn, Recorded
  <2> QED BY <1>0, <2>1, <2>2, <2>3 DEF CopyOK
<1> QED BY <1>1, <1>2 DEF Mutation

\* Whatever copy of a resource the worker acts on, it changes Harbor only for a
\* resource that is still at the API server in the same incarnation, holds the
\* finalizer there, and has the Harbor instance of the change recorded there.
THEOREM MutationsAreGuarded == Spec => GuardedMutation
<1>1. IInv => (Mutation =>
        \A x \in (harbor \ harbor') \cup (harbor' \ harbor) :
          /\ cr[cur].inc = mem.inc
          /\ cr[cur].fin
          /\ cr[cur].bound = x.at)
  BY MutationGuarded
<1> QED BY <1>1, CopiesSound, PTL DEF GuardedMutation

\* Where a step makes a resource leave the API server, nothing is left in Harbor.
LEMMA RemovalCleaned ==
  ASSUME IInv, [Next]_vars, NEW o \in Objects, Exists(o), cr'[o].inc = 0,
         cr[o].deletionPolicy = "Delete", cr[o].id # 0
  PROVE  \A x \in harbor' : ~(x.at = cr[o].bound /\ x.id = cr[o].id)
<1>0. TypeOK' /\ cr[o].inc # 0 /\ cr[o].fin
      /\ cr \in [Objects -> Resource] /\ cur \in Objects
  BY IInvType, TypeStep DEF TypeInv, Exists, IInv, TypeOK, CopyOK
<1>1. CASE WorkerStep
  <2>1. CASE StepEnded \/ StepMoved
    BY <1>0, <2>1 DEF StepEnded, StepMoved
  <2>2. CASE StepWrote
    <3>1. PICK rec \in Resource : Store(rec) /\ rec.inc = mem.inc /\ mem.inc # 0
      BY <2>2 DEF StepWrote, Writes
    <3> QED BY <1>0, <3>1 DEF Store
  <2>3. CASE StepRemoved
    <3>1. o = cur
      BY <1>0, <2>3 DEF StepRemoved, Store
    <3>2. /\ cr[cur].deletionPolicy = mem.deletionPolicy /\ cr[cur].id = mem.id
          /\ cr[cur].bound = mem.bound
      BY <2>3 DEF StepRemoved, Accepted, IInv, MemFreshOK
    <3>3. DeadIn(harbor', mem)
      BY <2>3, <3>1, <3>2 DEF StepRemoved, LetGo
    <3> QED BY <3>1, <3>2, <3>3 DEF DeadIn
  <2> QED BY <1>1, <2>1, <2>2, <2>3 DEF WorkerStep
<1>2. CASE UNCHANGED cr
  BY <1>0, <1>2
<1>3. ASSUME NEW u \in Objects, UserCreate(u) \/ UserEdit(u) \/ UserDelete(u)
      PROVE  FALSE
  <2>1. PICK rec : UserWrites(u, rec)
    BY <1>3 DEF UserCreate, UserEdit, UserDelete
  <2>2. u = o /\ cr'[o] = rec
    BY <1>0, <2>1 DEF UserWrites
  <2>3. ~UserCreate(o)
    BY <1>0 DEF UserCreate, Exists
  <2>4. CASE UserEdit(o)
    <3>1. PICK d \in Data, dp \in DeletionPolicies :
            cr' = [cr EXCEPT ![o] = [cr[o] EXCEPT !.gen = @ + 1, !.data = d,
                                                  !.deletionPolicy = dp]]
      BY <2>4 DEF UserEdit, UserWrites
    <3>2. cr'[o].inc = cr[o].inc
      BY <1>0, <3>1 DEF Resource
    <3> QED BY <1>0, <3>2
  <2>5. CASE UserDelete(o)
    <3>1. cr' = [cr EXCEPT ![o] = [cr[o] EXCEPT !.deleting = TRUE, !.gen = @ + 1]]
      BY <1>0, <2>5 DEF UserDelete, UserWrites
    <3>2. cr'[o].inc = cr[o].inc
      BY <1>0, <3>1 DEF Resource
    <3> QED BY <1>0, <3>2
  <2> QED BY <1>3, <2>2, <2>3, <2>4, <2>5
<1>4. CASE Reconcile
  BY <1>0, <1>1, <1>4, ReconcileShape
<1>5. \/ Reconcile \/ UNCHANGED cr
      \/ \E u \in Objects : UserCreate(u) \/ UserEdit(u) \/ UserDelete(u)
  BY DEF Next, LoadResource, SyncCache, DriftTimer, Crash, DeleteConnection,
     CreateConnection, LoseSecret, RestoreSecret, LoseReference, ReferenceResolves,
     ForeignCreate, ForeignUpdate, ForeignDelete, vars, apiVars
<1> QED BY <1>2, <1>3, <1>4, <1>5

\* A resource with a recorded id leaves the API server under deletionPolicy Delete
\* only after its Harbor object is gone.
THEOREM ResourcesAreCleaned == Spec => CleanedBeforeFinalized
<1>1. IInv /\ [Next]_vars =>
        \A o \in Objects :
          /\ Exists(o) /\ cr'[o].inc = 0
          /\ cr[o].deletionPolicy = "Delete" /\ cr[o].id # 0
          => \A x \in harbor' : ~(x.at = cr[o].bound /\ x.id = cr[o].id)
  BY RemovalCleaned
<1> QED BY <1>1, CopiesSound, PTL DEF CleanedBeforeFinalized, Spec

=============================================================================
