------------------- MODULE ManagedResourceCustody_proofs -------------------
(***************************************************************************)
(* Proof, for every value of the constants, that an owning reconciler      *)
(* keeps custody: ManagedResource implements Custody under the refinement  *)
(* mapping of ManagedResourceCustody.                                      *)
(*                                                                         *)
(* CopiesSound says what a copy knows of the finalizer, the connection and *)
(* the deletion.  What it does not say is that an id a copy records is     *)
(* still the id on record; that is what CInv adds, and what the steps that *)
(* overwrite and remove Harbor objects need.                               *)
(***************************************************************************)
EXTENDS ManagedResourceSafety_proofs, ManagedResourceCustody

-----------------------------------------------------------------------------
(* The inductive invariant *)

\* Resource r records no object that is in Harbor.
Struck(r, hb) == r.id = 0 \/ DeadIn(hb, r)

\* If the object that copy c records is in Harbor, it is the one on record.
StandsOK(c, r, hb) ==
  c.inc # 0 /\ c.inc = r.inc /\ c.id # 0 /\ ~DeadIn(hb, c) => r.id = c.id

\* Where the worker looks for an object, has found one not yet on record, or has
\* found the one on record gone.
SeekPCs == {"list", "create", "lookup"}
FoundPCs == {"adopted", "created"}
ChangedPCs == FoundPCs \cup {"notFound"}

SeeksOK(p, c) ==
  /\ p \in SeekPCs \cup {"notFound"} => c.id = 0
  /\ p \in {"get", "update"} => c.id # 0

MemStandsOK(p, c, r, hb) == p \notin FoundPCs => StandsOK(c, r, hb)

\* The id of the worker's copy, if of the current version.
MemIdOK(p, fresh, c, r, hb) ==
  fresh => IF p \in ChangedPCs THEN Struck(r, hb) ELSE c.id = r.id

\* A resource that waits to go holds the finalizer.
HeldOK == \A o \in Objects : cr[o].deleting => cr[o].fin

CInv ==
  /\ IInv
  /\ \A o \in Objects : StandsOK(cache[o], cr[o], harbor)
  /\ SeeksOK(pc, mem)
  /\ MemStandsOK(pc, mem, cr[cur], harbor)
  /\ MemIdOK(pc, memFresh, mem, cr[cur], harbor)

-----------------------------------------------------------------------------
(* Facts about copies *)

LEMMA StandsHarborMoves ==
  ASSUME NEW c \in Resource, NEW r, NEW hb, NEW ids \in [1..MaxUid -> Nat],
         NEW hb2, NEW ids2, HarborMoves(hb, ids, hb2, ids2), hb2 \subseteq HarborObject,
         c.inc # 0 => IdKnown(c, ids), StandsOK(c, r, hb)
  PROVE  StandsOK(c, r, hb2)
BY DeadStays DEF StandsOK

LEMMA StruckStays ==
  ASSUME NEW c \in Resource, NEW hb, NEW ids \in [1..MaxUid -> Nat],
         NEW hb2, NEW ids2, HarborMoves(hb, ids, hb2, ids2), hb2 \subseteq HarborObject,
         IdKnown(c, ids), Struck(c, hb)
  PROVE  Struck(c, hb2)
BY DeadStays DEF Struck

\* Every copy's id is known.
LEMMA IdsKnown ==
  ASSUME IInv
  PROVE  /\ \A o \in Objects :
              /\ cr[o] \in Resource /\ (cr[o].inc # 0 => IdKnown(cr[o], lastId))
              /\ cache[o] \in Resource /\ (cache[o].inc # 0 => IdKnown(cache[o], lastId))
         /\ mem \in Resource /\ (mem.inc # 0 => IdKnown(mem, lastId))
         /\ lastId \in [1..MaxUid -> Nat] /\ cur \in Objects
BY DEF IInv, TypeOK, CopyOK

\* Harbor moves on under the copies in the cache.
LEMMA CacheStands ==
  ASSUME CInv, TypeOK', HarborMoves(harbor, lastId, harbor', lastId'), NEW o \in Objects
  PROVE  StandsOK(cache[o], cr[o], harbor')
<1>1. harbor' \subseteq HarborObject
  BY DEF TypeOK
<1> QED BY <1>1, IdsKnown, StandsHarborMoves DEF CInv

-----------------------------------------------------------------------------
(* The shapes of a reconcile step, as to the id and to what the API server gets *)

\* A step within the reconcile: the id stays, one is found, or the one on record
\* is found gone.
IdKept == mem'.id = mem.id /\ pc \notin ChangedPCs /\ pc' \notin ChangedPCs
IdFound == pc \in SeekPCs /\ pc' \in FoundPCs
IdGone ==
  pc \notin ChangedPCs /\ pc' = "notFound" /\ mem'.id = 0 /\ DeadIn(harbor', mem)

StepInside ==
  /\ UNCHANGED <<cr, memFresh>>
  /\ mem'.inc = mem.inc /\ mem'.bound = mem.bound
  /\ IdKept \/ IdFound \/ IdGone
  /\ SeeksOK(pc', mem')

\* What the worker writes is its copy's claim, once bound, or once taken.
SameClaim(c, d) == ClaimOf(d) = ClaimOf(c)
BindsClaim(c, d) ==
  /\ pc = "bind" /\ c.bound = 0 /\ d.bound # 0
  /\ ClaimOf(d) = [ClaimOf(c) EXCEPT !.at = d.bound]
TakesClaim(c, d) ==
  /\ pc = "finalizer" /\ c.bound # 0 /\ ~c.deleting
  /\ ClaimOf(d) = [ClaimOf(c) EXCEPT !.held = TRUE]

StepStored ==
  /\ Accepted /\ mem.inc # 0 /\ UNCHANGED harbor
  /\ \E rec \in Resource :
       /\ Store(rec)
       /\ SameClaim(mem, rec) \/ BindsClaim(mem, rec) \/ TakesClaim(mem, rec)
       /\ \/ Ended
          \/ /\ mem' = rec /\ UNCHANGED memFresh
             /\ pc' \notin ChangedPCs /\ SeeksOK(pc', rec)

StepQuit == UNCHANGED cr /\ Ended

\* A step that changes Harbor leaves the API server alone.
CustodyStep ==
  /\ UNCHANGED <<cur, cache, lastInc>>
  /\ StepQuit \/ StepInside \/ StepStored \/ StepRemoved
  /\ UNCHANGED harbor \/ (Mutation /\ UNCHANGED cr)

-----------------------------------------------------------------------------
(* Every shape keeps the invariant *)

\* A worker without a copy.
LEMMA QuitSuffices ==
  ASSUME IInv', Ended, \A o \in Objects : StandsOK(cache'[o], cr'[o], harbor')
  PROVE  CInv'
<1>1. /\ SeeksOK(pc', mem') /\ MemStandsOK(pc', mem', cr'[cur'], harbor')
      /\ MemIdOK(pc', memFresh', mem', cr'[cur'], harbor')
  BY NoResourceType
  DEF Ended, SeeksOK, SeekPCs, MemStandsOK, StandsOK, MemIdOK
<1> QED BY <1>1 DEF CInv

LEMMA InsideInv ==
  ASSUME CInv, IInv', UNCHANGED <<cur, cache, lastInc>>,
         HarborMoves(harbor, lastId, harbor', lastId'), StepInside
  PROVE  CInv'
<1>0. /\ TypeOK' /\ IInv /\ harbor' \subseteq HarborObject
      /\ mem \in Resource /\ (mem.inc # 0 => IdKnown(mem, lastId)) /\ cr[cur] \in Resource
      /\ lastId \in [1..MaxUid -> Nat] /\ mem' \in Resource
      /\ UNCHANGED <<cr, memFresh>> /\ mem'.inc = mem.inc /\ mem'.bound = mem.bound
  BY IdsKnown DEF CInv, IInv, TypeOK, StepInside
<1>1. \A o \in Objects : StandsOK(cache'[o], cr'[o], harbor')
  BY <1>0, CacheStands
<1>2. MemStandsOK(pc', mem', cr'[cur'], harbor')
  <2>1. CASE IdKept
    <3>1. StandsOK(mem, cr[cur], harbor')
      BY <2>1, <1>0, StandsHarborMoves DEF CInv, MemStandsOK, IdKept, ChangedPCs
    <3> QED BY <2>1, <3>1, <1>0 DEF MemStandsOK, StandsOK, IdKept, DeadIn
  <2>2. CASE IdFound \/ IdGone
    BY <2>2 DEF MemStandsOK, StandsOK, IdFound, IdGone
  <2> QED BY <2>1, <2>2 DEF StepInside
<1>3. MemIdOK(pc', memFresh', mem', cr'[cur'], harbor')
  <2> SUFFICES ASSUME memFresh
               PROVE IF pc' \in ChangedPCs THEN Struck(cr[cur], harbor')
                                           ELSE mem'.id = cr[cur].id
    BY <1>0 DEF MemIdOK
  <2>0. MemFreshOK(TRUE, mem, cr[cur], cache[cur])
        /\ (pc \notin ChangedPCs => mem.id = cr[cur].id)
    BY <1>0 DEF CInv, IInv, MemIdOK
  <2>1. CASE IdKept
    BY <2>0, <2>1 DEF IdKept
  <2>2. CASE IdFound
    BY <2>0, <2>2 DEF IdFound, CInv, SeeksOK, Struck, SeekPCs, FoundPCs, ChangedPCs
  <2>3. CASE IdGone
    BY <2>0, <2>3 DEF IdGone, Struck, DeadIn, MemFreshOK, ChangedPCs
  <2> QED BY <2>1, <2>2, <2>3 DEF StepInside
<1> QED BY <1>1, <1>2, <1>3 DEF CInv, StepInside

\* The worker's id replaces one that is struck: no other copy stood by it.
LEMMA StoredInv ==
  ASSUME CInv, IInv', UNCHANGED <<cur, cache, lastInc>>, StepStored
  PROVE  CInv'
<1>1. PICK rec \in Resource :
        /\ Store(rec)
        /\ SameClaim(mem, rec) \/ BindsClaim(mem, rec) \/ TakesClaim(mem, rec)
        /\ \/ Ended
           \/ /\ mem' = rec /\ UNCHANGED memFresh
              /\ pc' \notin ChangedPCs /\ SeeksOK(pc', rec)
  BY DEF StepStored
<1>2. rec.id = mem.id /\ rec.inc = mem.inc
  BY <1>1 DEF SameClaim, BindsClaim, TakesClaim, ClaimOf
<1>3. /\ IInv /\ memFresh /\ cur \in Objects /\ cr \in [Objects -> Resource]
      /\ MemFreshOK(TRUE, mem, cr[cur], cache[cur]) /\ UNCHANGED harbor
      /\ CopyOK(cache[cur], cr[cur], lastInc[cur], harbor, lastId)
  BY DEF CInv, IInv, TypeOK, StepStored, Accepted
<1>4. /\ cr'[cur] = rec
      /\ \A o \in Objects \ {cur} : cr'[o] = cr[o]
  BY <1>1, <1>3 DEF Store
<1>5. StandsOK(cache[cur], rec, harbor)
  <2> SUFFICES ASSUME cache[cur].inc # 0, cache[cur].inc = rec.inc, cache[cur].id # 0,
                      ~DeadIn(harbor, cache[cur])
               PROVE  cache[cur].id = rec.id
    BY DEF StandsOK
  <2>1. cache[cur].inc = cr[cur].inc
    BY <1>2, <1>3 DEF MemFreshOK
  <2>2. cr[cur].id = cache[cur].id
    BY <2>1, <1>3 DEF CInv, StandsOK
  <2>3. cr[cur].bound = cache[cur].bound
    BY <2>1, <1>3 DEF CopyOK, IdKnown
  <2>4. ~Struck(cr[cur], harbor)
    BY <2>2, <2>3 DEF Struck, DeadIn
  <2>5. mem.id = cr[cur].id
    BY <2>4, <1>3 DEF CInv, MemIdOK
  <2> QED BY <2>2, <2>5, <1>2
<1>6. \A o \in Objects : StandsOK(cache'[o], cr'[o], harbor')
  <2> SUFFICES ASSUME NEW o \in Objects PROVE StandsOK(cache'[o], cr'[o], harbor')
    OBVIOUS
  <2>1. CASE o = cur
    BY <2>1, <1>3, <1>4, <1>5
  <2>2. CASE o # cur
    BY <2>2, <1>3, <1>4 DEF CInv
  <2> QED BY <2>1, <2>2
<1>7. CASE Ended
  BY <1>6, <1>7, QuitSuffices
<1>8. CASE /\ mem' = rec /\ UNCHANGED memFresh
           /\ pc' \notin ChangedPCs /\ SeeksOK(pc', rec)
  BY <1>4, <1>6, <1>8 DEF CInv, MemStandsOK, StandsOK, MemIdOK
<1> QED BY <1>1, <1>7, <1>8

LEMMA RemovedInv ==
  ASSUME CInv, IInv', UNCHANGED <<cur, cache, lastInc>>, StepRemoved
  PROVE  CInv'
<1>1. cur \in Objects /\ cr \in [Objects -> Resource] /\ UNCHANGED harbor
  BY DEF CInv, IInv, TypeOK, StepRemoved
<1>2. \A o \in Objects : cr'[o] = cr[o] \/ cr'[o] = NoResource
  BY <1>1 DEF StepRemoved, Store
<1>3. \A o \in Objects : StandsOK(cache'[o], cr'[o], harbor')
  BY <1>1, <1>2, NoResourceType DEF CInv, StandsOK
<1> QED BY <1>3, QuitSuffices DEF StepRemoved

LEMMA CustodyStepInv ==
  ASSUME CInv, IInv', HarborMoves(harbor, lastId, harbor', lastId'), CustodyStep
  PROVE  CInv'
<1>1. CASE StepQuit
  <2>1. \A o \in Objects : StandsOK(cache'[o], cr'[o], harbor')
    BY <1>1, CacheStands DEF CustodyStep, StepQuit, IInv
  <2> QED BY <1>1, <2>1, QuitSuffices DEF StepQuit
<1> QED BY <1>1, InsideInv, StoredInv, RemovedInv DEF CustodyStep

-----------------------------------------------------------------------------
(* Every reconcile step has one of the shapes *)

LEMMA QuitStep ==
  ASSUME NEW r, NEW d, Return(r, d), UNCHANGED <<cr, cache, lastInc>>,
         UNCHANGED harbor \/ Mutation
  PROVE  CustodyStep
BY DEF Return, CustodyStep, StepQuit, Ended

\* The worker goes on with the copy it has.
LEMMA GotoStep ==
  ASSUME NEW p, Goto(p, mem), UNCHANGED <<cr, cache, lastInc>>,
         UNCHANGED harbor \/ Mutation,
         pc \notin ChangedPCs, p \notin ChangedPCs, SeeksOK(p, mem)
  PROVE  CustodyStep
BY DEF Goto, CustodyStep, StepInside, IdKept

LEMMA CallFailedStep ==
  ASSUME NEW reason, CallFailed(reason), UNCHANGED <<cr, cache, lastInc>>,
         UNCHANGED harbor \/ Mutation, pc \notin ChangedPCs
  PROVE  CustodyStep
BY DEF CallFailed, CustodyStep, StepInside, IdKept, ChangedPCs, FoundPCs, SeeksOK, SeekPCs

LEMMA RefusedStep ==
  ASSUME Refused, UNCHANGED <<cache, lastInc, harbor>>
  PROVE  CustodyStep
BY QuitStep DEF Refused

LEMMA PersistStep ==
  ASSUME NEW p, NEW rec \in Resource, Persist(rec, p),
         UNCHANGED <<cache, lastInc, harbor>>, mem.inc # 0,
         SameClaim(mem, rec) \/ BindsClaim(mem, rec) \/ TakesClaim(mem, rec),
         p \notin ChangedPCs, SeeksOK(p, rec)
  PROVE  CustodyStep
<1>1. CASE Accepted /\ Store(rec) /\ Goto(p, rec)
  BY <1>1 DEF Goto, CustodyStep, StepStored
<1>2. CASE Refused
  BY <1>2, RefusedStep
<1> QED BY <1>1, <1>2 DEF Persist

LEMMA PersistAndReturnStep ==
  ASSUME NEW r, NEW d, NEW rec \in Resource, PersistAndReturn(rec, r, d),
         UNCHANGED <<cache, lastInc, harbor>>, mem.inc # 0, SameClaim(mem, rec)
  PROVE  CustodyStep
<1>1. CASE Accepted /\ Store(rec) /\ Return(r, d)
  BY <1>1 DEF Return, Ended, CustodyStep, StepStored
<1>2. CASE Refused
  BY <1>2, RefusedStep
<1> QED BY <1>1, <1>2 DEF PersistAndReturn

LEMMA MarkedClaim ==
  ASSUME NEW rec \in Resource, NEW reason
  PROVE  SameClaim(rec, Marked(rec, reason)) /\ Marked(rec, reason).id = rec.id
BY DEF SameClaim, ClaimOf, Marked, Resource

LEMMA SetStatusStep ==
  ASSUME NEW reason \in Reasons, NEW r, NEW d, SetStatusAndReturn(reason, r, d),
         UNCHANGED <<cache, lastInc, harbor>>, mem.inc # 0, mem \in Resource
  PROVE  CustodyStep
<1>1. CASE PersistAndReturn(Marked(mem, reason), r, d)
  BY <1>1, MarkedType, MarkedClaim, PersistAndReturnStep
<1>2. CASE Return(r, d) /\ UNCHANGED <<cr, cacheFresh>>
  BY <1>2, QuitStep
<1> QED BY <1>1, <1>2 DEF SetStatusAndReturn

LEMMA RemoveFinalizerStep ==
  ASSUME RemoveFinalizer, UNCHANGED <<cache, lastInc, harbor>>,
         mem.deleting, LetGo(mem, harbor)
  PROVE  CustodyStep
<1>1. CASE PersistAndReturn(NoResource, FALSE, FALSE)
  <2>1. CASE Accepted /\ Store(NoResource) /\ Return(FALSE, FALSE)
    BY <2>1 DEF Return, Ended, CustodyStep, StepRemoved
  <2>2. CASE Refused
    BY <2>2, RefusedStep
  <2> QED BY <1>1, <2>1, <2>2 DEF PersistAndReturn
<1>2. CASE Return(FALSE, FALSE) /\ UNCHANGED <<cr, cacheFresh>>
  BY <1>2, QuitStep
<1> QED BY <1>1, <1>2 DEF RemoveFinalizer

LEMMA WithoutConnectionStep ==
  ASSUME NEW reason \in Reasons, NEW nf, WithoutConnection(reason, nf),
         UNCHANGED <<cache, lastInc, harbor>>, mem.inc # 0, mem \in Resource
  PROVE  CustodyStep
BY RemoveFinalizerStep, SetStatusStep DEF WithoutConnection, Fail, LetGo

\* The worker looks for an object only where it has none on record.
LEMMA SeekTargets ==
  ASSUME NEW c
  PROVE  /\ SeeksOK(HeldPC(c), c) /\ SeeksOK(ResolvedPC(c), c) /\ SeeksOK(AcquiredPC(c), c)
         /\ HeldPC(c) \notin ChangedPCs /\ ResolvedPC(c) \notin ChangedPCs
         /\ AcquiredPC(c) \notin ChangedPCs
BY DEF HeldPC, ResolvedPC, AcquiredPC, AcquirePC, ApplyPC, SeeksOK, SeekPCs,
       ChangedPCs, FoundPCs

LEMMA FoundStep ==
  ASSUME NEW p \in FoundPCs, NEW i, Goto(p, [mem EXCEPT !.id = i]), mem \in Resource,
         UNCHANGED <<cr, cache, lastInc>>, UNCHANGED harbor \/ Mutation, pc \in SeekPCs
  PROVE  CustodyStep
<1>1. mem'.inc = mem.inc /\ mem'.bound = mem.bound
  BY DEF Goto, Resource
<1>2. SeeksOK(pc', mem')
  BY DEF Goto, SeeksOK, SeekPCs, FoundPCs
<1> QED BY <1>1, <1>2 DEF Goto, CustodyStep, StepInside, IdFound

LEMMA ReconcileStep == ASSUME CInv, Reconcile PROVE CustodyStep
<1>0. /\ mem \in Resource /\ err \in Reasons /\ conn \in 0..MaxUid
      /\ {"HarborError", "Conflict", "NotFound", "Reconciling", "Created",
          "Reconciled", "ConnectionNotFound", "SecretNotFound", "ConnectionChanged",
          "ReferenceError", "CreationDenied"} \subseteq Reasons
      /\ IInv /\ SeeksOK(pc, mem) /\ PositionOK(pc, mem, harbor)
  BY DEF CInv, IInv, TypeOK, Reasons, ReadyReasons, NotReadyReasons
<1>1. UNCHANGED <<kind, lastInc, cache, harborVars, worldVars>>
      => UNCHANGED <<cache, lastInc, harbor>>
  BY DEF harborVars
<1>2. pc # "idle" => mem.inc # 0
  BY <1>0 DEF PositionOK
<1>3. UNCHANGED <<kind, apiVars>> => UNCHANGED <<cr, cache, lastInc>>
  BY DEF apiVars
<1>4. pc \notin {"idle", "mark", "bind"} => mem.bound # 0
  BY <1>0 DEF PositionOK
<1>a. CASE MarkReconcilingIfNeeded
  <2>0. mem.inc # 0 /\ pc \notin ChangedPCs /\ UNCHANGED <<cache, lastInc, harbor>>
    BY <1>a, <1>1, <1>2 DEF MarkReconcilingIfNeeded, ChangedPCs, FoundPCs
  <2>1. "bind" \notin ChangedPCs /\ \A c : SeeksOK("bind", c)
    BY DEF ChangedPCs, FoundPCs, SeeksOK, SeekPCs
  <2>2. CASE Goto("bind", mem) /\ UNCHANGED <<cr, cacheFresh>>
    BY <2>0, <2>1, <2>2, GotoStep
  <2>3. CASE Persist(Marked(mem, "Reconciling"), "bind")
    BY <2>0, <2>1, <2>3, <1>0, MarkedType, MarkedClaim, PersistStep
  <2> QED BY <1>a, <2>2, <2>3 DEF MarkReconcilingIfNeeded
<1>b. CASE GetHarborClientForObject
  <2>0. mem.inc # 0 /\ pc = "bind" /\ UNCHANGED <<cache, lastInc, harbor>>
    BY <1>b, <1>1, <1>2 DEF GetHarborClientForObject
  <2>1. "client" \notin ChangedPCs /\ pc \notin ChangedPCs /\ \A c : SeeksOK("client", c)
    BY <2>0 DEF ChangedPCs, FoundPCs, SeeksOK, SeekPCs
  <2>2. CASE \/ WithoutConnection("ConnectionNotFound", TRUE)
             \/ WithoutConnection("ConnectionChanged", FALSE)
    BY <2>0, <2>2, <1>0, WithoutConnectionStep
  <2>3. CASE Goto("client", mem) /\ UNCHANGED <<cr, cacheFresh>>
    BY <2>0, <2>1, <2>3, GotoStep
  <2>4. CASE conn # 0 /\ mem.bound = 0 /\ Persist([mem EXCEPT !.bound = conn], "client")
    <3> DEFINE rec == [mem EXCEPT !.bound = conn]
    <3>1. /\ rec \in Resource /\ rec.bound = conn
          /\ rec.inc = mem.inc /\ rec.fin = mem.fin /\ rec.id = mem.id
          /\ rec.deletionPolicy = mem.deletionPolicy /\ rec.deleting = mem.deleting
      BY <1>0 DEF Resource
    <3>2. Persist(rec, "client")
      BY <2>4
    <3> HIDE DEF rec
    <3>3. ClaimOf(rec) = [ClaimOf(mem) EXCEPT !.at = rec.bound]
      BY <3>1 DEF ClaimOf
    <3>4. BindsClaim(mem, rec)
      BY <2>0, <2>4, <3>1, <3>3 DEF BindsClaim
    <3> QED BY <2>0, <2>1, <3>1, <3>2, <3>4, PersistStep
  <2> QED BY <1>b, <2>2, <2>3, <2>4 DEF GetHarborClientForObject
<1>c. CASE BuildHarborClient
  <2>0. mem.inc # 0 /\ pc = "client" /\ UNCHANGED <<cache, lastInc, harbor>>
    BY <1>c, <1>1, <1>2 DEF BuildHarborClient
  <2>1. CASE WithoutConnection("SecretNotFound", TRUE)
    BY <2>0, <2>1, <1>0, WithoutConnectionStep
  <2>2. ASSUME NEW p \in {"finalize", "finalizer"}, Goto(p, mem), UNCHANGED <<cr, cacheFresh>>
        PROVE  CustodyStep
    BY <2>0, <2>2, GotoStep DEF ChangedPCs, FoundPCs, SeeksOK, SeekPCs
  <2> QED BY <1>c, <2>1, <2>2 DEF BuildHarborClient
<1>d. CASE FinalizeIfDeleting
  <2>1. mem.deleting /\ LetGo(mem, harbor) /\ UNCHANGED <<cache, lastInc, harbor>>
    BY <1>d, <1>0, <1>1 DEF FinalizeIfDeleting, CleanupNeeded, LetGo, PositionOK
  <2> QED BY <1>d, <2>1, RemoveFinalizerStep DEF FinalizeIfDeleting
<1>e. CASE DeleteRemote
  <2>0. pc = "finalize" /\ Mutation /\ UNCHANGED <<cr, cache, lastInc>>
    BY <1>e, <1>3 DEF DeleteRemote, Mutation
  <2>1. pc \notin ChangedPCs /\ "unfinalize" \notin ChangedPCs /\ SeeksOK("unfinalize", mem)
    BY <2>0 DEF ChangedPCs, FoundPCs, SeeksOK, SeekPCs
  <2>2. CASE CleanupFailed
    BY <2>0, <2>1, <2>2, QuitStep, CallFailedStep DEF CleanupFailed
  <2>3. CASE Goto("unfinalize", mem)
    BY <2>0, <2>1, <2>3, GotoStep
  <2> QED BY <1>e, <2>2, <2>3 DEF DeleteRemote
<1>f. CASE FinalizeAfterCleanup
  <2>1. mem.deleting /\ LetGo(mem, harbor) /\ UNCHANGED <<cache, lastInc, harbor>>
    BY <1>f, <1>0, <1>1 DEF FinalizeAfterCleanup, LetGo, PositionOK
  <2> QED BY <1>f, <2>1, RemoveFinalizerStep DEF FinalizeAfterCleanup
<1>g. CASE EnsureFinalizer
  <2>0. /\ mem.inc # 0 /\ pc = "finalizer" /\ pc \notin ChangedPCs
        /\ UNCHANGED <<cache, lastInc, harbor>> /\ mem.bound # 0 /\ ~mem.deleting
    BY <1>g, <1>0, <1>1, <1>2, <1>4 DEF EnsureFinalizer, PositionOK, ChangedPCs, FoundPCs
  <2>1. CASE Goto(HeldPC(mem), mem) /\ UNCHANGED <<cr, cacheFresh>>
    BY <2>0, <2>1, SeekTargets, GotoStep
  <2>2. CASE Persist([mem EXCEPT !.fin = TRUE], HeldPC(mem))
    <3> DEFINE rec == [mem EXCEPT !.fin = TRUE]
    <3>1. /\ rec \in Resource /\ rec.bound = mem.bound
          /\ rec.inc = mem.inc /\ rec.fin = TRUE /\ rec.id = mem.id
          /\ rec.fin \in BOOLEAN
          /\ rec.deletionPolicy = mem.deletionPolicy /\ rec.deleting = mem.deleting
      BY <1>0 DEF Resource
    <3>2. Persist(rec, HeldPC(mem))
      BY <2>2
    <3> HIDE DEF rec
    <3>3. ClaimOf(rec) = [ClaimOf(mem) EXCEPT !.held = TRUE]
      <4>1. ClaimOf(rec) = [ClaimOf(mem) EXCEPT !.held = rec.fin]
        BY <3>1 DEF ClaimOf
      <4> QED BY <3>1, <4>1, Zenon
    <3>4. TakesClaim(mem, rec)
      BY <2>0, <3>3 DEF TakesClaim
    <3>5. SeeksOK(HeldPC(mem), rec) /\ HeldPC(mem) \notin ChangedPCs
      BY <3>1, SeekTargets DEF SeeksOK
    <3> QED BY <2>0, <3>1, <3>2, <3>4, <3>5, PersistStep
  <2> QED BY <1>g, <2>1, <2>2 DEF EnsureFinalizer
<1>h. CASE ResolveReferences
  <2>0. mem.inc # 0 /\ pc \notin ChangedPCs /\ UNCHANGED <<cache, lastInc, harbor>>
    BY <1>h, <1>1, <1>2 DEF ResolveReferences, ChangedPCs, FoundPCs
  <2>1. CASE Goto(ResolvedPC(mem), mem) /\ UNCHANGED <<cr, cacheFresh>>
    BY <2>0, <2>1, SeekTargets, GotoStep
  <2>2. CASE Fail("ReferenceError")
    BY <2>0, <2>2, <1>0, SetStatusStep DEF Fail
  <2> QED BY <1>h, <2>1, <2>2 DEF ResolveReferences
<1>i. CASE AdoptExisting
  <2>0. pc \in SeekPCs /\ pc \notin ChangedPCs /\ UNCHANGED <<cr, cache, lastInc, harbor>>
    BY <1>i, <1>3 DEF AdoptExisting, SeekPCs, ChangedPCs, FoundPCs, harborVars
  <2>1. ASSUME NEW x, Goto("adopted", [mem EXCEPT !.id = x.id]) PROVE CustodyStep
    <3>1. "adopted" \in FoundPCs
      BY DEF FoundPCs
    <3> QED BY <2>0, <2>1, <3>1, <1>0, FoundStep
  <2>2. CASE Goto(AcquiredPC(mem), mem)
    BY <2>0, <2>2, SeekTargets, GotoStep
  <2>3. CASE CallFailed("HarborError")
    BY <2>0, <2>3, CallFailedStep
  <2> QED BY <1>i, <2>1, <2>2, <2>3 DEF AdoptExisting
<1>j. CASE PersistAdoption
  <2>0. mem.inc # 0 /\ UNCHANGED <<cache, lastInc, harbor>> /\ SameClaim(mem, mem)
    BY <1>j, <1>1, <1>2 DEF PersistAdoption, SameClaim
  <2> QED BY <1>j, <2>0, <1>0, SeekTargets, PersistStep, PersistAndReturnStep
      DEF PersistAdoption
<1>k. CASE RequireCreationAllowed
  BY <1>k, <1>0, <1>1, <1>2, SetStatusStep DEF RequireCreationAllowed, Fail
<1>l. CASE CreateRemote
  <2>0. /\ pc \in SeekPCs /\ pc \notin ChangedPCs /\ Mutation
        /\ UNCHANGED <<cr, cache, lastInc>> /\ mem.id = 0
    BY <1>l, <1>0, <1>3
    DEF CreateRemote, SeekPCs, ChangedPCs, FoundPCs, Mutation, SeeksOK
  <2>1. CASE Goto("lookup", mem)
    <3>1. "lookup" \notin ChangedPCs /\ SeeksOK("lookup", mem)
      BY <2>0 DEF ChangedPCs, FoundPCs, SeeksOK
    <3> QED BY <2>0, <2>1, <3>1, GotoStep
  <2>2. CASE Goto("created", [mem EXCEPT !.id = NewObject.id])
    <3>1. "created" \in FoundPCs
      BY DEF FoundPCs
    <3> QED BY <2>0, <2>2, <3>1, <1>0, FoundStep
  <2>3. CASE CallFailed("HarborError") \/ CallFailed("Conflict")
    BY <2>0, <2>3, CallFailedStep
  <2> QED BY <1>l, <2>1, <2>2, <2>3 DEF CreateRemote
<1>m. CASE LookupRemote
  <2>0. /\ pc \in SeekPCs /\ pc \notin ChangedPCs /\ UNCHANGED <<cr, cache, lastInc, harbor>>
        /\ mem.id = 0
    BY <1>m, <1>0, <1>3
    DEF LookupRemote, SeekPCs, ChangedPCs, FoundPCs, harborVars, SeeksOK
  <2>1. ASSUME NEW p \in FoundPCs, NEW i, Goto(p, [mem EXCEPT !.id = i]) PROVE CustodyStep
    BY <2>0, <2>1, <1>0, FoundStep
  <2>2. CASE Goto("created", mem)
    <3>1. mem = [mem EXCEPT !.id = 0] /\ "created" \in FoundPCs
      BY <2>0, <1>0 DEF Resource, FoundPCs
    <3> QED BY <2>1, <2>2, <3>1
  <2>3. CASE CallFailed("HarborError")
    BY <2>0, <2>3, CallFailedStep
  <2>4. {"created", "adopted"} \subseteq FoundPCs
    BY DEF FoundPCs
  <2> QED BY <1>m, <2>1, <2>2, <2>3, <2>4 DEF LookupRemote
<1>n. CASE SetCreatedStatus
  BY <1>n, <1>0, <1>1, <1>2, SetStatusStep DEF SetCreatedStatus
<1>o. CASE GetRemote
  <2>0. /\ pc \notin ChangedPCs /\ UNCHANGED <<cr, cache, lastInc, harbor>>
        /\ mem.id # 0
    BY <1>o, <1>0, <1>3 DEF GetRemote, ChangedPCs, FoundPCs, harborVars, SeeksOK
  <2>1. CASE Recorded = {} /\ Goto("notFound", [mem EXCEPT !.id = 0])
    <3>1. mem'.inc = mem.inc /\ mem'.bound = mem.bound /\ mem'.id = 0 /\ pc' = "notFound"
      BY <2>1, <1>0 DEF Goto, Resource
    <3>2. DeadIn(harbor', mem)
      BY <2>0, <2>1 DEF DeadIn, Recorded
    <3>3. IdGone /\ SeeksOK(pc', mem')
      BY <2>0, <3>1, <3>2 DEF IdGone, SeeksOK
    <3> QED BY <2>0, <2>1, <3>1, <3>3 DEF Goto, CustodyStep, StepInside
  <2>2. ASSUME NEW p \in {"ready", "update"}, Goto(p, mem) PROVE CustodyStep
    BY <2>0, <2>2, GotoStep DEF ChangedPCs, FoundPCs, SeeksOK, SeekPCs
  <2>3. CASE CallFailed("HarborError")
    BY <2>0, <2>3, CallFailedStep
  <2> QED BY <1>o, <2>1, <2>2, <2>3 DEF GetRemote
<1>p. CASE RequeueOnRemoteNotFound
  BY <1>p, <1>0, <1>1, <1>2, SetStatusStep DEF RequeueOnRemoteNotFound
<1>q. CASE UpdateRemote
  <2>0. pc \notin ChangedPCs /\ Mutation /\ UNCHANGED <<cr, cache, lastInc>>
    BY <1>q, <1>3 DEF UpdateRemote, ChangedPCs, FoundPCs, Mutation
  <2>1. CASE Goto("ready", mem)
    <3>1. "ready" \notin ChangedPCs /\ SeeksOK("ready", mem)
      BY DEF ChangedPCs, FoundPCs, SeeksOK, SeekPCs
    <3> QED BY <2>0, <2>1, <3>1, GotoStep
  <2>2. CASE CallFailed("HarborError")
    BY <2>0, <2>2, CallFailedStep
  <2> QED BY <1>q, <2>1, <2>2 DEF UpdateRemote
<1>r. CASE SetReadyStatus
  BY <1>r, <1>0, <1>1, <1>2, SetStatusStep DEF SetReadyStatus
<1>s. CASE SetErrorStatus
  BY <1>s, <1>0, <1>1, <1>2, SetStatusStep DEF SetErrorStatus, Fail
<1> QED
  BY <1>a, <1>b, <1>c, <1>d, <1>e, <1>f, <1>g, <1>h, <1>i, <1>j, <1>k, <1>l, <1>m,
     <1>n, <1>o, <1>p, <1>q, <1>r, <1>s DEF Reconcile

-----------------------------------------------------------------------------
(* The other steps keep the invariant *)

\* A step that writes a resource's record without its worker: the id stays, or the
\* resource is another incarnation or none.
LEMMA ServerChangeInv ==
  ASSUME CInv, IInv', UNCHANGED <<cache, pc, cur, mem, harbor>>,
         memFresh' => memFresh /\ cr'[cur] = cr[cur],
         \A o \in Objects :
           \/ cr'[o].inc = cr[o].inc /\ cr'[o].id = cr[o].id
           \/ cr'[o].inc = 0 \/ cr'[o].inc = lastInc[o] + 1
  PROVE  CInv'
<1>1. ASSUME NEW o \in Objects, NEW c \in Resource, c.inc # 0 => c.inc <= lastInc[o],
             StandsOK(c, cr[o], harbor)
      PROVE  StandsOK(c, cr'[o], harbor)
  <2>1. c.inc \in Nat /\ lastInc[o] \in Nat
    BY DEF CInv, IInv, TypeOK, Resource
  <2> QED BY <1>1, <2>1 DEF StandsOK
<1>2. /\ \A o \in Objects : cache[o] \in Resource /\ (cache[o].inc # 0 => cache[o].inc <= lastInc[o])
      /\ mem \in Resource /\ (mem.inc # 0 => mem.inc <= lastInc[cur]) /\ cur \in Objects
  BY DEF CInv, IInv, TypeOK, CopyOK
<1>3. \A o \in Objects : StandsOK(cache'[o], cr'[o], harbor')
  BY <1>1, <1>2 DEF CInv
<1>4. MemStandsOK(pc', mem', cr'[cur'], harbor')
  BY <1>1, <1>2 DEF CInv, MemStandsOK
<1> QED BY <1>3, <1>4 DEF CInv, MemIdOK

LEMMA UserWritesStep ==
  ASSUME CInv, IInv', NEW o \in Objects, NEW rec, UserWrites(o, rec),
         \/ rec.inc = cr[o].inc /\ rec.id = cr[o].id
         \/ rec.inc = 0 \/ rec.inc = lastInc[o] + 1
  PROVE  CInv'
<1>1. cr \in [Objects -> Resource] /\ cur \in Objects
  BY DEF CInv, IInv, TypeOK
<1>2. \A u \in Objects : cr'[u] = IF u = o THEN rec ELSE cr[u]
  BY <1>1 DEF UserWrites
<1>3. UNCHANGED <<cache, pc, cur, mem, harbor>> /\ memFresh' = (memFresh /\ cur # o)
  BY DEF UserWrites, harborVars
<1> QED BY <1>1, <1>2, <1>3, ServerChangeInv

LEMMA UserInv ==
  ASSUME CInv, IInv', NEW o \in Objects, UserCreate(o) \/ UserEdit(o) \/ UserDelete(o)
  PROVE  CInv'
<1>0. cr[o] \in Resource /\ lastInc[o] \in Nat
  BY DEF CInv, IInv, TypeOK
<1>1. CASE UserCreate(o)
  <2>1. PICK d \in Data, cp \in CreationPolicies, dp \in DeletionPolicies :
          UserWrites(o, NewResource(lastInc[o] + 1, d, cp, dp))
    BY <1>1 DEF UserCreate
  <2>2. NewResource(lastInc[o] + 1, d, cp, dp).inc = lastInc[o] + 1
    BY NoResourceType DEF NewResource, Resource
  <2> QED BY <2>1, <2>2, UserWritesStep
<1>2. CASE UserEdit(o)
  <2>1. PICK d \in Data, dp \in DeletionPolicies :
          UserWrites(o, [cr[o] EXCEPT !.gen = @ + 1, !.data = d, !.deletionPolicy = dp])
    BY <1>2 DEF UserEdit
  <2> DEFINE rec == [cr[o] EXCEPT !.gen = @ + 1, !.data = d, !.deletionPolicy = dp]
  <2>2. rec.inc = cr[o].inc /\ rec.id = cr[o].id
    BY <1>0 DEF Resource
  <2> QED BY <2>1, <2>2, UserWritesStep
<1>3. CASE UserDelete(o)
  <2> DEFINE rec == [cr[o] EXCEPT !.deleting = TRUE, !.gen = @ + 1]
  <2>1. rec.inc = cr[o].inc /\ rec.id = cr[o].id
    BY <1>0 DEF Resource
  <2>2. UserWrites(o, rec) \/ UserWrites(o, NoResource)
    BY <1>3 DEF UserDelete
  <2> QED BY <2>1, <2>2, NoResourceType, UserWritesStep
<1> QED BY <1>1, <1>2, <1>3

LEMMA LoadInv == ASSUME CInv, IInv', NEW o \in Objects, LoadResource(o) PROVE CInv'
<1>1. UNCHANGED <<cr, cache, harbor>> /\ cur' = o
  BY DEF LoadResource, apiVars, harborVars
<1>2. \A u \in Objects : StandsOK(cache'[u], cr'[u], harbor')
  BY <1>1 DEF CInv
<1>3. CASE cache[o].inc = 0
  BY <1>2, <1>3, QuitSuffices DEF LoadResource, Ended
<1>4. CASE cache[o].inc # 0
  <2>1. pc' = "mark" /\ mem' = cache[o] /\ memFresh' = cacheFresh[o]
    BY <1>4 DEF LoadResource
  <2>2. cacheFresh[o] => cache[o] = cr[o]
    BY DEF CInv, IInv
  <2> QED BY <1>1, <1>2, <2>1, <2>2
          DEF CInv, SeeksOK, SeekPCs, MemStandsOK, MemIdOK, ChangedPCs, FoundPCs
<1> QED BY <1>3, <1>4

LEMMA SyncInv == ASSUME CInv, IInv', NEW o \in Objects, SyncCache(o) PROVE CInv'
<1>1. /\ UNCHANGED <<cr, pc, cur, mem, memFresh, harbor>>
      /\ \A u \in Objects : cache'[u] = cr[u] \/ cache'[u] = cache[u]
  BY DEF SyncCache, harborVars, CInv, IInv, TypeOK
<1> QED BY <1>1 DEF CInv, StandsOK

LEMMA CrashedInv == ASSUME CInv, IInv', Crash PROVE CInv'
<1>1. UNCHANGED cr /\ cache' = cr /\ Ended
  BY DEF Crash, Ended
<1> QED BY <1>1, QuitSuffices DEF StandsOK

\* Other clients change Harbor.
LEMMA ForeignInv ==
  ASSUME CInv, IInv', HarborOK, UNCHANGED <<apiVars, pc, cur, mem, memFresh>>
  PROVE  CInv'
<1>0. /\ TypeOK' /\ IInv /\ harbor' \subseteq HarborObject
      /\ UNCHANGED <<cr, cache, pc, cur, mem, memFresh>>
      /\ HarborMoves(harbor, lastId, harbor', lastId')
  BY DEF CInv, IInv, TypeOK, apiVars, HarborOK
<1>1. \A o \in Objects : StandsOK(cache'[o], cr'[o], harbor')
  BY <1>0, CacheStands
<1>2. MemStandsOK(pc', mem', cr'[cur'], harbor')
  BY <1>0, IdsKnown, StandsHarborMoves DEF CInv, MemStandsOK
<1>3. MemIdOK(pc', memFresh', mem', cr'[cur'], harbor')
  <2>1. memFresh => cr[cur].inc # 0
    BY <1>0 DEF IInv, MemFreshOK
  <2>2. memFresh /\ Struck(cr[cur], harbor) => Struck(cr[cur], harbor')
    BY <1>0, <2>1, IdsKnown, StruckStays
  <2> QED BY <1>0, <2>2 DEF CInv, MemIdOK
<1> QED BY <1>0, <1>1, <1>2, <1>3 DEF CInv

LEMMA CInvInit == Init => CInv
<1> SUFFICES ASSUME Init PROVE CInv
  OBVIOUS
<1>1. /\ \A o \in Objects : cache[o] = NoResource
      /\ pc = "idle" /\ mem = NoResource /\ memFresh = FALSE
  BY DEF Init
<1> QED BY <1>1, IInvInit, NoResourceType
        DEF CInv, StandsOK, SeeksOK, SeekPCs, MemStandsOK, MemIdOK

LEMMA CInvStep == CInv /\ [Next]_vars => CInv'
<1> SUFFICES ASSUME CInv, [Next]_vars PROVE CInv'
  OBVIOUS
<1>0. IInv' /\ TypeOK' /\ IInv
  BY IInvStep DEF CInv, IInv
<1>1. CASE Reconcile
  <2>1. HarborMoves(harbor, lastId, harbor', lastId')
    BY <1>0, <1>1, ReconcileShape DEF WorkerStep
  <2> QED BY <1>0, <1>1, <2>1, ReconcileStep, CustodyStepInv
<1>2. ASSUME NEW o \in Objects,
             \/ LoadResource(o) \/ SyncCache(o)
             \/ UserCreate(o) \/ UserEdit(o) \/ UserDelete(o)
      PROVE  CInv'
  BY <1>0, <1>2, LoadInv, SyncInv, UserInv
<1>3. CASE Crash
  BY <1>0, <1>3, CrashedInv
<1>4. CASE ForeignCreate \/ ForeignUpdate \/ ForeignDelete
  <2>1. UNCHANGED <<apiVars, pc, cur, mem, memFresh>>
    BY <1>4 DEF ForeignCreate, ForeignUpdate, ForeignDelete, workerVars
  <2> QED BY <1>0, <1>4, <2>1, ForeignHarbor, ForeignInv
<1>5. ASSUME \/ DeleteConnection \/ CreateConnection \/ LoseSecret \/ RestoreSecret
             \/ LoseReference \/ ReferenceResolves \/ UNCHANGED vars
             \/ \E o \in Objects : DriftTimer(o)
      PROVE  CInv'
  <2>1. UNCHANGED <<apiVars, pc, cur, mem, memFresh, harbor, lastId>>
    BY <1>5
    DEF DeleteConnection, CreateConnection, LoseSecret, RestoreSecret, LoseReference,
        ReferenceResolves, DriftTimer, vars, workerVars, harborVars
  <2>2. HarborOK
    BY <1>0, <2>1, QuietHarbor DEF Quiet, apiVars
  <2> QED BY <1>0, <2>1, <2>2, ForeignInv
<1> QED BY <1>1, <1>2, <1>3, <1>4, <1>5 DEF Next

LEMMA HeldStep == CInv /\ HeldOK /\ [Next]_vars => HeldOK'
<1> SUFFICES ASSUME CInv, HeldOK, [Next]_vars PROVE HeldOK'
  OBVIOUS
<1>0. /\ cr \in [Objects -> Resource] /\ cur \in Objects /\ IInv /\ TypeOK'
      /\ ~NoResource.deleting
  BY IInvStep DEF CInv, IInv, TypeOK, NoResource
<1>1. CASE UNCHANGED cr
  BY <1>1 DEF HeldOK
<1>2. CASE WorkerStep
  <2>1. CASE StepWrote
    <3>1. PICK rec \in Resource : Store(rec) /\ Writes(mem, rec)
      BY <2>1 DEF StepWrote
    <3>2. cr[cur].fin = mem.fin /\ cr[cur].deleting = mem.deleting
      BY <1>0, <2>1 DEF StepWrote, Accepted, IInv, MemFreshOK
    <3> QED BY <1>0, <3>1, <3>2 DEF HeldOK, Store, Writes
  <2>2. CASE StepRemoved
    BY <1>0, <2>2 DEF StepRemoved, Store, HeldOK
  <2> QED BY <1>1, <1>2, <2>1, <2>2 DEF WorkerStep, StepEnded, StepMoved
<1>3. ASSUME NEW o \in Objects, UserCreate(o) \/ UserEdit(o) \/ UserDelete(o)
      PROVE  HeldOK'
  <2>1. PICK rec : /\ UserWrites(o, rec)
                   /\ rec.deleting => rec.fin
    <3>1. CASE UserCreate(o)
      <4>1. PICK d \in Data, cp \in CreationPolicies, dp \in DeletionPolicies :
              UserWrites(o, NewResource(lastInc[o] + 1, d, cp, dp))
        BY <3>1 DEF UserCreate
      <4>2. ~NewResource(lastInc[o] + 1, d, cp, dp).deleting
        BY DEF NewResource, NoResource
      <4> QED BY <4>1, <4>2
    <3>2. CASE UserEdit(o)
      <4>1. PICK d \in Data, dp \in DeletionPolicies :
              UserWrites(o, [cr[o] EXCEPT !.gen = @ + 1, !.data = d, !.deletionPolicy = dp])
        BY <3>2 DEF UserEdit
      <4> DEFINE rec == [cr[o] EXCEPT !.gen = @ + 1, !.data = d, !.deletionPolicy = dp]
      <4>2. rec.deleting = cr[o].deleting /\ rec.fin = cr[o].fin
        BY <1>0 DEF Resource
      <4> QED BY <4>1, <4>2 DEF HeldOK
    <3>3. CASE UserDelete(o) /\ cr[o].fin
      <4>1. [cr[o] EXCEPT !.deleting = TRUE, !.gen = @ + 1].fin = cr[o].fin
        BY <1>0 DEF Resource
      <4> QED BY <3>3, <4>1 DEF UserDelete
    <3>4. CASE UserDelete(o) /\ ~cr[o].fin
      BY <3>4, <1>0 DEF UserDelete
    <3> QED BY <1>3, <3>1, <3>2, <3>3, <3>4
  <2> QED BY <1>0, <2>1 DEF UserWrites, HeldOK
<1>4. CASE Reconcile
  BY <1>0, <1>2, <1>4, ReconcileShape
<1>5. \/ Reconcile \/ UNCHANGED cr
      \/ \E u \in Objects : UserCreate(u) \/ UserEdit(u) \/ UserDelete(u)
  BY DEF Next, LoadResource, SyncCache, DriftTimer, Crash, DeleteConnection,
     CreateConnection, LoseSecret, RestoreSecret, LoseReference, ReferenceResolves,
     ForeignCreate, ForeignUpdate, ForeignDelete, vars, apiVars
<1> QED BY <1>1, <1>3, <1>4, <1>5

-----------------------------------------------------------------------------
(* Every step is a step of Custody *)

LEMMA ClaimsChange ==
  ASSUME NEW o \in Objects, NEW rec, cr \in [Objects -> Resource],
         cr' = [cr EXCEPT ![o] = rec]
  PROVE  /\ Claims[o] = ClaimOf(cr[o]) /\ Claims'[o] = ClaimOf(rec)
         /\ Claims' = [Claims EXCEPT ![o] = ClaimOf(rec)]
<1>1. \A u \in Objects : cr'[u] = IF u = o THEN rec ELSE cr[u]
  OBVIOUS
<1>2. Claims[o] = ClaimOf(cr[o]) /\ Claims'[o] = ClaimOf(rec)
  BY <1>1 DEF Claims
<1>3. Claims' = [u \in Objects |-> IF u = o THEN ClaimOf(rec) ELSE Claims[u]]
  BY <1>1 DEF Claims
<1>4. Claims = [u \in Objects |-> ClaimOf(cr[u])]
  BY DEF Claims
<1> HIDE DEF Claims
<1> QED BY <1>2, <1>3, <1>4

LEMMA ClaimFields ==
  ASSUME NEW r
  PROVE  /\ ClaimOf(r).life = r.inc /\ ClaimOf(r).at = r.bound /\ ClaimOf(r).held = r.fin
         /\ ClaimOf(r).id = r.id /\ ClaimOf(r).leaving = r.deleting
         /\ ClaimOf(r).keep = (r.deletionPolicy = "Orphan")
BY DEF ClaimOf

LEMMA NoResourceClaim == ClaimOf(NoResource) = Custody!NoClaim
BY DEF ClaimOf, NoResource, Custody!NoClaim, Custody!NewClaim

\* What resource o has on record.
LEMMA OnRecordIs ==
  ASSUME NEW o \in Objects
  PROVE  Custody!OnRecord(o) = {x \in harbor : x.at = cr[o].bound /\ x.id = cr[o].id}
BY DEF Custody!OnRecord, Claims, ClaimOf

LEMMA StruckSettled ==
  ASSUME NEW o \in Objects, Struck(cr[o], harbor)
  PROVE  Custody!Settled(o)
<1>1. Custody!OnRecord(o) = {x \in harbor : x.at = cr[o].bound /\ x.id = cr[o].id}
  BY OnRecordIs
<1>2. Claims[o].id = cr[o].id
  BY DEF Claims, ClaimOf
<1> QED BY <1>1, <1>2 DEF Struck, DeadIn, Custody!Settled

LEMMA StoredOperator ==
  ASSUME CInv, UNCHANGED lastInc, StepStored
  PROVE  Custody!Operator
<1>1. PICK rec \in Resource :
        /\ Store(rec)
        /\ SameClaim(mem, rec) \/ BindsClaim(mem, rec) \/ TakesClaim(mem, rec)
  BY DEF StepStored
<1>2. /\ memFresh /\ mem.inc # 0 /\ UNCHANGED <<harbor, lastInc>>
      /\ cur \in Objects /\ cr \in [Objects -> Resource]
      /\ MemFreshOK(TRUE, mem, cr[cur], cache[cur])
      /\ PositionOK(pc, mem, harbor) /\ MemIdOK(pc, TRUE, mem, cr[cur], harbor)
  BY DEF CInv, IInv, TypeOK, StepStored, Accepted
<1>3. /\ Claims[cur] = ClaimOf(cr[cur]) /\ Claims'[cur] = ClaimOf(rec)
      /\ Claims' = [Claims EXCEPT ![cur] = ClaimOf(rec)]
  BY <1>1, <1>2, ClaimsChange DEF Store
<1>4. ClaimOf(mem) = [ClaimOf(cr[cur]) EXCEPT !.id = mem.id]
  BY <1>2 DEF MemFreshOK, ClaimOf
<1>5. Custody!Become(cur, ClaimOf(rec))
  BY <1>2, <1>3 DEF Custody!Become
<1>6. pc \notin ChangedPCs => ClaimOf(mem) = ClaimOf(cr[cur])
  BY <1>2 DEF MemIdOK, MemFreshOK, ClaimOf
<1>7. pc \in {"bind", "finalizer"} => pc \notin ChangedPCs
  BY DEF ChangedPCs, FoundPCs
<1>a. CASE BindsClaim(mem, rec)
  <2>1. /\ Claims[cur].life # 0 /\ Claims[cur].at = 0
        /\ ClaimOf(rec) = [Claims[cur] EXCEPT !.at = Claims'[cur].at]
        /\ Claims'[cur].at # 0
    BY <1>2, <1>3, <1>6, <1>7, <1>a, ClaimFields DEF BindsClaim
  <2>2. Custody!Bind(cur)
    BY <1>5, <2>1 DEF Custody!Bind
  <2> QED BY <1>2, <2>2 DEF Custody!Operator
<1>b. CASE TakesClaim(mem, rec)
  <2>1. /\ Claims[cur].life # 0 /\ Claims[cur].at # 0 /\ ~Claims[cur].leaving
        /\ ClaimOf(rec) = [Claims[cur] EXCEPT !.held = TRUE]
    BY <1>2, <1>3, <1>6, <1>7, <1>b, ClaimFields DEF TakesClaim
  <2>2. Custody!Take(cur)
    BY <1>5, <2>1 DEF Custody!Take
  <2> QED BY <1>2, <2>2 DEF Custody!Operator
<1>c. CASE SameClaim(mem, rec) /\ pc \notin ChangedPCs
  <2>1. ClaimOf(rec) = Claims[cur] /\ Claims = [u \in Objects |-> Claims[u]]
    BY <1>3, <1>6, <1>c DEF SameClaim, Claims
  <2>2. Claims' = Claims
    BY <1>3, <2>1
  <2> QED BY <1>2, <2>2 DEF Custody!Operator, Custody!Think
<1>d. CASE SameClaim(mem, rec) /\ pc \in ChangedPCs
  <2>1. mem.fin /\ ~mem.deleting
    BY <1>2, <1>d DEF PositionOK, HeldPCs, ChangedPCs, FoundPCs
  <2>2. Custody!InCustody(cur)
    BY <1>2, <1>3, <2>1, ClaimFields DEF MemFreshOK, Custody!InCustody
  <2>3. Custody!Settled(cur)
    BY <1>2, <1>d, StruckSettled DEF MemIdOK
  <2>4. ClaimOf(rec) = [Claims[cur] EXCEPT !.id = Claims'[cur].id]
    BY <1>3, <1>4, <1>d, ClaimFields DEF SameClaim
  <2>5. Custody!Record(cur)
    BY <1>5, <2>2, <2>3, <2>4 DEF Custody!Record
  <2> QED BY <1>2, <2>5 DEF Custody!Operator
<1> QED BY <1>1, <1>a, <1>b, <1>c, <1>d

LEMMA RemovedOperator ==
  ASSUME CInv, HeldOK, UNCHANGED lastInc, StepRemoved
  PROVE  Custody!Operator
<1>1. /\ memFresh /\ mem.inc # 0 /\ UNCHANGED <<harbor, lastInc>>
      /\ cur \in Objects /\ cr \in [Objects -> Resource]
      /\ MemFreshOK(TRUE, mem, cr[cur], cache[cur])
      /\ mem.deleting /\ LetGo(mem, harbor)
  BY DEF CInv, IInv, TypeOK, StepRemoved, Accepted, MemFreshOK
<1>2. /\ Claims[cur] = ClaimOf(cr[cur])
      /\ Claims' = [Claims EXCEPT ![cur] = ClaimOf(NoResource)]
  BY <1>1, ClaimsChange DEF Store, StepRemoved
<1>3. Custody!Become(cur, Custody!NoClaim)
  BY <1>1, <1>2, NoResourceClaim DEF Custody!Become
<1>4. cr[cur].deleting /\ cr[cur].fin /\ cr[cur].inc # 0
      /\ cr[cur].id = mem.id /\ cr[cur].bound = mem.bound
      /\ cr[cur].deletionPolicy = mem.deletionPolicy
  BY <1>1 DEF MemFreshOK, HeldOK
<1>5. ASSUME mem.deletionPolicy = "Orphan" PROVE Claims[cur].keep
  <2>1. cr[cur].deletionPolicy = "Orphan"
    BY <1>4, <1>5
  <2>2. ClaimOf(cr[cur]).keep = (cr[cur].deletionPolicy = "Orphan")
    BY ClaimFields
  <2> QED BY <1>2, <2>1, <2>2, Zenon
<1>6. ASSUME mem.id = 0 \/ DeadIn(harbor, mem) PROVE Custody!Settled(cur)
  BY <1>1, <1>4, <1>6, StruckSettled DEF Struck, DeadIn
<1>7. Claims[cur].held /\ Claims[cur].leaving
  BY <1>2, <1>4, ClaimFields
<1>8. Custody!Release(cur)
  BY <1>1, <1>3, <1>5, <1>6, <1>7 DEF LetGo, Custody!Release
<1> QED BY <1>1, <1>8 DEF Custody!Operator

\* A call that changes Harbor.
LEMMA MutationOperator ==
  ASSUME CInv, Mutation, harbor' # harbor, UNCHANGED <<cur, cr, lastInc>>
  PROVE  Custody!Operator
<1>0. /\ mem \in Resource /\ cur \in Objects /\ harbor \subseteq HarborObject
      /\ PositionOK(pc, mem, harbor)
      /\ CopyOK(mem, cr[cur], lastInc[cur], harbor, lastId)
      /\ MemStandsOK(pc, mem, cr[cur], harbor)
  BY DEF CInv, IInv, TypeOK
<1>1. PICK z \in (harbor \ harbor') \cup (harbor' \ harbor) : TRUE
  OBVIOUS
<1>2. cr[cur].inc = mem.inc /\ cr[cur].fin
  BY <1>1, MutationGuarded DEF CInv
<1>3. /\ Claims[cur].held /\ Claims[cur].life = mem.inc /\ Claims[cur].at = cr[cur].bound
      /\ Claims' = Claims /\ Claims[cur].leaving = cr[cur].deleting
      /\ Custody!OnRecord(cur) = {x \in harbor : x.at = cr[cur].bound /\ x.id = cr[cur].id}
      /\ Custody!Owner(cur) = Me
  BY <1>0, <1>2, OnRecordIs, ClaimFields DEF Claims, Me, Custody!Owner
<1>4. mem.inc # 0 /\ mem.bound # 0 /\ pc \notin FoundPCs /\ cr[cur].bound = mem.bound
  BY <1>0, <1>2 DEF Mutation, CreateRemote, UpdateRemote, DeleteRemote, PositionOK,
                    FoundPCs, CopyOK
<1>a. CASE CreateRemote
  <2>1. harbor' = harbor \cup {NewObject} /\ NewObject \in harbor' \ harbor
    BY <1>a DEF CreateRemote, harborVars
  <2>2. NewObject.at = mem.bound /\ NewObject.maker = Me /\ NewObject.writer = Me
    BY DEF NewObject
  <2>3. Custody!Make(cur)
    BY <1>3, <1>4, <2>1, <2>2 DEF Custody!Make
  <2> QED BY <1>0, <2>3 DEF Custody!Operator
<1>b. CASE UpdateRemote
  <2>1. PICK x \in Recorded : harbor' = (harbor \ {x}) \cup {Overwrite(x)}
    BY <1>b DEF UpdateRemote
  <2>2. x \in harbor /\ x.at = mem.bound /\ x.id = mem.id
    BY <2>1 DEF Recorded
  <2>3. /\ Overwrite(x).at = x.at /\ Overwrite(x).id = x.id
        /\ Overwrite(x).maker = x.maker /\ Overwrite(x).writer = Me
    BY <1>0, <2>2 DEF Overwrite, HarborObject
  <2>4. mem.id # 0
    BY <1>b DEF UpdateRemote, CInv, SeeksOK
  <2>5. cr[cur].id = mem.id
    BY <1>0, <1>2, <1>4, <2>2, <2>4 DEF MemStandsOK, StandsOK, DeadIn
  <2>6. x \in Custody!OnRecord(cur)
    BY <1>3, <1>4, <2>2, <2>5
  <2>7. Custody!Overwrite(cur)
    BY <1>3, <2>1, <2>3, <2>6 DEF Custody!Overwrite
  <2> QED BY <1>0, <2>7 DEF Custody!Operator
<1>c. CASE DeleteRemote
  <2>1. /\ harbor' = harbor \ Recorded /\ mem.id # 0 /\ pc = "finalize"
        /\ Recorded # {}
    BY <1>c DEF DeleteRemote, CleanupNeeded
  <2>2. mem.deleting /\ cr[cur].deleting
    BY <1>0, <1>2, <1>4, <2>1 DEF PositionOK, CopyOK
  <2>3. cr[cur].id = mem.id
    BY <1>0, <1>2, <1>4, <2>1 DEF MemStandsOK, StandsOK, DeadIn, Recorded
  <2>4. Recorded = Custody!OnRecord(cur)
    BY <1>3, <1>4, <2>3 DEF Recorded
  <2>5. Custody!Clean(cur)
    BY <1>3, <2>1, <2>2, <2>4 DEF Custody!Clean
  <2> QED BY <1>0, <2>5 DEF Custody!Operator
<1> QED BY <1>a, <1>b, <1>c DEF Mutation

LEMMA ReconcileOperator ==
  ASSUME CInv, HeldOK, Reconcile
  PROVE  Custody!Operator
<1>1. CustodyStep
  BY ReconcileStep
<1>2. CASE UNCHANGED cr /\ UNCHANGED harbor
  BY <1>1, <1>2 DEF CustodyStep, Claims, Custody!Operator, Custody!Think
<1>3. CASE UNCHANGED cr /\ Mutation /\ harbor' # harbor
  BY <1>1, <1>3, MutationOperator DEF CustodyStep
<1> QED BY <1>1, <1>2, <1>3, StoredOperator, RemovedOperator
        DEF CustodyStep, StepQuit, StepInside

\* What a user does to a resource is what a user may do to a claim.
LEMMA UserOthers ==
  ASSUME CInv, NEW o \in Objects, UserCreate(o) \/ UserEdit(o) \/ UserDelete(o)
  PROVE  Custody!Others
<1>0. /\ cr \in [Objects -> Resource] /\ cr[o] \in Resource /\ lastInc \in [Objects -> Nat]
      /\ Claims[o] = ClaimOf(cr[o])
  BY DEF CInv, IInv, TypeOK, Claims
<1>1. ASSUME NEW rec, UserWrites(o, rec)
      PROVE  /\ Claims' = [Claims EXCEPT ![o] = ClaimOf(rec)]
             /\ UNCHANGED <<harbor, pc>>
  BY <1>0, <1>1, ClaimsChange DEF UserWrites, harborVars
<1>2. CASE UserCreate(o)
  <2>1. PICK d \in Data, cp \in CreationPolicies, dp \in DeletionPolicies :
          UserWrites(o, NewResource(lastInc[o] + 1, d, cp, dp))
    BY <1>2 DEF UserCreate
  <2> DEFINE rec == NewResource(lastInc[o] + 1, d, cp, dp)
             k == dp = "Orphan"
  <2>2. /\ Claims' = [Claims EXCEPT ![o] = ClaimOf(rec)] /\ UNCHANGED <<harbor, pc>>
    BY <2>1, <1>1
  <2>3. /\ rec.inc = lastInc[o] + 1 /\ rec.bound = 0 /\ rec.fin = FALSE /\ rec.id = 0
        /\ rec.deletionPolicy = dp /\ rec.deleting = FALSE
    BY DEF NewResource, NoResource
  <2>4. ClaimOf(rec) = Custody!NewClaim(lastInc[o] + 1, k)
    <3> HIDE DEF rec
    <3> QED BY <2>3, Zenon DEF ClaimOf, Custody!NewClaim
  <2>5. k \in BOOLEAN
    OBVIOUS
  <2>6. Claims[o].life = 0 /\ lastInc' = [lastInc EXCEPT ![o] = @ + 1]
    BY <1>0, <1>2, ClaimFields DEF UserCreate, Exists
  <2> HIDE DEF rec, k
  <2>7. Custody!Begin(o)
    BY <2>2, <2>4, <2>5, <2>6 DEF Custody!Begin
  <2> QED BY <2>2, <2>7 DEF Custody!Others
<1>3. CASE UserEdit(o)
  <2>1. PICK d \in Data, dp \in DeletionPolicies :
          UserWrites(o, [cr[o] EXCEPT !.gen = @ + 1, !.data = d, !.deletionPolicy = dp])
    BY <1>3 DEF UserEdit
  <2> DEFINE rec == [cr[o] EXCEPT !.gen = @ + 1, !.data = d, !.deletionPolicy = dp]
             k == dp = "Orphan"
  <2>2. /\ Claims' = [Claims EXCEPT ![o] = ClaimOf(rec)] /\ UNCHANGED <<harbor, pc>>
    BY <2>1, <1>1
  <2>3. /\ rec.inc = cr[o].inc /\ rec.bound = cr[o].bound /\ rec.fin = cr[o].fin
        /\ rec.id = cr[o].id /\ rec.deletionPolicy = dp /\ rec.deleting = cr[o].deleting
    BY <1>0 DEF Resource
  <2>4. ClaimOf(rec) = [Claims[o] EXCEPT !.keep = k]
    <3> HIDE DEF rec
    <3>1. ClaimOf(rec) = [life |-> cr[o].inc, at |-> cr[o].bound, held |-> cr[o].fin,
                          id |-> cr[o].id, keep |-> k, leaving |-> cr[o].deleting]
      BY <2>3, Zenon DEF ClaimOf
    <3> HIDE DEF k
    <3> QED BY <1>0, <3>1 DEF ClaimOf
  <2>5. k \in BOOLEAN
    OBVIOUS
  <2>6. Claims[o].life # 0 /\ UNCHANGED lastInc
    BY <1>0, <1>3, ClaimFields DEF UserEdit, Exists
  <2> HIDE DEF rec, k
  <2>7. Custody!Edit(o)
    BY <2>2, <2>4, <2>5, <2>6 DEF Custody!Edit, Custody!Become
  <2> QED BY <2>2, <2>7 DEF Custody!Others
<1>4. CASE UserDelete(o) /\ ~cr[o].fin
  <2>1. UserWrites(o, NoResource) /\ UNCHANGED lastInc
    BY <1>4 DEF UserDelete
  <2>2. /\ Claims' = [Claims EXCEPT ![o] = Custody!NoClaim] /\ UNCHANGED <<harbor, pc>>
    BY <2>1, <1>1, NoResourceClaim
  <2>3. Custody!Abandon(o)
    BY <1>0, <1>4, <2>1, <2>2, ClaimFields DEF Custody!Abandon, Custody!Become
  <2> QED BY <2>2, <2>3 DEF Custody!Others
<1>5. CASE UserDelete(o) /\ cr[o].fin
  <2> DEFINE rec == [cr[o] EXCEPT !.deleting = TRUE, !.gen = @ + 1]
  <2>1. UserWrites(o, rec) /\ UNCHANGED lastInc
    BY <1>5 DEF UserDelete
  <2>2. /\ Claims' = [Claims EXCEPT ![o] = ClaimOf(rec)] /\ UNCHANGED <<harbor, pc>>
    BY <2>1, <1>1
  <2>3. /\ rec.inc = cr[o].inc /\ rec.bound = cr[o].bound /\ rec.fin = cr[o].fin
        /\ rec.id = cr[o].id /\ rec.deletionPolicy = cr[o].deletionPolicy
        /\ rec.deleting \in BOOLEAN /\ rec.deleting = TRUE
    BY <1>0 DEF Resource
  <2> HIDE DEF rec
  <2>4. ClaimOf(rec) = [Claims[o] EXCEPT !.leaving = TRUE]
    <3>1. ClaimOf(rec) = [ClaimOf(cr[o]) EXCEPT !.leaving = rec.deleting]
      BY <2>3 DEF ClaimOf
    <3> QED BY <1>0, <2>3, <3>1, Zenon
  <2>5. Custody!Leave(o)
    BY <1>0, <1>5, <2>1, <2>2, <2>4, ClaimFields DEF Custody!Leave, Custody!Become
  <2> QED BY <2>2, <2>5 DEF Custody!Others
<1> QED BY <1>2, <1>3, <1>4, <1>5

\* What other clients do to Harbor.
LEMMA ForeignOthers ==
  ASSUME CInv, ForeignCreate \/ ForeignUpdate \/ ForeignDelete
  PROVE  Custody!Others
<1>0. UNCHANGED <<cr, lastInc, pc>> /\ harbor \subseteq HarborObject
  BY DEF ForeignCreate, ForeignUpdate, ForeignDelete, apiVars, workerVars, CInv, IInv, TypeOK
<1>1. \A x \in harbor' \ harbor : x.writer = <<Env, 0>>
  <2>1. CASE ForeignCreate
    BY <2>1 DEF ForeignCreate
  <2>2. CASE ForeignUpdate
    <3>1. PICK y \in harbor : \E d \in Data \ {y.data} :
            harbor' = (harbor \ {y}) \cup {[y EXCEPT !.data = d, !.writer = <<Env, 0>>]}
      BY <2>2 DEF ForeignUpdate
    <3>2. PICK d : harbor' = (harbor \ {y}) \cup {[y EXCEPT !.data = d, !.writer = <<Env, 0>>]}
      BY <3>1
    <3>3. [y EXCEPT !.data = d, !.writer = <<Env, 0>>].writer = <<Env, 0>>
      BY <1>0 DEF HarborObject
    <3> QED BY <3>2, <3>3
  <2>3. CASE ForeignDelete
    BY <2>3 DEF ForeignDelete
  <2> QED BY <2>1, <2>2, <2>3
<1> QED BY <1>0, <1>1 DEF Custody!Others, Custody!Foreign, Claims

LEMMA CustodyInit == Init => Custody!Init
<1> SUFFICES ASSUME Init PROVE Custody!Init
  OBVIOUS
<1>1. \A o \in Objects : cr[o] = NoResource
  BY DEF Init
<1>2. Claims = [o \in Objects |-> Custody!NoClaim]
  BY <1>1, NoResourceClaim DEF Claims
<1> QED BY <1>2 DEF Init, Custody!Init

LEMMA CustodyNext ==
  CInv /\ HeldOK /\ [Next]_vars => [Custody!Next]_(Custody!vars)
<1> SUFFICES ASSUME CInv, HeldOK, [Next]_vars
             PROVE  Custody!Next \/ UNCHANGED Custody!vars
  OBVIOUS
<1>1. CASE Reconcile
  BY <1>1, ReconcileOperator DEF Custody!Next
<1>2. ASSUME NEW o \in Objects, UserCreate(o) \/ UserEdit(o) \/ UserDelete(o)
      PROVE  Custody!Next
  BY <1>2, UserOthers DEF Custody!Next
<1>3. CASE ForeignCreate \/ ForeignUpdate \/ ForeignDelete
  BY <1>3, ForeignOthers DEF Custody!Next
<1>4. CASE UNCHANGED <<cr, lastInc, harbor>>
  BY <1>4 DEF Custody!Next, Custody!Operator, Custody!Think, Claims
<1>5. \/ Reconcile \/ UNCHANGED <<cr, lastInc, harbor>>
      \/ ForeignCreate \/ ForeignUpdate \/ ForeignDelete
      \/ \E o \in Objects : UserCreate(o) \/ UserEdit(o) \/ UserDelete(o)
  BY DEF Next, LoadResource, SyncCache, DriftTimer, Crash, DeleteConnection,
     CreateConnection, LoseSecret, RestoreSecret, LoseReference, ReferenceResolves,
     vars, apiVars, harborVars
<1> QED BY <1>1, <1>2, <1>3, <1>4, <1>5

\* What users and Harbor see of an owning reconciler, whatever it acts on and
\* however its calls end, is an operator that takes a resource before it touches
\* Harbor for it, overwrites and removes only the object on record, forgets none,
\* and undoes no user's edit or deletion.
THEOREM CustodyKept == Spec => ImplementsCustody
<1>1. Init => HeldOK
  <2>1. ~NoResource.deleting
    BY DEF NoResource
  <2> QED BY <2>1 DEF Init, HeldOK
<1>2. CInv /\ HeldOK /\ [Next]_vars => CInv' /\ HeldOK'
  BY CInvStep, HeldStep
<1> QED BY <1>1, <1>2, CInvInit, CustodyInit, CustodyNext, PTL
        DEF Spec, ImplementsCustody, Custody!Spec

=============================================================================
