--------------------- MODULE ManagedResourceOwner_proofs ---------------------
(***************************************************************************)
(* Proofs, for every value of the constants, of what a resource's record   *)
(* says of the Harbor object it names: under creationPolicy Create the     *)
(* resource made that object itself (CreatePolicyOwnsItsObject), and if    *)
(* the resource is Ready and wrote the object last, the object has the     *)
(* current payload (ReadyMeansApplied).                                    *)
(*                                                                         *)
(* The first speaks of the API server's resource; what makes it inductive  *)
(* is to say the same of every copy of it (OwnOK), because an id travels   *)
(* from the worker's copy to the API server, from there to the cache, and  *)
(* back into the worker's hands.  That an id is never given out twice      *)
(* (IdKnown, from CopiesSound) keeps an old copy from naming a newer       *)
(* object of somebody else.                                                *)
(*                                                                         *)
(* The second rests on generations (GenOK): no copy the operator works on  *)
(* is older than the generation the resource reports as observed, so that  *)
(* a write made from a copy of a Ready resource has its payload; and on    *)
(* what each position of the worker has seen or written (HeldOK).          *)
(***************************************************************************)
EXTENDS ManagedResourceSafety_proofs

-----------------------------------------------------------------------------
(* The inductive invariant *)

\* The kinds the property is about.
OwnKind == T.adopt # "onConflict" /\ T.createdId = "location"

\* The objects of hb that copy c of o records were made by that incarnation.
OwnOK(o, c, hb) ==
  c.inc # 0 /\ c.creationPolicy = "Create" =>
    \A x \in hb : x.at = c.bound /\ x.id = c.id => x.maker = <<o, c.inc>>

\* Only a resource that may adopt gets to look for an object to adopt.
SeekOK(p, c) ==
  /\ p # "lookup"
  /\ p \in {"list", "adopted"} => c.creationPolicy # "Create"

Owned ==
  /\ \A o \in Objects : OwnOK(o, cr[o], harbor) /\ OwnOK(o, cache[o], harbor)
  /\ OwnOK(cur, mem, harbor)
  /\ SeekOK(pc, mem)
  /\ \A x \in harbor : x.id # 0

OInv == IInv /\ (OwnKind => Owned)

-----------------------------------------------------------------------------
(* Facts about copies *)

\* Harbor goes from hb to hb2: what keeps its id keeps its maker.
MakersKept(hb, ids, hb2) ==
  \A x \in hb2 : /\ x.id # 0
                 /\ \/ \E y \in hb : y.at = x.at /\ y.id = x.id /\ y.maker = x.maker
                    \/ x.id > ids[x.at]

\* Copy d comes from copy c without an id taken from elsewhere, or may adopt.
Derives(c, d) ==
  /\ d.inc = c.inc /\ d.creationPolicy = c.creationPolicy
  /\ \/ d.id = 0
     \/ d.id = c.id /\ d.bound = c.bound
     \/ d.creationPolicy # "Create"

LEMMA OwnDerives ==
  ASSUME NEW o, NEW c \in Resource, NEW d,
         NEW hb, NEW ids \in [1..MaxUid -> Nat], NEW hb2, hb2 \subseteq HarborObject,
         OwnOK(o, c, hb), c.inc # 0 => IdKnown(c, ids), Derives(c, d),
         MakersKept(hb, ids, hb2)
  PROVE  OwnOK(o, d, hb2)
<1> SUFFICES ASSUME d.inc # 0, d.creationPolicy = "Create",
                    NEW x \in hb2, x.at = d.bound, x.id = d.id
             PROVE  x.maker = <<o, d.inc>>
  BY DEF OwnOK
<1>1. x.id # 0 /\ x.at \in 1..MaxUid /\ x.id \in Nat
  BY DEF MakersKept, HarborObject
<1>2. c.inc # 0 /\ c.creationPolicy = "Create" /\ c.id = x.id /\ c.bound = x.at
      /\ d.inc = c.inc
  BY <1>1 DEF Derives
<1>3. ~(x.id > ids[x.at])
  BY <1>1, <1>2 DEF IdKnown
<1>4. PICK y \in hb : y.at = x.at /\ y.id = x.id /\ y.maker = x.maker
  BY <1>3 DEF MakersKept
<1> QED BY <1>2, <1>4 DEF OwnOK

LEMMA DerivesSelf == ASSUME NEW c PROVE Derives(c, c)
BY DEF Derives

LEMMA MarkedDerives ==
  ASSUME NEW c \in Resource, NEW reason PROVE Derives(c, Marked(c, reason))
BY DEF Derives, Marked, Resource

LEMMA OwnNone == ASSUME NEW o, NEW hb PROVE OwnOK(o, NoResource, hb)
BY NoResourceType DEF OwnOK

\* Where a reconcile goes once it holds the finalizer.
LEMMA SeekTargets ==
  ASSUME NEW c, NEW p \in {HeldPC(c), ResolvedPC(c), AcquiredPC(c)}
  PROVE  SeekOK(p, c)
BY DEF SeekOK, HeldPC, ResolvedPC, AcquirePC, AcquiredPC, ApplyPC, AllowsAdoption

-----------------------------------------------------------------------------
(* The steps of the worker *)

\* What is known of every copy before a step.
LEMMA CopyKnown ==
  ASSUME IInv
  PROVE  /\ \A o \in Objects :
              /\ cr[o] \in Resource /\ (cr[o].inc # 0 => IdKnown(cr[o], lastId))
              /\ cache[o] \in Resource /\ (cache[o].inc # 0 => IdKnown(cache[o], lastId))
         /\ mem \in Resource /\ (mem.inc # 0 => IdKnown(mem, lastId))
         /\ lastId \in [1..MaxUid -> Nat]
BY DEF IInv, TypeOK, CopyOK

\* Harbor changes; the copies at the API server and in the cache stay.
LEMMA StoredOwn ==
  ASSUME IInv, Owned, TypeOK', MakersKept(harbor, lastId, harbor'), NEW o \in Objects
  PROVE  OwnOK(o, cr[o], harbor') /\ OwnOK(o, cache[o], harbor')
<1>1. harbor' \subseteq HarborObject
  BY DEF TypeOK
<1> QED BY <1>1, CopyKnown, OwnDerives, DerivesSelf DEF Owned

\* A step that writes at most a record derived from the worker's copy.
LEMMA WorkerOwn ==
  ASSUME IInv, Owned, TypeOK', UNCHANGED <<cur, cache>>,
         MakersKept(harbor, lastId, harbor'),
         \/ UNCHANGED cr
         \/ \E rec : Store(rec) /\ (rec = NoResource \/ Derives(mem, rec)),
         \/ mem' = NoResource
         \/ Derives(mem, mem')
         \/ OwnOK(cur, mem', harbor'),
         SeekOK(pc', mem')
  PROVE  Owned'
<1>0. harbor' \subseteq HarborObject /\ cur \in Objects /\ cr \in [Objects -> Resource]
  BY DEF IInv, TypeOK
<1>1. ASSUME NEW d, Derives(mem, d) PROVE OwnOK(cur, d, harbor')
  BY <1>0, <1>1, CopyKnown, OwnDerives DEF Owned
<1>2. ASSUME NEW o \in Objects PROVE OwnOK(o, cr'[o], harbor') /\ OwnOK(o, cache'[o], harbor')
  <2>1. OwnOK(o, cr[o], harbor') /\ OwnOK(o, cache'[o], harbor')
    BY StoredOwn
  <2>2. CASE UNCHANGED cr
    BY <2>1, <2>2
  <2>3. ASSUME NEW rec, Store(rec), rec = NoResource \/ Derives(mem, rec)
        PROVE  OwnOK(o, cr'[o], harbor')
    <3>1. CASE o = cur
      BY <3>1, <2>3, <1>0, <1>1, OwnNone DEF Store
    <3>2. CASE o # cur
      BY <3>2, <2>1, <2>3, <1>0 DEF Store
    <3> QED BY <3>1, <3>2
  <2> QED BY <2>1, <2>2, <2>3
<1>3. OwnOK(cur', mem', harbor')
  BY <1>1, OwnNone
<1> QED BY <1>2, <1>3 DEF Owned, MakersKept

LEMMA QuietMakers == ASSUME Owned, Quiet PROVE MakersKept(harbor, lastId, harbor')
BY DEF Owned, Quiet, MakersKept

LEMMA ReturnOwn ==
  ASSUME IInv, Owned, TypeOK', NEW r, NEW d, Return(r, d), UNCHANGED <<cr, cache>>,
         MakersKept(harbor, lastId, harbor')
  PROVE  Owned'
<1>1. UNCHANGED cur /\ mem' = NoResource /\ SeekOK(pc', mem')
  BY DEF Return, SeekOK
<1> QED BY <1>1, WorkerOwn

LEMMA GotoOwn ==
  ASSUME IInv, Owned, TypeOK', NEW p, NEW rec, Goto(p, rec), UNCHANGED <<cr, cache>>,
         MakersKept(harbor, lastId, harbor'),
         Derives(mem, rec) \/ OwnOK(cur, rec, harbor'), SeekOK(p, rec)
  PROVE  Owned'
<1>1. UNCHANGED cur /\ mem' = rec /\ pc' = p
  BY DEF Goto
<1> QED BY <1>1, WorkerOwn

LEMMA CallFailedOwn ==
  ASSUME IInv, Owned, TypeOK', NEW reason, CallFailed(reason), UNCHANGED <<cr, cache>>,
         MakersKept(harbor, lastId, harbor')
  PROVE  Owned'
<1>1. UNCHANGED cur /\ mem' = mem /\ SeekOK(pc', mem')
  BY DEF CallFailed, SeekOK
<1> QED BY <1>1, WorkerOwn, DerivesSelf

LEMMA PersistOwn ==
  ASSUME IInv, Owned, TypeOK', NEW p, NEW rec, Persist(rec, p), Quiet,
         Derives(mem, rec), SeekOK(p, rec)
  PROVE  Owned'
<1>0. MakersKept(harbor, lastId, harbor') /\ UNCHANGED cache
  BY QuietMakers DEF Quiet
<1>1. CASE Store(rec) /\ Goto(p, rec)
  <2>1. UNCHANGED cur /\ mem' = rec /\ pc' = p
    BY <1>1 DEF Goto
  <2> QED BY <1>0, <1>1, <2>1, WorkerOwn
<1>2. CASE Refused
  BY <1>0, <1>2, ReturnOwn DEF Refused
<1> QED BY <1>1, <1>2 DEF Persist

LEMMA PersistAndReturnOwn ==
  ASSUME IInv, Owned, TypeOK', NEW r, NEW d, NEW rec, PersistAndReturn(rec, r, d), Quiet,
         rec = NoResource \/ Derives(mem, rec)
  PROVE  Owned'
<1>0. MakersKept(harbor, lastId, harbor') /\ UNCHANGED cache
  BY QuietMakers DEF Quiet
<1>1. CASE Store(rec) /\ Return(r, d)
  <2>1. UNCHANGED cur /\ mem' = NoResource /\ SeekOK(pc', mem')
    BY <1>1 DEF Return, SeekOK
  <2> QED BY <1>0, <1>1, <2>1, WorkerOwn
<1>2. CASE Refused
  BY <1>0, <1>2, ReturnOwn DEF Refused
<1> QED BY <1>1, <1>2 DEF PersistAndReturn

LEMMA QuietReturnOwn ==
  ASSUME IInv, Owned, TypeOK', NEW r, NEW d, Return(r, d), UNCHANGED <<cr, cacheFresh>>, Quiet
  PROVE  Owned'
BY QuietMakers, ReturnOwn DEF Quiet

LEMMA SetStatusOwn ==
  ASSUME IInv, Owned, TypeOK', NEW reason, NEW r, NEW d,
         SetStatusAndReturn(reason, r, d), Quiet
  PROVE  Owned'
<1>1. Derives(mem, Marked(mem, reason))
  BY CopyKnown, MarkedDerives
<1> QED BY <1>1, PersistAndReturnOwn, QuietReturnOwn DEF SetStatusAndReturn

LEMMA RemoveFinalizerOwn ==
  ASSUME IInv, Owned, TypeOK', RemoveFinalizer, Quiet
  PROVE  Owned'
BY PersistAndReturnOwn, QuietReturnOwn DEF RemoveFinalizer

LEMMA WithoutConnectionOwn ==
  ASSUME IInv, Owned, TypeOK', NEW reason, NEW nf, WithoutConnection(reason, nf), Quiet
  PROVE  Owned'
BY RemoveFinalizerOwn, SetStatusOwn DEF WithoutConnection, Fail

LEMMA ReconcileOwn == ASSUME IInv, Owned, OwnKind, TypeOK', Reconcile PROVE Owned'
<1>0. /\ mem \in Resource /\ (mem.inc # 0 => IdKnown(mem, lastId))
      /\ harbor \subseteq HarborObject /\ lastId \in [1..MaxUid -> Nat]
      /\ SeekOK(pc, mem) /\ IdOK(harbor, lastId) /\ \A x \in harbor : x.id # 0
  BY CopyKnown DEF IInv, TypeOK, Owned
<1>1. UNCHANGED <<kind, lastInc, cache, harborVars, worldVars>> => Quiet
  BY DEF Quiet, harborVars
<1>2. UNCHANGED <<kind, apiVars, harborVars>> => Quiet /\ UNCHANGED <<cr, cacheFresh>>
  BY DEF Quiet, apiVars, harborVars
<1>3. pc # "idle" => mem.inc # 0
  BY DEF IInv, PositionOK
<1>4. ASSUME NEW p \in {"bind", "client", "finalize", "unfinalize", "finalizer", "created",
                        "create", "get", "notFound", "update", "ready"},
             NEW c
      PROVE  SeekOK(p, c)
  BY <1>4 DEF SeekOK
<1>5. ASSUME Quiet, UNCHANGED <<cr, cacheFresh>>, NEW p, NEW rec, Goto(p, rec),
             Derives(mem, rec), SeekOK(p, rec)
      PROVE  Owned'
  BY <1>5, QuietMakers, GotoOwn DEF Quiet
<1>6. ASSUME Quiet, UNCHANGED <<cr, cacheFresh>>, NEW reason, CallFailed(reason)
      PROVE  Owned'
  BY <1>6, QuietMakers, CallFailedOwn DEF Quiet
<1>a. CASE MarkReconcilingIfNeeded
  <2>1. Quiet
    BY <1>a, <1>1 DEF MarkReconcilingIfNeeded
  <2>2. Derives(mem, Marked(mem, "Reconciling"))
    BY <1>0, MarkedDerives
  <2>3. CASE Goto("bind", mem) /\ UNCHANGED <<cr, cacheFresh>>
    BY <2>1, <2>3, <1>4, <1>5, DerivesSelf
  <2>4. CASE Persist(Marked(mem, "Reconciling"), "bind")
    BY <2>1, <2>2, <2>4, <1>4, PersistOwn
  <2> QED BY <1>a, <2>3, <2>4 DEF MarkReconcilingIfNeeded
<1>b. CASE GetHarborClientForObject
  <2>1. Quiet /\ mem.inc # 0
    BY <1>b, <1>1, <1>3 DEF GetHarborClientForObject
  <2>2. CASE \/ WithoutConnection("ConnectionNotFound", TRUE)
             \/ WithoutConnection("ConnectionChanged", FALSE)
    BY <2>1, <2>2, WithoutConnectionOwn
  <2>3. CASE Goto("client", mem) /\ UNCHANGED <<cr, cacheFresh>>
    BY <2>1, <2>3, <1>4, <1>5, DerivesSelf
  <2>4. CASE mem.bound = 0 /\ Persist([mem EXCEPT !.bound = conn], "client")
    <3>1. Derives(mem, [mem EXCEPT !.bound = conn])
      BY <2>1, <2>4, <1>0 DEF Derives, IdKnown, Resource
    <3> QED BY <2>1, <2>4, <3>1, <1>4, PersistOwn
  <2> QED BY <1>b, <2>2, <2>3, <2>4 DEF GetHarborClientForObject
<1>c. CASE BuildHarborClient
  <2>1. Quiet
    BY <1>c, <1>1 DEF BuildHarborClient
  <2>2. CASE WithoutConnection("SecretNotFound", TRUE)
    BY <2>1, <2>2, WithoutConnectionOwn
  <2>3. CASE /\ Goto("finalize", mem) \/ Goto("finalizer", mem)
             /\ UNCHANGED <<cr, cacheFresh>>
    BY <2>1, <2>3, <1>4, <1>5, DerivesSelf
  <2> QED BY <1>c, <2>2, <2>3 DEF BuildHarborClient
<1>d. CASE FinalizeIfDeleting \/ FinalizeAfterCleanup
  BY <1>d, <1>1, RemoveFinalizerOwn DEF FinalizeIfDeleting, FinalizeAfterCleanup
<1>e. CASE DeleteRemote
  <2>1. UNCHANGED <<cr, cache>> /\ harbor' \subseteq harbor
    BY <1>e DEF DeleteRemote, apiVars
  <2>2. MakersKept(harbor, lastId, harbor')
    BY <2>1, <1>0 DEF MakersKept
  <2>3. CASE CleanupFailed
    BY <2>1, <2>2, <2>3, CallFailedOwn, ReturnOwn DEF CleanupFailed
  <2>4. CASE Goto("unfinalize", mem)
    BY <2>1, <2>2, <2>4, <1>4, GotoOwn, DerivesSelf
  <2> QED BY <1>e, <2>3, <2>4 DEF DeleteRemote
<1>f. CASE EnsureFinalizer
  <2>1. Quiet
    BY <1>f, <1>1 DEF EnsureFinalizer
  <2>2. CASE Goto(HeldPC(mem), mem) /\ UNCHANGED <<cr, cacheFresh>>
    BY <2>1, <2>2, <1>5, DerivesSelf, SeekTargets
  <2>3. CASE Persist([mem EXCEPT !.fin = TRUE], HeldPC(mem))
    <3> DEFINE rec == [mem EXCEPT !.fin = TRUE]
    <3>1. Derives(mem, rec) /\ rec.creationPolicy = mem.creationPolicy
      BY <1>0 DEF Derives, Resource
    <3>2. SeekOK(HeldPC(mem), rec)
      BY <3>1, SeekTargets DEF SeekOK
    <3> QED BY <2>1, <2>3, <3>1, <3>2, PersistOwn
  <2> QED BY <1>f, <2>2, <2>3 DEF EnsureFinalizer
<1>g. CASE ResolveReferences
  <2>1. Quiet
    BY <1>g, <1>1 DEF ResolveReferences
  <2>2. CASE Goto(ResolvedPC(mem), mem) /\ UNCHANGED <<cr, cacheFresh>>
    BY <2>1, <2>2, <1>5, DerivesSelf, SeekTargets
  <2>3. CASE Fail("ReferenceError")
    BY <2>1, <2>3, SetStatusOwn DEF Fail
  <2> QED BY <1>g, <2>2, <2>3 DEF ResolveReferences
<1>h. CASE AdoptExisting
  <2>1. Quiet /\ UNCHANGED <<cr, cacheFresh>> /\ mem.creationPolicy # "Create"
    BY <1>h, <1>0, <1>2 DEF AdoptExisting, SeekOK
  <2>2. ASSUME NEW x \in Matching, Goto("adopted", [mem EXCEPT !.id = x.id])
        PROVE  Owned'
    <3>1. /\ Derives(mem, [mem EXCEPT !.id = x.id])
          /\ SeekOK("adopted", [mem EXCEPT !.id = x.id])
      BY <2>1, <1>0 DEF Derives, SeekOK, Resource
    <3> QED BY <2>1, <2>2, <3>1, <1>5
  <2>3. CASE Goto(AcquiredPC(mem), mem)
    BY <2>1, <2>3, <1>5, DerivesSelf, SeekTargets
  <2>4. CASE CallFailed("HarborError")
    BY <2>1, <2>4, <1>6
  <2> QED BY <1>h, <2>2, <2>3, <2>4 DEF AdoptExisting
<1>i. CASE PersistAdoption
  <2>1. Quiet
    BY <1>i, <1>1 DEF PersistAdoption
  <2> QED BY <1>i, <2>1, PersistOwn, PersistAndReturnOwn, DerivesSelf, SeekTargets
      DEF PersistAdoption
<1>j. CASE CreateRemote
  <2>0. UNCHANGED <<cr, cache>> /\ mem.inc # 0
    BY <1>j, <1>3 DEF CreateRemote, apiVars
  <2>1. CASE /\ UNCHANGED harborVars
             /\ CallFailed("Conflict") \/ CallFailed("HarborError")
    <3>1. MakersKept(harbor, lastId, harbor')
      BY <2>1, <1>0 DEF MakersKept, harborVars
    <3> QED BY <2>0, <2>1, <3>1, CallFailedOwn
  <2>2. CASE /\ harbor' = harbor \cup {NewObject}
             /\ \/ Goto("created", [mem EXCEPT !.id = NewObject.id])
                \/ CallFailed("HarborError")
    <3>1. mem.bound \in 1..MaxUid
      <4>1. mem.bound # 0 /\ mem.bound \in 0..MaxUid
        BY <1>j, <1>0 DEF CreateRemote, IInv, PositionOK, Resource
      <4> QED BY <4>1, BoundsAssumption
    <3>2. /\ NewObject.at = mem.bound /\ NewObject.id = lastId[mem.bound] + 1
          /\ NewObject.maker = <<cur, mem.inc>> /\ lastId[mem.bound] \in Nat
      BY <3>1, <1>0 DEF NewObject, Me
    <3>3. MakersKept(harbor, lastId, harbor')
      BY <2>2, <3>2, <1>0 DEF MakersKept
    <3>4. CASE Goto("created", [mem EXCEPT !.id = NewObject.id])
      <4> DEFINE rec == [mem EXCEPT !.id = NewObject.id]
      <4>1. rec.inc = mem.inc /\ rec.bound = mem.bound /\ rec.id = lastId[mem.bound] + 1
        BY <3>2, <1>0 DEF Resource
      <4>2. ASSUME NEW x \in harbor PROVE ~(x.at = mem.bound /\ x.id = lastId[mem.bound] + 1)
        <5>1. x.id \in Nat /\ x.id <= lastId[x.at]
          BY <1>0 DEF HarborObject, IdOK
        <5> QED BY <3>2, <5>1
      <4>3. OwnOK(cur, rec, harbor')
        BY <2>2, <3>2, <4>1, <4>2 DEF OwnOK
      <4> QED BY <2>0, <3>3, <3>4, <4>3, <1>4, GotoOwn
    <3>5. CASE CallFailed("HarborError")
      BY <2>0, <3>3, <3>5, CallFailedOwn
    <3> QED BY <2>2, <3>4, <3>5
  <2> QED BY <1>j, <2>1, <2>2 DEF CreateRemote, OwnKind
<1>k. CASE LookupRemote
  BY <1>k, <1>0 DEF LookupRemote, SeekOK
<1>l. CASE GetRemote
  <2>1. Quiet /\ UNCHANGED <<cr, cacheFresh>>
    BY <1>l, <1>2 DEF GetRemote
  <2>2. CASE Goto("notFound", [mem EXCEPT !.id = 0])
    <3>1. Derives(mem, [mem EXCEPT !.id = 0])
      BY <1>0 DEF Derives, Resource
    <3> QED BY <2>1, <2>2, <3>1, <1>4, <1>5
  <2>3. CASE Goto("ready", mem) \/ Goto("update", mem)
    BY <2>1, <2>3, <1>4, <1>5, DerivesSelf
  <2>4. CASE CallFailed("HarborError")
    BY <2>1, <2>4, <1>6
  <2> QED BY <1>l, <2>2, <2>3, <2>4 DEF GetRemote
<1>m. CASE UpdateRemote
  <2>0. UNCHANGED <<cr, cache>>
    BY <1>m DEF UpdateRemote, apiVars
  <2>1. \A x \in harbor' : \E y \in harbor : y.at = x.at /\ y.id = x.id /\ y.maker = x.maker
    <3>1. ASSUME NEW y \in harbor
          PROVE  Overwrite(y).at = y.at /\ Overwrite(y).id = y.id /\ Overwrite(y).maker = y.maker
      BY <1>0 DEF Overwrite, HarborObject
    <3> QED BY <1>m, <3>1 DEF UpdateRemote, Recorded
  <2>2. MakersKept(harbor, lastId, harbor')
    BY <2>1, <1>0 DEF MakersKept
  <2>3. CASE Goto("ready", mem)
    BY <2>0, <2>2, <2>3, <1>4, GotoOwn, DerivesSelf
  <2>4. CASE CallFailed("HarborError")
    BY <2>0, <2>2, <2>4, CallFailedOwn
  <2> QED BY <1>m, <2>3, <2>4 DEF UpdateRemote
<1>n. CASE \/ RequireCreationAllowed \/ SetCreatedStatus \/ RequeueOnRemoteNotFound
           \/ SetReadyStatus \/ SetErrorStatus
  BY <1>n, <1>1, SetStatusOwn
  DEF RequireCreationAllowed, SetCreatedStatus, RequeueOnRemoteNotFound, SetReadyStatus,
      SetErrorStatus, Fail
<1> QED
  BY <1>a, <1>b, <1>c, <1>d, <1>e, <1>f, <1>g, <1>h, <1>i, <1>j, <1>k, <1>l, <1>m, <1>n
  DEF Reconcile

-----------------------------------------------------------------------------
(* The other steps *)

\* A step of somebody else, after which every copy derives from one there was.
LEMMA OthersOwn ==
  ASSUME IInv, Owned, TypeOK', MakersKept(harbor, lastId, harbor'),
         \A o \in Objects :
           /\ cr'[o].id = 0 \/ Derives(cr[o], cr'[o])
           /\ cache'[o] \in {cache[o], cr[o]},
         \/ mem' = NoResource
         \/ mem' = mem /\ cur' = cur
         \/ cur' \in Objects /\ mem' = cache[cur'],
         SeekOK(pc', mem')
  PROVE  Owned'
<1>0. harbor' \subseteq HarborObject
  BY DEF TypeOK
<1>1. \A x \in harbor' : x.id # 0
  BY DEF MakersKept
<1>2. ASSUME NEW o \in Objects PROVE OwnOK(o, cr'[o], harbor') /\ OwnOK(o, cache'[o], harbor')
  <2>1. OwnOK(o, cache'[o], harbor')
    BY StoredOwn
  <2>2. CASE cr'[o].id = 0
    BY <2>1, <2>2, <1>1 DEF OwnOK
  <2>3. CASE Derives(cr[o], cr'[o])
    BY <2>1, <2>3, <1>0, CopyKnown, OwnDerives DEF Owned
  <2> QED BY <2>2, <2>3
<1>3. OwnOK(cur', mem', harbor')
  <2>1. CASE mem' = NoResource
    BY <2>1, OwnNone
  <2>2. CASE mem' = mem /\ cur' = cur
    <3>1. OwnOK(cur, mem, harbor) /\ Derives(mem, mem)
      BY DerivesSelf DEF Owned
    <3>2. OwnOK(cur, mem, harbor')
      BY <3>1, <1>0, CopyKnown, OwnDerives
    <3> QED BY <2>2, <3>2
  <2>3. CASE cur' \in Objects /\ mem' = cache[cur']
    BY <2>3, StoredOwn
  <2> QED BY <2>1, <2>2, <2>3
<1> QED BY <1>1, <1>2, <1>3 DEF Owned

LEMMA SameMakers == ASSUME Owned, UNCHANGED harbor PROVE MakersKept(harbor, lastId, harbor')
BY DEF Owned, MakersKept

LEMMA UsersOwn ==
  ASSUME IInv, Owned, TypeOK', NEW o \in Objects,
         UserCreate(o) \/ UserEdit(o) \/ UserDelete(o)
  PROVE  Owned'
<1>0. cr \in [Objects -> Resource]
  BY DEF IInv, TypeOK
<1>1. \E rec : UserWrites(o, rec) /\ (rec.id = 0 \/ Derives(cr[o], rec))
  <2>1. CASE UserCreate(o)
    <3>1. ASSUME NEW n, NEW d, NEW cp, NEW dp PROVE NewResource(n, d, cp, dp).id = 0
      BY DEF NewResource, NoResource
    <3> QED BY <2>1, <3>1 DEF UserCreate
  <2>2. CASE UserEdit(o)
    <3>1. PICK d \in Data, dp \in DeletionPolicies :
            UserWrites(o, [cr[o] EXCEPT !.gen = @ + 1, !.data = d, !.deletionPolicy = dp])
      BY <2>2 DEF UserEdit
    <3>2. Derives(cr[o], [cr[o] EXCEPT !.gen = @ + 1, !.data = d, !.deletionPolicy = dp])
      BY <1>0 DEF Derives, Resource
    <3> QED BY <3>1, <3>2
  <2>3. CASE UserDelete(o)
    <3>1. Derives(cr[o], [cr[o] EXCEPT !.deleting = TRUE, !.gen = @ + 1])
      BY <1>0 DEF Derives, Resource
    <3>2. NoResource.id = 0
      BY DEF NoResource
    <3>3. CASE cr[o].fin
      <4>1. UserWrites(o, [cr[o] EXCEPT !.deleting = TRUE, !.gen = @ + 1])
        BY <2>3, <3>3 DEF UserDelete
      <4> QED BY <3>1, <4>1
    <3>4. CASE ~cr[o].fin
      <4>1. UserWrites(o, NoResource)
        BY <2>3, <3>4 DEF UserDelete
      <4> QED BY <3>2, <4>1
    <3> QED BY <3>3, <3>4
  <2> QED BY <2>1, <2>2, <2>3
<1>2. PICK rec : UserWrites(o, rec) /\ (rec.id = 0 \/ Derives(cr[o], rec))
  BY <1>1
<1>3. \A u \in Objects : cr'[u].id = 0 \/ Derives(cr[u], cr'[u])
  BY <1>0, <1>2, DerivesSelf DEF UserWrites
<1>4. UNCHANGED <<cache, pc, cur, mem, harbor>> /\ SeekOK(pc, mem)
  BY <1>2 DEF UserWrites, harborVars, Owned
<1> QED BY <1>3, <1>4, SameMakers, OthersOwn

LEMMA ForeignMakers ==
  ASSUME IInv, Owned, ForeignCreate \/ ForeignUpdate \/ ForeignDelete
  PROVE  MakersKept(harbor, lastId, harbor')
<1>0. harbor \subseteq HarborObject /\ lastId \in [1..MaxUid -> Nat]
      /\ \A x \in harbor : x.id # 0
  BY DEF IInv, TypeOK, Owned
<1>1. CASE ForeignCreate
  <2>1. PICK h \in 1..MaxUid, o \in Objects, d \in Data :
          harbor' = harbor \cup
            {[at |-> h, id |-> lastId[h] + 1, name |-> HarborName[o],
              data |-> d, maker |-> <<Env, 0>>, writer |-> <<Env, 0>>]}
    BY <1>1 DEF ForeignCreate
  <2>2. lastId[h] \in Nat
    BY <1>0
  <2>3. \A x \in harbor' : x \in harbor \/ (x.at = h /\ x.id = lastId[h] + 1)
    BY <2>1
  <2> QED BY <1>0, <2>2, <2>3 DEF MakersKept
<1>2. CASE ForeignUpdate
  <2>1. PICK y \in harbor : \E d \in Data \ {y.data} :
          harbor' = (harbor \ {y}) \cup {[y EXCEPT !.data = d, !.writer = <<Env, 0>>]}
    BY <1>2 DEF ForeignUpdate
  <2>2. PICK d \in Data \ {y.data} :
          harbor' = (harbor \ {y}) \cup {[y EXCEPT !.data = d, !.writer = <<Env, 0>>]}
    BY <2>1
  <2>3. /\ [y EXCEPT !.data = d, !.writer = <<Env, 0>>].at = y.at
        /\ [y EXCEPT !.data = d, !.writer = <<Env, 0>>].id = y.id
        /\ [y EXCEPT !.data = d, !.writer = <<Env, 0>>].maker = y.maker
    BY <1>0 DEF HarborObject
  <2> QED BY <1>0, <2>2, <2>3 DEF MakersKept
<1>3. CASE ForeignDelete
  BY <1>0, <1>3 DEF ForeignDelete, MakersKept
<1> QED BY <1>1, <1>2, <1>3

-----------------------------------------------------------------------------
(* The theorem *)

LEMMA OwnedInit == Init => Owned
<1> SUFFICES ASSUME Init PROVE Owned
  OBVIOUS
<1>1. /\ \A o \in Objects : cr[o] = NoResource /\ cache[o] = NoResource
      /\ pc = "idle" /\ mem = NoResource /\ harbor = {}
  BY DEF Init
<1> QED BY <1>1, OwnNone DEF Owned, SeekOK

LEMMA OwnedStep ==
  ASSUME IInv, TypeOK', OwnKind, Owned, [Next]_vars
  PROVE  Owned'
<1>0. SeekOK(pc, mem) /\ cr \in [Objects -> Resource] /\ cache \in [Objects -> Resource]
  BY DEF Owned, IInv, TypeOK
<1>1. CASE Reconcile
  BY <1>1, ReconcileOwn
<1>2. ASSUME NEW o \in Objects, LoadResource(o) PROVE Owned'
  <2>1. UNCHANGED <<cr, cache, harbor>> /\ cur' = o
        /\ \/ pc' = "idle" /\ mem' = NoResource
           \/ pc' = "mark" /\ mem' = cache[o]
    BY <1>2 DEF LoadResource, apiVars, harborVars
  <2> QED BY <2>1, SameMakers, OthersOwn, DerivesSelf DEF SeekOK
<1>3. ASSUME NEW o \in Objects, SyncCache(o) PROVE Owned'
  <2>1. UNCHANGED <<cr, pc, cur, mem, harbor>>
        /\ \A u \in Objects : cache'[u] \in {cache[u], cr[u]}
    BY <1>0, <1>3 DEF SyncCache, harborVars
  <2> QED BY <1>0, <2>1, SameMakers, OthersOwn, DerivesSelf
<1>4. ASSUME NEW o \in Objects, UserCreate(o) \/ UserEdit(o) \/ UserDelete(o) PROVE Owned'
  BY <1>4, UsersOwn
<1>5. CASE Crash
  <2>1. UNCHANGED <<cr, harbor>> /\ cache' = cr /\ mem' = NoResource /\ SeekOK(pc', mem')
    BY <1>5 DEF Crash, harborVars, SeekOK
  <2> QED BY <2>1, SameMakers, OthersOwn, DerivesSelf
<1>6. CASE ForeignCreate \/ ForeignUpdate \/ ForeignDelete
  <2>1. UNCHANGED <<cr, cache, pc, cur, mem>>
    BY <1>6 DEF ForeignCreate, ForeignUpdate, ForeignDelete, apiVars, workerVars
  <2> QED BY <1>0, <1>6, <2>1, ForeignMakers, OthersOwn, DerivesSelf
<1>7. ASSUME \/ DeleteConnection \/ CreateConnection \/ LoseSecret \/ RestoreSecret
             \/ LoseReference \/ ReferenceResolves \/ UNCHANGED vars
             \/ \E o \in Objects : DriftTimer(o)
      PROVE  Owned'
  <2>1. UNCHANGED <<cr, cache, pc, cur, mem, harbor>>
    BY <1>7
    DEF DeleteConnection, CreateConnection, LoseSecret, RestoreSecret, LoseReference,
        ReferenceResolves, DriftTimer, vars, apiVars, workerVars, harborVars
  <2> QED BY <1>0, <2>1, SameMakers, OthersOwn, DerivesSelf
<1> QED BY <1>1, <1>2, <1>3, <1>4, <1>5, <1>6, <1>7 DEF Next

\* A run is about one kind.
LEMMA KindStays == ASSUME [Next]_vars PROVE UNCHANGED kind
BY DEF Next, Reconcile, LoadResource, MarkReconcilingIfNeeded, GetHarborClientForObject,
   BuildHarborClient, FinalizeIfDeleting, DeleteRemote, FinalizeAfterCleanup,
   EnsureFinalizer, ResolveReferences, AdoptExisting, PersistAdoption,
   RequireCreationAllowed, CreateRemote, LookupRemote, SetCreatedStatus, GetRemote,
   RequeueOnRemoteNotFound, UpdateRemote, SetReadyStatus, SetErrorStatus, SyncCache,
   DriftTimer, UserCreate, UserEdit, UserDelete, UserWrites, Crash, DeleteConnection,
   CreateConnection, LoseSecret, RestoreSecret, LoseReference, ReferenceResolves,
   ForeignCreate, ForeignUpdate, ForeignDelete, vars

\* Under creationPolicy Create a resource only ever records a Harbor object it made
\* itself, whoever else asks for the same name.
THEOREM RecordsAreOwn == Spec => []CreatePolicyOwnsItsObject
<1>1. Init => OInv
  BY IInvInit, OwnedInit DEF OInv
<1>2. OInv /\ [Next]_vars => OInv'
  <2> SUFFICES ASSUME OInv, [Next]_vars PROVE OInv'
    OBVIOUS
  <2>1. IInv' /\ TypeOK'
    BY IInvStep, IInvType, TypeStep DEF OInv, TypeInv
  <2>2. OwnKind' => OwnKind
    BY KindStays DEF OwnKind, T
  <2> QED BY <2>1, <2>2, OwnedStep DEF OInv
<1>3. OInv => CreatePolicyOwnsItsObject
  BY DEF OInv, OwnKind, Owned, OwnOK, CreatePolicyOwnsItsObject, Exists
<1> QED BY <1>1, <1>2, <1>3, PTL DEF Spec

-----------------------------------------------------------------------------
(* ReadyMeansApplied: the inductive invariant *)

\* Whether the id of a new object is searched for by its content.
Searches == T.createdId = "search"

\* A copy c compared with the resource r the API server holds: no generation is
\* reported as observed that the copy has not reached, and a copy of the current
\* generation has the current payload.
GenOK(c, r) ==
  c.inc # 0 /\ c.inc = r.inc =>
    /\ r.obsGen <= c.gen /\ c.gen <= r.gen
    /\ c.gen = r.gen => c.data = r.data

\* The worker's copy c came from the cache, which holds k by now.
CacheGenOK(c, k) == c.inc # 0 /\ k.inc = c.inc => c.gen <= k.gen

\* Only a kind that searches reports success without the id of an object.
HasRecord(c, s) == c.bound # 0 /\ (c.id # 0 \/ s)
RecordsOK(c, s) == c.reason \in ReadyReasons => HasRecord(c, s)

\* What copy c of o itself wrote last, of the objects c records, has its payload.
AppliedIn(o, c, hb) ==
  \A x \in hb : x.at = c.bound /\ x.id = c.id /\ x.writer = <<o, c.inc>> => x.data = c.data

StoredOK(s, o, r, hb) ==
  /\ RecordsOK(r, s)
  /\ r.inc # 0 /\ r.obsGen = r.gen /\ r.reason \in ReadyReasons => AppliedIn(o, r, hb)

\* What position p of the worker says about its copy c of o.  An object adopted
\* by a copy that was Ready already was found by its payload.
HeldOK(s, p, o, c, hb) ==
  /\ p # "notFound" => RecordsOK(c, s)
  /\ p \in {"list", "create", "lookup"} => c.id = 0
  /\ p \in {"ready", "created"} => HasRecord(c, s) /\ AppliedIn(o, c, hb)
  /\ p = "adopted" /\ c.reason \in ReadyReasons => AppliedIn(o, c, hb)

LoadedPCs == {"mark", "bind", "client", "finalizer"}

\* A copy of the current version differs from it in an id not yet written only.
FreshOK(fresh, p, c, r) ==
  fresh =>
    /\ c.gen = r.gen /\ c.data = r.data /\ c.obsGen = r.obsGen /\ c.reason = r.reason
    /\ p \in LoadedPCs => c.id = r.id

UniqueIds(hb) ==
  /\ \A x \in hb : x.id # 0
  /\ \A x, y \in hb : x.at = y.at /\ x.id = y.id => x = y

NameApplied(s, o, r, k, hb) ==
  GenOK(r, r) /\ GenOK(k, r) /\ StoredOK(s, o, r, hb) /\ RecordsOK(k, s)

WorkerApplied(s, p, o, c, fresh, r, k, hb) ==
  GenOK(c, r) /\ CacheGenOK(c, k) /\ HeldOK(s, p, o, c, hb) /\ FreshOK(fresh, p, c, r)

AppliedInv ==
  /\ \A o \in Objects : NameApplied(Searches, o, cr[o], cache[o], harbor)
  /\ WorkerApplied(Searches, pc, cur, mem, memFresh, cr[cur], cache[cur], harbor)
  /\ UniqueIds(harbor)
  /\ err \in NotReadyReasons

LEMMA AppliedSuffices ==
  ASSUME UNCHANGED kind,
         \A o \in Objects : NameApplied(Searches, o, cr'[o], cache'[o], harbor'),
         WorkerApplied(Searches, pc', cur', mem', memFresh', cr'[cur'], cache'[cur'], harbor'),
         UniqueIds(harbor'), err' \in NotReadyReasons
  PROVE  AppliedInv'
<1>1. Searches' = Searches
  BY DEF Searches, T
<1> QED BY <1>1 DEF AppliedInv

-----------------------------------------------------------------------------
(* Facts about copies and payloads *)

LEMMA NoResourceStatus ==
  NoResource.reason \notin ReadyReasons /\ NoResource.inc = 0 /\ NoResource.id = 0
BY DEF NoResource, ReadyReasons

LEMMA NoCopyApplied ==
  ASSUME NEW s, NEW p, NEW o, NEW c, NEW fresh, NEW r, NEW k, NEW hb,
         p = "idle", c = NoResource, fresh = FALSE
  PROVE  WorkerApplied(s, p, o, c, fresh, r, k, hb)
BY NoResourceStatus DEF WorkerApplied, GenOK, CacheGenOK, HeldOK, RecordsOK, FreshOK

LEMMA NoNameApplied ==
  ASSUME NEW s, NEW o, NEW r, NEW k, NEW hb, r = NoResource, RecordsOK(k, s)
  PROVE  NameApplied(s, o, r, k, hb)
BY NoResourceStatus DEF NameApplied, GenOK, StoredOK, RecordsOK

\* What is new in Harbor was not written by o's incarnation c, or has c's payload.
Keeps(o, c, hb, hb2) ==
  \A x \in hb2 : x \in hb \/ x.writer # <<o, c.inc>> \/ x.data = c.data

LEMMA AppliedKept ==
  ASSUME NEW o, NEW c, NEW hb, NEW hb2, AppliedIn(o, c, hb), Keeps(o, c, hb, hb2)
  PROVE  AppliedIn(o, c, hb2)
BY DEF AppliedIn, Keeps

LEMMA NameAppliedKept ==
  ASSUME NEW s, NEW o, NEW r, NEW k, NEW hb, NEW hb2, NameApplied(s, o, r, k, hb),
         r.inc # 0 /\ r.obsGen = r.gen /\ r.reason \in ReadyReasons => Keeps(o, r, hb, hb2)
  PROVE  NameApplied(s, o, r, k, hb2)
BY AppliedKept DEF NameApplied, StoredOK

LEMMA HeldKept ==
  ASSUME NEW s, NEW p, NEW o, NEW c, NEW hb, NEW hb2, HeldOK(s, p, o, c, hb),
         Keeps(o, c, hb, hb2)
  PROVE  HeldOK(s, p, o, c, hb2)
BY AppliedKept DEF HeldOK

\* Copy d has the incarnation, generation and payload of copy c.
SamePayload(c, d) == d.inc = c.inc /\ d.gen = c.gen /\ d.data = c.data

\* Copy d differs from copy c in the id at most.
SameStatus(c, d) ==
  /\ SamePayload(c, d)
  /\ d.obsGen = c.obsGen /\ d.reason = c.reason /\ d.bound = c.bound

\* What the worker may write in place of its copy c.
Follows(c, d) == SamePayload(c, d) /\ d.obsGen \in {c.obsGen, c.gen}

LEMMA SameStatusSelf == ASSUME NEW c PROVE SameStatus(c, c) /\ SamePayload(c, c) /\ Follows(c, c)
BY DEF SameStatus, SamePayload, Follows

LEMMA ReasonsApart ==
  ASSUME NEW reason \in NotReadyReasons PROVE reason \notin ReadyReasons
BY DEF NotReadyReasons, ReadyReasons

-----------------------------------------------------------------------------
(* The steps of the worker *)

\* What a step of the worker may do to Harbor.
WorkerHarbor ==
  /\ \A x \in harbor' : x \in harbor \/ (x.writer = Me /\ x.data = mem.data)
  /\ UniqueIds(harbor')

LEMMA QuietWorkerHarbor == ASSUME AppliedInv, UNCHANGED harbor PROVE WorkerHarbor
BY DEF AppliedInv, WorkerHarbor

LEMMA AppliedTypes ==
  ASSUME IInv
  PROVE  /\ cr \in [Objects -> Resource] /\ cache \in [Objects -> Resource]
         /\ mem \in Resource /\ cur \in Objects
         /\ \A o \in Objects :
              /\ cr[o].gen \in Nat /\ cr[o].obsGen \in Nat /\ cr[o].inc \in Nat
              /\ cache[o].gen \in Nat /\ cache[o].inc \in Nat
         /\ mem.gen \in Nat /\ mem.obsGen \in Nat
BY DEF IInv, TypeOK, Resource

\* While a resource is Ready, a copy of it that the worker holds has its payload.
LEMMA ReadyCopyCurrent ==
  ASSUME IInv, AppliedInv, mem.inc # 0, cr[cur].inc = mem.inc, cr[cur].obsGen = cr[cur].gen
  PROVE  mem.data = cr[cur].data
<1>1. cr[cur].obsGen <= mem.gen /\ mem.gen <= cr[cur].gen
      /\ (mem.gen = cr[cur].gen => mem.data = cr[cur].data)
  BY DEF AppliedInv, WorkerApplied, GenOK
<1> QED BY <1>1, AppliedTypes

\* A resource the worker does not write keeps what is known of it.
LEMMA WorkerKeepsNames ==
  ASSUME IInv, AppliedInv, WorkerHarbor, mem.inc # 0, NEW o \in Objects
  PROVE  NameApplied(Searches, o, cr[o], cache[o], harbor')
<1>1. ASSUME cr[o].inc # 0, cr[o].obsGen = cr[o].gen
      PROVE  Keeps(o, cr[o], harbor, harbor')
  <2> SUFFICES ASSUME NEW x \in harbor', x \notin harbor, x.writer = <<o, cr[o].inc>>
               PROVE  x.data = cr[o].data
    BY DEF Keeps
  <2>1. x.writer = <<cur, mem.inc>> /\ x.data = mem.data
    BY DEF WorkerHarbor, Me
  <2>2. cur = o /\ mem.inc = cr[o].inc
    BY <2>1
  <2> QED BY <1>1, <2>1, <2>2, ReadyCopyCurrent
<1> QED BY <1>1, NameAppliedKept DEF AppliedInv

\* A write of the worker that is accepted.
LEMMA WrittenName ==
  ASSUME IInv, AppliedInv, mem.inc # 0, memFresh, NEW rec, Follows(mem, rec),
         NEW hb, StoredOK(Searches, cur, rec, hb)
  PROVE  NameApplied(Searches, cur, rec, cache[cur], hb)
<1> DEFINE r == cr[cur]  k == cache[cur]
<1>1. /\ r.gen \in Nat /\ r.obsGen \in Nat /\ k.gen \in Nat /\ mem.gen \in Nat
      /\ cur \in Objects
  BY AppliedTypes
<1>2. r.inc = mem.inc
  BY DEF IInv, MemFreshOK
<1>3. /\ mem.gen = r.gen /\ mem.data = r.data /\ mem.obsGen = r.obsGen
      /\ k.inc = mem.inc => mem.gen <= k.gen
      /\ GenOK(mem, r) /\ GenOK(k, r) /\ RecordsOK(k, Searches)
  BY <1>1 DEF AppliedInv, WorkerApplied, NameApplied, FreshOK, CacheGenOK
<1>4. rec.inc = mem.inc /\ rec.gen = mem.gen /\ rec.data = mem.data
      /\ (rec.obsGen = mem.obsGen \/ rec.obsGen = mem.gen)
  BY DEF Follows, SamePayload
<1>5. rec.obsGen <= rec.gen
  BY <1>1, <1>2, <1>3, <1>4 DEF GenOK
<1>6. GenOK(rec, rec)
  BY <1>1, <1>4, <1>5 DEF GenOK
<1>7. GenOK(k, rec)
  BY <1>1, <1>2, <1>3, <1>4 DEF GenOK
<1> QED BY <1>3, <1>6, <1>7 DEF NameApplied

\* A step of the worker keeps the invariant, whatever it writes.
LEMMA WorkerStepApplied ==
  ASSUME IInv, AppliedInv, UNCHANGED <<kind, cur, cache>>, WorkerHarbor, mem.inc # 0,
         err' \in NotReadyReasons,
         \/ UNCHANGED cr
         \/ \E rec :
              /\ Store(rec) /\ memFresh
              /\ \/ rec = NoResource
                 \/ Follows(mem, rec) /\ StoredOK(Searches, cur, rec, harbor'),
         \/ mem' = NoResource /\ memFresh' = FALSE /\ pc' = "idle"
         \/ /\ SamePayload(mem, mem')
            /\ HeldOK(Searches, pc', cur, mem', harbor')
            /\ FreshOK(memFresh', pc', mem', cr'[cur])
  PROVE  AppliedInv'
<1>0. cur \in Objects /\ cr \in [Objects -> Resource] /\ mem.gen \in Nat
  BY AppliedTypes
<1>1. /\ \A o \in Objects : NameApplied(Searches, o, cr'[o], cache'[o], harbor')
      /\ SamePayload(mem, mem') => GenOK(mem', cr'[cur])
  <2>1. CASE UNCHANGED cr
    BY <2>1, WorkerKeepsNames DEF AppliedInv, WorkerApplied, GenOK, SamePayload
  <2>2. ASSUME NEW rec, Store(rec), memFresh,
               \/ rec = NoResource
               \/ Follows(mem, rec) /\ StoredOK(Searches, cur, rec, harbor')
        PROVE  /\ \A o \in Objects : NameApplied(Searches, o, cr'[o], cache'[o], harbor')
               /\ SamePayload(mem, mem') => GenOK(mem', cr'[cur])
    <3>1. cr'[cur] = rec /\ \A o \in Objects \ {cur} : cr'[o] = cr[o]
      BY <2>2, <1>0 DEF Store
    <3>2. NameApplied(Searches, cur, rec, cache[cur], harbor')
      <4>1. CASE rec = NoResource
        BY <4>1, <1>0, NoNameApplied DEF AppliedInv, NameApplied
      <4>2. CASE rec # NoResource
        BY <4>2, <2>2, WrittenName
      <4> QED BY <4>1, <4>2
    <3>3. SamePayload(mem, mem') => GenOK(mem', rec)
      <4>1. CASE rec = NoResource
        BY <4>1, NoResourceStatus DEF GenOK
      <4>2. CASE rec # NoResource
        <5>1. Follows(mem, rec) /\ GenOK(rec, rec)
          BY <4>2, <2>2, <3>2 DEF NameApplied
        <5> QED BY <5>1 DEF Follows, SamePayload, GenOK
      <4> QED BY <4>1, <4>2
    <3> QED BY <3>1, <3>2, <3>3, WorkerKeepsNames
  <2> QED BY <2>1, <2>2
<1>2. WorkerApplied(Searches, pc', cur', mem', memFresh', cr'[cur'], cache'[cur'], harbor')
  <2>1. CASE mem' = NoResource /\ memFresh' = FALSE /\ pc' = "idle"
    BY <2>1, NoCopyApplied
  <2>2. CASE /\ SamePayload(mem, mem')
             /\ HeldOK(Searches, pc', cur, mem', harbor')
             /\ FreshOK(memFresh', pc', mem', cr'[cur])
    <3>1. CacheGenOK(mem', cache[cur])
      BY <2>2 DEF AppliedInv, WorkerApplied, CacheGenOK, SamePayload
    <3> QED BY <2>2, <3>1, <1>1 DEF WorkerApplied
  <2> QED BY <2>1, <2>2
<1> QED BY <1>1, <1>2, AppliedSuffices DEF WorkerHarbor

LEMMA ReturnApplied ==
  ASSUME IInv, AppliedInv, mem.inc # 0, NEW r, NEW d, Return(r, d),
         UNCHANGED <<kind, cr, cache>>, WorkerHarbor
  PROVE  AppliedInv'
BY WorkerStepApplied DEF Return, NotReadyReasons

LEMMA GotoApplied ==
  ASSUME IInv, AppliedInv, mem.inc # 0, NEW p, NEW rec, Goto(p, rec),
         UNCHANGED <<kind, cr, cache>>, WorkerHarbor,
         SameStatus(mem, rec), HeldOK(Searches, p, cur, rec, harbor'),
         p \in LoadedPCs => pc \in LoadedPCs /\ rec = mem
  PROVE  AppliedInv'
<1>1. FreshOK(memFresh', pc', mem', cr'[cur])
  BY DEF Goto, AppliedInv, WorkerApplied, FreshOK, SameStatus, SamePayload
<1>2. err' \in NotReadyReasons
  BY DEF Goto, AppliedInv
<1> QED BY <1>1, <1>2, WorkerStepApplied DEF Goto, SameStatus

LEMMA CallFailedApplied ==
  ASSUME IInv, AppliedInv, mem.inc # 0, NEW reason \in NotReadyReasons, CallFailed(reason),
         UNCHANGED <<kind, cr, cache>>, WorkerHarbor, pc # "notFound"
  PROVE  AppliedInv'
<1>1. HeldOK(Searches, "error", cur, mem, harbor')
  BY DEF AppliedInv, WorkerApplied, HeldOK
<1>2. FreshOK(memFresh, "error", mem, cr[cur])
  BY DEF AppliedInv, WorkerApplied, FreshOK, LoadedPCs
<1> QED BY <1>1, <1>2, SameStatusSelf, WorkerStepApplied DEF CallFailed

LEMMA RefusedApplied ==
  ASSUME IInv, AppliedInv, mem.inc # 0, Refused, UNCHANGED kind, Quiet
  PROVE  AppliedInv'
BY ReturnApplied, QuietWorkerHarbor DEF Refused, Quiet

LEMMA PersistApplied ==
  ASSUME IInv, AppliedInv, mem.inc # 0, NEW p, NEW rec, Persist(rec, p), UNCHANGED kind,
         Quiet, Follows(mem, rec), StoredOK(Searches, cur, rec, harbor),
         HeldOK(Searches, p, cur, rec, harbor)
  PROVE  AppliedInv'
<1>1. CASE Accepted /\ Store(rec) /\ Goto(p, rec)
  <2>1. cr'[cur] = rec
    BY <1>1, AppliedTypes DEF Store
  <2>2. FreshOK(memFresh', pc', mem', cr'[cur])
    BY <1>1, <2>1 DEF Goto, FreshOK
  <2>3. err' \in NotReadyReasons
    BY <1>1 DEF Goto, AppliedInv
  <2> QED BY <1>1, <2>2, <2>3, QuietWorkerHarbor, WorkerStepApplied
      DEF Goto, Accepted, Quiet, Follows
<1>2. CASE Refused
  BY <1>2, RefusedApplied
<1> QED BY <1>1, <1>2 DEF Persist

LEMMA PersistAndReturnApplied ==
  ASSUME IInv, AppliedInv, mem.inc # 0, NEW r, NEW d, NEW rec, PersistAndReturn(rec, r, d),
         UNCHANGED kind, Quiet,
         \/ rec = NoResource
         \/ Follows(mem, rec) /\ StoredOK(Searches, cur, rec, harbor)
  PROVE  AppliedInv'
<1>1. CASE Accepted /\ Store(rec) /\ Return(r, d)
  <2>1. /\ mem' = NoResource /\ memFresh' = FALSE /\ pc' = "idle" /\ UNCHANGED <<cur, cache>>
        /\ err' \in NotReadyReasons /\ UNCHANGED harbor
    BY <1>1 DEF Return, Quiet, NotReadyReasons
  <2> QED BY <1>1, <2>1, QuietWorkerHarbor, WorkerStepApplied DEF Accepted
<1>2. CASE Refused
  BY <1>2, RefusedApplied
<1> QED BY <1>1, <1>2 DEF PersistAndReturn

\* Success is written at the end of a reconcile that applied the payload only.
LEMMA SetStatusApplied ==
  ASSUME IInv, AppliedInv, mem.inc # 0, NEW reason, NEW r, NEW d,
         SetStatusAndReturn(reason, r, d), UNCHANGED kind, Quiet,
         reason \in NotReadyReasons \/ pc \in {"ready", "created"}
  PROVE  AppliedInv'
<1> DEFINE rec == Marked(mem, reason)
<1>1. /\ rec.inc = mem.inc /\ rec.gen = mem.gen /\ rec.data = mem.data /\ rec.id = mem.id
      /\ rec.bound = mem.bound /\ rec.obsGen = mem.gen /\ rec.reason = reason
  BY AppliedTypes DEF Marked, Resource
<1>2. Follows(mem, rec)
  BY <1>1 DEF Follows, SamePayload
<1>3. StoredOK(Searches, cur, rec, harbor)
  <2>1. CASE reason \in NotReadyReasons
    BY <2>1, <1>1, ReasonsApart DEF StoredOK, RecordsOK
  <2>2. CASE pc \in {"ready", "created"}
    <3>1. HasRecord(mem, Searches) /\ AppliedIn(cur, mem, harbor)
      BY <2>2 DEF AppliedInv, WorkerApplied, HeldOK
    <3> QED BY <1>1, <3>1 DEF StoredOK, RecordsOK, HasRecord, AppliedIn
  <2> QED BY <2>1, <2>2
<1>4. CASE PersistAndReturn(rec, r, d)
  BY <1>2, <1>3, <1>4, PersistAndReturnApplied
<1>5. CASE Return(r, d) /\ UNCHANGED <<cr, cacheFresh>>
  BY <1>5, ReturnApplied, QuietWorkerHarbor DEF Quiet
<1> QED BY <1>4, <1>5 DEF SetStatusAndReturn

LEMMA RemoveFinalizerApplied ==
  ASSUME IInv, AppliedInv, mem.inc # 0, RemoveFinalizer, UNCHANGED kind, Quiet
  PROVE  AppliedInv'
<1>1. CASE PersistAndReturn(NoResource, FALSE, FALSE)
  BY <1>1, PersistAndReturnApplied
<1>2. CASE Return(FALSE, FALSE) /\ UNCHANGED <<cr, cacheFresh>>
  BY <1>2, ReturnApplied, QuietWorkerHarbor DEF Quiet
<1> QED BY <1>1, <1>2 DEF RemoveFinalizer

LEMMA WithoutConnectionApplied ==
  ASSUME IInv, AppliedInv, mem.inc # 0, NEW reason \in NotReadyReasons, NEW nf,
         WithoutConnection(reason, nf), UNCHANGED kind, Quiet
  PROVE  AppliedInv'
BY RemoveFinalizerApplied, SetStatusApplied DEF WithoutConnection, Fail

\* Where a reconcile goes on with the copy it has.
MovePCs == {"bind", "client", "finalize", "unfinalize", "finalizer", "refs", "get", "update"}

LEMMA MoveHeld ==
  ASSUME NEW s, NEW p, NEW o, NEW c, NEW hb, RecordsOK(c, s),
         p \in MovePCs \/ (p \in {"list", "create", "lookup"} /\ c.id = 0)
  PROVE  HeldOK(s, p, o, c, hb)
BY DEF HeldOK, MovePCs

LEMMA MoveTargets ==
  ASSUME NEW c, NEW p \in {HeldPC(c), ResolvedPC(c), AcquiredPC(c)}
  PROVE  p \in MovePCs \ LoadedPCs \/ (p \in {"list", "create", "lookup"} /\ c.id = 0)
BY DEF MovePCs, LoadedPCs, HeldPC, ResolvedPC, AcquirePC, AcquiredPC, ApplyPC

LEMMA MoveApplied ==
  ASSUME IInv, AppliedInv, mem.inc # 0, pc # "notFound", NEW p, Goto(p, mem),
         UNCHANGED <<kind, cr, cache>>, WorkerHarbor,
         p \in MovePCs \/ (p \in {"list", "create", "lookup"} /\ mem.id = 0),
         p \in LoadedPCs => pc \in LoadedPCs
  PROVE  AppliedInv'
<1>1. RecordsOK(mem, Searches)
  BY DEF AppliedInv, WorkerApplied, HeldOK
<1> QED BY <1>1, MoveHeld, SameStatusSelf, GotoApplied

\* A kind that searches for the id of a new object matches by payload.
LEMMA SearchIsByContent ==
  ASSUME TypeOK, T.createdId = "search"
  PROVE  \A x \in Matching : x.data = mem.data
<1>1. kind \in AllKinds
  BY ConstantsAssumption DEF TypeOK
<1>2. T.identity # "name"
  BY <1>1
  DEF AllKinds, T, Traits, LabelTraits, ProjectTraits, RegistryTraits, UserTraits,
      ReplicationPolicyTraits, ScannerRegistrationTraits, WebhookPolicyTraits,
      ImmutableTagRuleTraits, RetentionPolicyTraits
<1> QED BY <1>2 DEF Matching

\* An object taken over by its payload has the payload.
LEMMA FoundApplied ==
  ASSUME IInv, AppliedInv, T.createdId = "search", NEW x \in Matching
  PROVE  AppliedIn(cur, [mem EXCEPT !.id = x.id], harbor)
<1> DEFINE rec == [mem EXCEPT !.id = x.id]
<1>1. rec.id = x.id /\ rec.bound = mem.bound /\ rec.data = mem.data
  BY AppliedTypes DEF Resource
<1>2. x \in harbor /\ x.at = mem.bound
  BY DEF Matching
<1>3. x.data = mem.data
  BY SearchIsByContent DEF IInv
<1>4. \A y \in harbor : y.at = rec.bound /\ y.id = rec.id => y = x
  BY <1>1, <1>2 DEF AppliedInv, UniqueIds
<1> QED BY <1>1, <1>3, <1>4 DEF AppliedIn

LEMMA NewIdStatus ==
  ASSUME IInv, NEW i
  PROVE  /\ SameStatus(mem, [mem EXCEPT !.id = i])
         /\ [mem EXCEPT !.id = i].id = i
BY AppliedTypes DEF SameStatus, SamePayload, Resource

LEMMA RecordedApplied ==
  ASSUME AppliedInv, NEW x \in Recorded, x.data = mem.data
  PROVE  AppliedIn(cur, mem, harbor) /\ mem.id # 0
BY DEF Recorded, AppliedInv, UniqueIds, AppliedIn

LEMMA CreateRemoteApplied ==
  ASSUME IInv, AppliedInv, TypeOK', CreateRemote
  PROVE  AppliedInv'
<1>0. /\ UNCHANGED <<kind, cr, cache>> /\ mem.inc # 0 /\ mem.bound \in 1..MaxUid
      /\ pc # "notFound" /\ mem.id = 0
      /\ harbor \subseteq HarborObject /\ lastId \in [1..MaxUid -> Nat]
      /\ IdOK(harbor, lastId) /\ UniqueIds(harbor)
  <2>1. mem.bound # 0 /\ mem.bound \in 0..MaxUid /\ mem.inc # 0
    BY AppliedTypes DEF CreateRemote, IInv, PositionOK, Resource
  <2>2. mem.bound \in 1..MaxUid
    BY <2>1, BoundsAssumption
  <2> QED BY <2>1, <2>2 DEF CreateRemote, apiVars, IInv, TypeOK, AppliedInv, WorkerApplied, HeldOK
<1>1. CASE UNCHANGED harbor
  <2>1. WorkerHarbor
    BY <1>1, QuietWorkerHarbor
  <2>2. CASE Goto("lookup", mem)
    BY <1>0, <2>1, <2>2, MoveApplied DEF LoadedPCs
  <2>3. CASE CallFailed("Conflict") \/ CallFailed("HarborError")
    BY <1>0, <2>1, <2>3, CallFailedApplied DEF NotReadyReasons
  <2>4. CASE harbor' = harbor \cup {NewObject}
    <3>1. NewObject \in harbor
      BY <1>1, <2>4
    <3>2. NewObject.at = mem.bound /\ NewObject.id = lastId[mem.bound] + 1
      BY DEF NewObject
    <3>3. lastId[mem.bound] \in Nat
      BY <1>0
    <3> QED BY <1>0, <3>1, <3>2, <3>3 DEF IdOK
  <2> QED BY <2>2, <2>3, <2>4 DEF CreateRemote, harborVars
<1>2. CASE harbor' = harbor \cup {NewObject}
  <2>1. /\ NewObject.at = mem.bound /\ NewObject.id = lastId[mem.bound] + 1
        /\ NewObject.data = mem.data /\ NewObject.writer = Me /\ lastId[mem.bound] \in Nat
    BY <1>0 DEF NewObject
  <2>2. \A x \in harbor : ~(x.at = NewObject.at /\ x.id = NewObject.id)
    BY <1>0, <2>1 DEF IdOK, HarborObject
  <2>3. UniqueIds(harbor')
    BY <1>0, <1>2, <2>1, <2>2 DEF UniqueIds
  <2>4. WorkerHarbor
    BY <1>2, <2>1, <2>3 DEF WorkerHarbor
  <2>5. CASE Goto("lookup", mem)
    BY <1>0, <2>4, <2>5, MoveApplied DEF LoadedPCs
  <2>6. CASE CallFailed("Conflict") \/ CallFailed("HarborError")
    BY <1>0, <2>4, <2>6, CallFailedApplied DEF NotReadyReasons
  <2>7. CASE Goto("created", [mem EXCEPT !.id = NewObject.id])
    <3> DEFINE rec == [mem EXCEPT !.id = NewObject.id]
    <3>1. SameStatus(mem, rec) /\ rec.id = NewObject.id
      BY NewIdStatus
    <3>2. rec.bound = mem.bound /\ rec.data = mem.data
      BY <3>1 DEF SameStatus, SamePayload
    <3>3. \A x \in harbor' : x.at = rec.bound /\ x.id = rec.id => x = NewObject
      BY <2>1, <2>3, <1>2, <3>1, <3>2 DEF UniqueIds
    <3>4. AppliedIn(cur, rec, harbor')
      BY <3>2, <3>3, <2>1 DEF AppliedIn
    <3>5. HasRecord(rec, Searches)
      BY <3>1, <3>2, <1>0, <2>1 DEF HasRecord
    <3>6. HeldOK(Searches, "created", cur, rec, harbor')
      BY <3>4, <3>5 DEF HeldOK, RecordsOK
    <3> QED BY <1>0, <2>4, <2>7, <3>1, <3>6, GotoApplied DEF LoadedPCs
  <2> QED BY <1>2, <2>5, <2>6, <2>7 DEF CreateRemote
<1> QED BY <1>1, <1>2 DEF CreateRemote, harborVars

LEMMA UpdateRemoteApplied ==
  ASSUME IInv, AppliedInv, TypeOK', UpdateRemote
  PROVE  AppliedInv'
<1>0. /\ UNCHANGED <<kind, cr, cache>> /\ mem.inc # 0 /\ mem.bound # 0
      /\ pc # "notFound" /\ harbor \subseteq HarborObject /\ UniqueIds(harbor)
  BY DEF UpdateRemote, apiVars, IInv, TypeOK, PositionOK, AppliedInv
<1>1. CASE UNCHANGED harbor /\ CallFailed("HarborError")
  BY <1>0, <1>1, QuietWorkerHarbor, CallFailedApplied DEF NotReadyReasons
<1>2. ASSUME NEW x \in Recorded, harbor' = (harbor \ {x}) \cup {Overwrite(x)},
             Goto("ready", mem) \/ CallFailed("HarborError")
      PROVE  AppliedInv'
  <2>1. /\ Overwrite(x).at = x.at /\ Overwrite(x).id = x.id
        /\ Overwrite(x).data = mem.data /\ Overwrite(x).writer = Me
        /\ x \in harbor /\ x.at = mem.bound /\ x.id = mem.id
    BY <1>0, <1>2 DEF Overwrite, HarborObject, Recorded
  <2>2. UniqueIds(harbor')
    BY <1>0, <1>2, <2>1 DEF UniqueIds
  <2>3. WorkerHarbor
    BY <1>2, <2>1, <2>2 DEF WorkerHarbor
  <2>4. CASE Goto("ready", mem)
    <3>1. \A y \in harbor' : y.at = mem.bound /\ y.id = mem.id => y = Overwrite(x)
      BY <1>2, <2>1, <2>2 DEF UniqueIds
    <3>2. AppliedIn(cur, mem, harbor') /\ HasRecord(mem, Searches)
      BY <3>1, <2>1, <1>0 DEF AppliedIn, HasRecord, UniqueIds
    <3>3. HeldOK(Searches, "ready", cur, mem, harbor')
      BY <3>2 DEF HeldOK, RecordsOK
    <3> QED BY <1>0, <2>3, <2>4, <3>3, SameStatusSelf, GotoApplied DEF LoadedPCs
  <2>5. CASE CallFailed("HarborError")
    BY <1>0, <2>3, <2>5, CallFailedApplied DEF NotReadyReasons
  <2> QED BY <1>2, <2>4, <2>5
<1> QED BY <1>1, <1>2 DEF UpdateRemote

LEMMA LookupApplied ==
  ASSUME IInv, AppliedInv, AdoptExisting \/ LookupRemote
  PROVE  AppliedInv'
<1>0. /\ UNCHANGED <<kind, cr, cache>> /\ mem.inc # 0 /\ mem.bound # 0 /\ mem.id = 0
      /\ pc \in {"list", "lookup"} /\ RecordsOK(mem, Searches) /\ UNCHANGED harbor
  BY DEF AdoptExisting, LookupRemote, apiVars, harborVars, IInv, PositionOK, AppliedInv,
         WorkerApplied, HeldOK
<1>1. WorkerHarbor
  BY <1>0, QuietWorkerHarbor
<1>2. CASE CallFailed("HarborError")
  BY <1>0, <1>1, <1>2, CallFailedApplied DEF NotReadyReasons
<1>3. CASE Goto(AcquiredPC(mem), mem)
  <2>1. /\ AcquiredPC(mem) \in MovePCs \/ AcquiredPC(mem) \in {"list", "create", "lookup"}
        /\ AcquiredPC(mem) \notin LoadedPCs
    BY MoveTargets DEF MovePCs, LoadedPCs
  <2> QED BY <1>0, <1>1, <1>3, <2>1, MoveApplied
<1>4. ASSUME Searches, Goto("created", mem)
      PROVE  AppliedInv'
  <2>1. AppliedIn(cur, mem, harbor')
    BY <1>0 DEF AppliedIn, AppliedInv, UniqueIds
  <2>2. HeldOK(Searches, "created", cur, mem, harbor')
    BY <2>1, <1>0, <1>4 DEF HeldOK, HasRecord, RecordsOK
  <2> QED BY <1>0, <1>1, <1>4, <2>2, SameStatusSelf, GotoApplied DEF LoadedPCs
<1>5. ASSUME NEW x \in Matching, NEW p \in {"created", "adopted"},
             p = "created" => Searches, Goto(p, [mem EXCEPT !.id = x.id])
      PROVE  AppliedInv'
  <2> DEFINE rec == [mem EXCEPT !.id = x.id]
  <2>1. SameStatus(mem, rec) /\ rec.id = x.id
    BY NewIdStatus
  <2>2. x.id # 0
    BY DEF Matching, AppliedInv, UniqueIds
  <2>3. HasRecord(rec, Searches)
    BY <2>1, <2>2, <1>0 DEF HasRecord, SameStatus
  <2>4. Searches => AppliedIn(cur, rec, harbor')
    BY <1>0, FoundApplied DEF Searches
  <2>5. rec.reason \in ReadyReasons => Searches
    BY <2>1, <1>0 DEF SameStatus, RecordsOK, HasRecord
  <2>6. HeldOK(Searches, p, cur, rec, harbor')
    BY <1>5, <2>3, <2>4, <2>5 DEF HeldOK, RecordsOK
  <2> QED BY <1>0, <1>1, <1>5, <2>1, <2>6, GotoApplied DEF LoadedPCs
<1>6. CASE AdoptExisting
  BY <1>6, <1>2, <1>3, <1>5 DEF AdoptExisting
<1>7. CASE LookupRemote
  <2>1. T.createdId = "search" <=> Searches
    BY DEF Searches
  <2>2. ASSUME NEW x \in Matching,
               Goto(IF T.createdId = "search" THEN "created" ELSE "adopted",
                    [mem EXCEPT !.id = x.id])
        PROVE  AppliedInv'
    BY <2>1, <2>2, <1>5
  <2> QED BY <1>7, <1>2, <1>4, <2>1, <2>2 DEF LookupRemote
<1> QED BY <1>6, <1>7

LEMMA PersistAdoptionApplied ==
  ASSUME IInv, AppliedInv, PersistAdoption
  PROVE  AppliedInv'
<1>0. UNCHANGED kind /\ Quiet /\ mem.inc # 0 /\ HeldOK(Searches, "adopted", cur, mem, harbor)
  BY DEF PersistAdoption, harborVars, Quiet, IInv, PositionOK, AppliedInv, WorkerApplied
<1>1. StoredOK(Searches, cur, mem, harbor)
  BY <1>0 DEF HeldOK, StoredOK
<1>2. HeldOK(Searches, AcquiredPC(mem), cur, mem, harbor)
  <2>1. RecordsOK(mem, Searches)
    BY <1>0 DEF HeldOK
  <2>2. \/ AcquiredPC(mem) \in MovePCs
        \/ AcquiredPC(mem) \in {"list", "create", "lookup"} /\ mem.id = 0
    BY MoveTargets
  <2> QED BY <2>1, <2>2, MoveHeld
<1> QED BY <1>0, <1>1, <1>2, SameStatusSelf, PersistApplied, PersistAndReturnApplied
    DEF PersistAdoption

LEMMA GetRemoteApplied ==
  ASSUME IInv, AppliedInv, GetRemote
  PROVE  AppliedInv'
<1>0. /\ UNCHANGED <<kind, cr, cache, harbor>> /\ mem.inc # 0 /\ mem.bound # 0
      /\ pc = "get" /\ WorkerHarbor
  BY QuietWorkerHarbor DEF GetRemote, apiVars, harborVars, IInv, PositionOK
<1>1. CASE Goto("notFound", [mem EXCEPT !.id = 0])
  <2>1. SameStatus(mem, [mem EXCEPT !.id = 0])
    BY NewIdStatus
  <2>2. HeldOK(Searches, "notFound", cur, [mem EXCEPT !.id = 0], harbor')
    BY DEF HeldOK
  <2> QED BY <1>0, <1>1, <2>1, <2>2, GotoApplied DEF LoadedPCs
<1>2. ASSUME NEW x \in Recorded, x.data = mem.data, Goto("ready", mem)
      PROVE  AppliedInv'
  <2>1. AppliedIn(cur, mem, harbor') /\ HasRecord(mem, Searches)
    BY <1>0, <1>2, RecordedApplied DEF HasRecord
  <2>2. HeldOK(Searches, "ready", cur, mem, harbor')
    BY <2>1 DEF HeldOK, RecordsOK
  <2> QED BY <1>0, <1>2, <2>2, SameStatusSelf, GotoApplied DEF LoadedPCs
<1>3. CASE Goto("update", mem)
  BY <1>0, <1>3, MoveApplied DEF MovePCs, LoadedPCs
<1>4. CASE CallFailed("HarborError")
  BY <1>0, <1>4, CallFailedApplied DEF NotReadyReasons
<1> QED BY <1>1, <1>2, <1>3, <1>4 DEF GetRemote

LEMMA DeleteRemoteApplied ==
  ASSUME IInv, AppliedInv, DeleteRemote
  PROVE  AppliedInv'
<1>0. UNCHANGED <<kind, cr, cache>> /\ mem.inc # 0 /\ pc = "finalize" /\ harbor' \subseteq harbor
  BY DEF DeleteRemote, apiVars, IInv, PositionOK
<1>1. WorkerHarbor
  BY <1>0 DEF WorkerHarbor, AppliedInv, UniqueIds
<1>2. CASE Goto("unfinalize", mem)
  BY <1>0, <1>1, <1>2, MoveApplied DEF MovePCs, LoadedPCs
<1>3. CASE CleanupFailed
  BY <1>0, <1>1, <1>3, CallFailedApplied, ReturnApplied DEF CleanupFailed, NotReadyReasons
<1> QED BY <1>2, <1>3 DEF DeleteRemote

\* The steps on the way to the finalizer, which make no call to Harbor.
LEMMA PrepareApplied ==
  ASSUME IInv, AppliedInv,
         \/ MarkReconcilingIfNeeded \/ GetHarborClientForObject \/ BuildHarborClient
         \/ EnsureFinalizer \/ ResolveReferences
  PROVE  AppliedInv'
<1>0. /\ UNCHANGED <<kind, cache, harbor>> /\ Quiet /\ mem.inc # 0 /\ WorkerHarbor
      /\ RecordsOK(mem, Searches) /\ pc # "notFound" /\ mem \in Resource
      /\ FreshOK(memFresh, pc, mem, cr[cur]) /\ MemFreshOK(memFresh, mem, cr[cur], cache[cur])
      /\ \A o \in Objects : StoredOK(Searches, o, cr[o], harbor)
      /\ cur \in Objects
  BY QuietWorkerHarbor, AppliedTypes
  DEF MarkReconcilingIfNeeded, GetHarborClientForObject, BuildHarborClient, EnsureFinalizer,
      ResolveReferences, harborVars, Quiet, IInv, PositionOK, AppliedInv, WorkerApplied, HeldOK,
      NameApplied
<1>1. ASSUME NEW p \in MovePCs \cup {"list", "create", "lookup"}, Goto(p, mem), UNCHANGED cr,
             p \in {"list", "create", "lookup"} => mem.id = 0,
             p \in LoadedPCs => pc \in LoadedPCs
      PROVE  AppliedInv'
  BY <1>0, <1>1, MoveApplied
<1>a. CASE MarkReconcilingIfNeeded
  <2> DEFINE rec == Marked(mem, "Reconciling")
  <2>1. /\ rec.inc = mem.inc /\ rec.gen = mem.gen /\ rec.data = mem.data
        /\ rec.obsGen = mem.gen /\ rec.reason = "Reconciling"
    BY <1>0 DEF Marked, Resource
  <2>2. Follows(mem, rec) /\ rec.reason \notin ReadyReasons
    BY <2>1 DEF Follows, SamePayload, ReadyReasons
  <2>3. StoredOK(Searches, cur, rec, harbor) /\ HeldOK(Searches, "bind", cur, rec, harbor)
    BY <2>2 DEF StoredOK, HeldOK, RecordsOK
  <2>4. CASE Persist(rec, "bind")
    BY <2>2, <2>3, <2>4, <1>0, PersistApplied
  <2>5. CASE Goto("bind", mem) /\ UNCHANGED <<cr, cacheFresh>>
    BY <1>a, <2>5, <1>1 DEF MarkReconcilingIfNeeded, MovePCs, LoadedPCs
  <2> QED BY <1>a, <2>4, <2>5 DEF MarkReconcilingIfNeeded
<1>b. CASE GetHarborClientForObject
  <2>1. CASE \/ WithoutConnection("ConnectionNotFound", TRUE)
             \/ WithoutConnection("ConnectionChanged", FALSE)
    BY <2>1, <1>0, WithoutConnectionApplied DEF NotReadyReasons
  <2>2. CASE Goto("client", mem) /\ UNCHANGED <<cr, cacheFresh>>
    BY <1>b, <2>2, <1>1 DEF GetHarborClientForObject, MovePCs, LoadedPCs
  <2>3. CASE mem.bound = 0 /\ Persist([mem EXCEPT !.bound = conn], "client")
    <3> DEFINE rec == [mem EXCEPT !.bound = conn]
    <3>1. SamePayload(mem, rec) /\ rec.obsGen = mem.obsGen /\ rec.reason = mem.reason
      BY <1>0 DEF SamePayload, Resource
    <3>2. rec.reason \notin ReadyReasons
      BY <3>1, <2>3, <1>0 DEF RecordsOK, HasRecord
    <3>3. StoredOK(Searches, cur, rec, harbor) /\ HeldOK(Searches, "client", cur, rec, harbor)
      BY <3>2 DEF StoredOK, HeldOK, RecordsOK
    <3> QED BY <2>3, <3>1, <3>3, <1>0, PersistApplied DEF Follows
  <2> QED BY <1>b, <2>1, <2>2, <2>3 DEF GetHarborClientForObject
<1>c. CASE BuildHarborClient
  <2>1. CASE WithoutConnection("SecretNotFound", TRUE)
    BY <2>1, <1>0, WithoutConnectionApplied DEF NotReadyReasons
  <2>2. CASE /\ Goto("finalize", mem) \/ Goto("finalizer", mem)
             /\ UNCHANGED <<cr, cacheFresh>>
    BY <1>c, <2>2, <1>1 DEF BuildHarborClient, MovePCs, LoadedPCs
  <2> QED BY <1>c, <2>1, <2>2 DEF BuildHarborClient
<1>d. CASE EnsureFinalizer
  <2>0. /\ HeldPC(mem) \in MovePCs \cup {"list", "create", "lookup"}
        /\ HeldPC(mem) \in {"list", "create", "lookup"} => mem.id = 0
        /\ HeldPC(mem) \notin LoadedPCs
    BY MoveTargets DEF MovePCs, LoadedPCs
  <2>1. CASE Goto(HeldPC(mem), mem) /\ UNCHANGED <<cr, cacheFresh>>
    BY <2>0, <2>1, <1>1
  <2>2. CASE Persist([mem EXCEPT !.fin = TRUE], HeldPC(mem))
    <3> DEFINE rec == [mem EXCEPT !.fin = TRUE]
    <3>1. SameStatus(mem, rec) /\ rec.id = mem.id /\ Follows(mem, rec)
      BY <1>0 DEF SameStatus, SamePayload, Follows, Resource
    <3>2. RecordsOK(rec, Searches)
      BY <3>1, <1>0 DEF SameStatus, RecordsOK, HasRecord
    <3>3. HeldOK(Searches, HeldPC(mem), cur, rec, harbor)
      BY <3>1, <3>2, <2>0, MoveHeld
    <3>4. ASSUME memFresh PROVE StoredOK(Searches, cur, rec, harbor)
      <4>1. /\ rec.inc = cr[cur].inc /\ rec.bound = cr[cur].bound /\ rec.id = cr[cur].id
            /\ rec.gen = cr[cur].gen /\ rec.data = cr[cur].data
            /\ rec.obsGen = cr[cur].obsGen /\ rec.reason = cr[cur].reason
        BY <1>0, <1>d, <3>1, <3>4
        DEF EnsureFinalizer, FreshOK, MemFreshOK, LoadedPCs, SameStatus, SamePayload
      <4> QED BY <4>1, <1>0 DEF StoredOK, RecordsOK, HasRecord, AppliedIn
    <3>5. CASE memFresh
      BY <2>2, <3>1, <3>3, <3>4, <3>5, <1>0, PersistApplied
    <3>6. CASE Refused
      BY <3>6, <1>0, RefusedApplied
    <3> QED BY <2>2, <3>5, <3>6 DEF Persist, Accepted
  <2> QED BY <1>d, <2>1, <2>2 DEF EnsureFinalizer
<1>e. CASE ResolveReferences
  <2>1. /\ ResolvedPC(mem) \in MovePCs \cup {"list", "create", "lookup"}
        /\ ResolvedPC(mem) \in {"list", "create", "lookup"} => mem.id = 0
        /\ ResolvedPC(mem) \notin LoadedPCs
    BY MoveTargets DEF MovePCs, LoadedPCs
  <2>2. CASE Goto(ResolvedPC(mem), mem) /\ UNCHANGED <<cr, cacheFresh>>
    BY <2>1, <2>2, <1>1
  <2>3. CASE Fail("ReferenceError")
    BY <2>3, <1>0, SetStatusApplied DEF Fail, NotReadyReasons
  <2> QED BY <1>e, <2>2, <2>3 DEF ResolveReferences
<1> QED BY <1>a, <1>b, <1>c, <1>d, <1>e

LEMMA ReconcileApplied == ASSUME IInv, AppliedInv, TypeOK', Reconcile PROVE AppliedInv'
<1>1. CASE \/ MarkReconcilingIfNeeded \/ GetHarborClientForObject \/ BuildHarborClient
           \/ EnsureFinalizer \/ ResolveReferences
  BY <1>1, PrepareApplied
<1>2. CASE FinalizeIfDeleting \/ FinalizeAfterCleanup
  <2>1. UNCHANGED kind /\ Quiet /\ mem.inc # 0 /\ RemoveFinalizer
    BY <1>2 DEF FinalizeIfDeleting, FinalizeAfterCleanup, harborVars, Quiet, IInv, PositionOK
  <2> QED BY <2>1, RemoveFinalizerApplied
<1>3. CASE DeleteRemote
  BY <1>3, DeleteRemoteApplied
<1>4. CASE AdoptExisting \/ LookupRemote
  BY <1>4, LookupApplied
<1>5. CASE PersistAdoption
  BY <1>5, PersistAdoptionApplied
<1>6. CASE CreateRemote
  BY <1>6, CreateRemoteApplied
<1>7. CASE GetRemote
  BY <1>7, GetRemoteApplied
<1>8. CASE UpdateRemote
  BY <1>8, UpdateRemoteApplied
<1>9. CASE SetCreatedStatus \/ SetReadyStatus
  <2>1. UNCHANGED kind /\ Quiet /\ mem.inc # 0 /\ pc \in {"ready", "created"}
    BY <1>9 DEF SetCreatedStatus, SetReadyStatus, harborVars, Quiet, IInv, PositionOK
  <2> QED BY <1>9, <2>1, SetStatusApplied DEF SetCreatedStatus, SetReadyStatus
<1>10. CASE RequireCreationAllowed \/ RequeueOnRemoteNotFound \/ SetErrorStatus
  <2>1. UNCHANGED kind /\ Quiet /\ mem.inc # 0 /\ err \in NotReadyReasons
    BY <1>10 DEF RequireCreationAllowed, RequeueOnRemoteNotFound, SetErrorStatus, harborVars,
                 Quiet, IInv, PositionOK, AppliedInv
  <2> QED BY <1>10, <2>1, SetStatusApplied
      DEF RequireCreationAllowed, RequeueOnRemoteNotFound, SetErrorStatus, Fail, NotReadyReasons
<1> QED BY <1>1, <1>2, <1>3, <1>4, <1>5, <1>6, <1>7, <1>8, <1>9, <1>10 DEF Reconcile

-----------------------------------------------------------------------------
(* The steps of the others *)

\* What a step of somebody else may do to Harbor.
OthersHarbor ==
  /\ \A x \in harbor' : x \in harbor \/ x.writer = <<Env, 0>>
  /\ UniqueIds(harbor')

LEMMA OthersKeep ==
  ASSUME OthersHarbor, NEW o \in Objects, NEW c
  PROVE  Keeps(o, c, harbor, harbor')
BY ConstantsAssumption DEF OthersHarbor, Keeps

LEMMA OthersHarborApplied ==
  ASSUME IInv, AppliedInv, OthersHarbor,
         UNCHANGED <<kind, cr, cache, pc, cur, mem, memFresh, err>>
  PROVE  AppliedInv'
<1>1. \A o \in Objects : NameApplied(Searches, o, cr[o], cache[o], harbor')
  BY OthersKeep, NameAppliedKept DEF AppliedInv
<1>2. HeldOK(Searches, pc, cur, mem, harbor')
  <2>1. HeldOK(Searches, pc, cur, mem, harbor) /\ cur \in Objects
    BY AppliedTypes DEF AppliedInv, WorkerApplied
  <2> QED BY <2>1, OthersKeep, HeldKept
<1>3. WorkerApplied(Searches, pc, cur, mem, memFresh, cr[cur], cache[cur], harbor')
  BY <1>2 DEF AppliedInv, WorkerApplied
<1> QED BY <1>1, <1>3, AppliedSuffices DEF AppliedInv, OthersHarbor

LEMMA UniqueIdsAdd ==
  ASSUME NEW hb, UniqueIds(hb), NEW y, y.id # 0,
         \A x \in hb : ~(x.at = y.at /\ x.id = y.id)
  PROVE  UniqueIds(hb \cup {y})
BY DEF UniqueIds

LEMMA UniqueIdsReplace ==
  ASSUME NEW hb, UniqueIds(hb), NEW x \in hb, NEW y, y.at = x.at, y.id = x.id
  PROVE  UniqueIds((hb \ {x}) \cup {y})
BY DEF UniqueIds

LEMMA ForeignHarborApplied ==
  ASSUME IInv, AppliedInv, ForeignCreate \/ ForeignUpdate \/ ForeignDelete
  PROVE  OthersHarbor
<1>0. harbor \subseteq HarborObject /\ lastId \in [1..MaxUid -> Nat]
      /\ IdOK(harbor, lastId) /\ UniqueIds(harbor)
  BY DEF IInv, TypeOK, AppliedInv
<1>1. CASE ForeignCreate
  <2>1. PICK h \in 1..MaxUid, o \in Objects, d \in Data :
          harbor' = harbor \cup
            {[at |-> h, id |-> lastId[h] + 1, name |-> HarborName[o],
              data |-> d, maker |-> <<Env, 0>>, writer |-> <<Env, 0>>]}
    BY <1>1 DEF ForeignCreate
  <2>2. PICK y : /\ harbor' = harbor \cup {y}
                 /\ y.at = h /\ y.id = lastId[h] + 1 /\ y.writer = <<Env, 0>>
    <3>1. ASSUME NEW y, y = [at |-> h, id |-> lastId[h] + 1, name |-> HarborName[o],
                             data |-> d, maker |-> <<Env, 0>>, writer |-> <<Env, 0>>]
          PROVE  y.at = h /\ y.id = lastId[h] + 1 /\ y.writer = <<Env, 0>>
      BY <3>1
    <3> QED BY <2>1, <3>1
  <2>3. y.id # 0 /\ \A x \in harbor : ~(x.at = y.at /\ x.id = y.id)
    BY <1>0, <2>2 DEF IdOK, HarborObject
  <2>4. UniqueIds(harbor')
    BY <1>0, <2>2, <2>3, UniqueIdsAdd
  <2> QED BY <2>2, <2>4 DEF OthersHarbor
<1>2. CASE ForeignUpdate
  <2>1. PICK x \in harbor : \E d \in Data \ {x.data} :
          harbor' = (harbor \ {x}) \cup {[x EXCEPT !.data = d, !.writer = <<Env, 0>>]}
    BY <1>2 DEF ForeignUpdate
  <2>2. PICK d \in Data \ {x.data} :
          harbor' = (harbor \ {x}) \cup {[x EXCEPT !.data = d, !.writer = <<Env, 0>>]}
    BY <2>1
  <2>3. PICK y : /\ harbor' = (harbor \ {x}) \cup {y}
                 /\ y.at = x.at /\ y.id = x.id /\ y.writer = <<Env, 0>>
    <3>1. ASSUME NEW y, y = [x EXCEPT !.data = d, !.writer = <<Env, 0>>]
          PROVE  y.at = x.at /\ y.id = x.id /\ y.writer = <<Env, 0>>
      BY <1>0, <3>1 DEF HarborObject
    <3> QED BY <2>2, <3>1
  <2>4. UniqueIds(harbor')
    BY <1>0, <2>3, UniqueIdsReplace
  <2> QED BY <2>3, <2>4 DEF OthersHarbor
<1>3. CASE ForeignDelete
  BY <1>0, <1>3 DEF ForeignDelete, OthersHarbor, UniqueIds
<1> QED BY <1>1, <1>2, <1>3

LEMMA LoadResourceApplied ==
  ASSUME IInv, AppliedInv, NEW o \in Objects, LoadResource(o)
  PROVE  AppliedInv'
<1>0. UNCHANGED <<kind, cr, cache, harbor, err>> /\ cur' = o
  BY DEF LoadResource, apiVars, harborVars
<1>1. WorkerApplied(Searches, pc', o, mem', memFresh', cr[o], cache[o], harbor)
  <2>1. CASE cache[o].inc = 0
    BY <2>1, NoCopyApplied DEF LoadResource
  <2>2. CASE cache[o].inc # 0
    <3>1. pc' = "mark" /\ mem' = cache[o] /\ memFresh' = cacheFresh[o]
      BY <2>2 DEF LoadResource
    <3>2. GenOK(cache[o], cr[o]) /\ RecordsOK(cache[o], Searches)
          /\ (cacheFresh[o] => cache[o] = cr[o]) /\ cache[o].gen \in Nat
      BY AppliedTypes DEF AppliedInv, NameApplied, IInv
    <3>3. HeldOK(Searches, "mark", o, cache[o], harbor)
      BY <3>2 DEF HeldOK
    <3> QED BY <3>1, <3>2, <3>3 DEF WorkerApplied, CacheGenOK, FreshOK
  <2> QED BY <2>1, <2>2
<1> QED BY <1>0, <1>1, AppliedSuffices DEF AppliedInv

LEMMA SyncCacheApplied ==
  ASSUME IInv, AppliedInv, NEW o \in Objects, SyncCache(o)
  PROVE  AppliedInv'
<1>0. /\ UNCHANGED <<kind, cr, harbor, pc, cur, mem, memFresh, err>>
      /\ \A u \in Objects : cache'[u] = cache[u] \/ cache'[u] = cr[u]
      /\ cur \in Objects
  BY AppliedTypes DEF SyncCache, harborVars
<1>1. \A u \in Objects : NameApplied(Searches, u, cr[u], cache'[u], harbor)
  BY <1>0 DEF AppliedInv, NameApplied, StoredOK
<1>2. CacheGenOK(mem, cache'[cur])
  BY <1>0, AppliedTypes DEF AppliedInv, WorkerApplied, CacheGenOK, GenOK
<1>3. WorkerApplied(Searches, pc, cur, mem, memFresh, cr[cur], cache'[cur], harbor)
  BY <1>2 DEF AppliedInv, WorkerApplied
<1> QED BY <1>0, <1>1, <1>3, AppliedSuffices DEF AppliedInv

LEMMA CrashApplied == ASSUME IInv, AppliedInv, Crash PROVE AppliedInv'
<1>0. /\ UNCHANGED <<kind, cr, harbor, cur>> /\ cache' = cr
      /\ pc' = "idle" /\ mem' = NoResource /\ memFresh' = FALSE /\ err' = ""
  BY DEF Crash, harborVars
<1>1. \A u \in Objects : NameApplied(Searches, u, cr[u], cr[u], harbor)
  BY DEF AppliedInv, NameApplied, StoredOK
<1>2. WorkerApplied(Searches, pc', cur, mem', memFresh', cr[cur], cr[cur], harbor)
  BY <1>0, NoCopyApplied
<1> QED BY <1>0, <1>1, <1>2, AppliedSuffices DEF AppliedInv, NotReadyReasons

\* Users write a new resource, a new generation of one, or nothing any more.
NewRecord(n, rec) ==
  /\ rec.inc = n + 1 /\ rec.gen = 1 /\ rec.obsGen = 0
  /\ rec.reason \notin ReadyReasons

EditedRecord(r, rec) ==
  /\ rec.inc = r.inc /\ rec.gen = r.gen + 1 /\ rec.obsGen = r.obsGen
  /\ rec.reason = r.reason /\ rec.bound = r.bound /\ rec.id = r.id

UserRecord(o, rec) ==
  rec = NoResource \/ NewRecord(lastInc[o], rec) \/ EditedRecord(cr[o], rec)

LEMMA UserWritesRecord ==
  ASSUME IInv, NEW o \in Objects, UserCreate(o) \/ UserEdit(o) \/ UserDelete(o)
  PROVE  \E rec : UserWrites(o, rec) /\ UserRecord(o, rec)
<1>0. cr[o] \in Resource
  BY AppliedTypes
<1>1. CASE UserCreate(o)
  <2>1. ASSUME NEW n, NEW d, NEW cp, NEW dp PROVE NewRecord(n, NewResource(n + 1, d, cp, dp))
    <3>1. /\ NewResource(n + 1, d, cp, dp).inc = n + 1
          /\ NewResource(n + 1, d, cp, dp).gen = 1
          /\ NewResource(n + 1, d, cp, dp).obsGen = 0
          /\ NewResource(n + 1, d, cp, dp).reason = NoResource.reason
      BY DEF NewResource, NoResource
    <3> QED BY <3>1, NoResourceStatus DEF NewRecord
  <2> QED BY <1>1, <2>1 DEF UserCreate, UserRecord
<1>2. CASE UserEdit(o)
  <2>1. PICK d \in Data, dp \in DeletionPolicies :
          UserWrites(o, [cr[o] EXCEPT !.gen = @ + 1, !.data = d, !.deletionPolicy = dp])
    BY <1>2 DEF UserEdit
  <2>2. EditedRecord(cr[o], [cr[o] EXCEPT !.gen = @ + 1, !.data = d, !.deletionPolicy = dp])
    BY <1>0 DEF EditedRecord, Resource
  <2> QED BY <2>1, <2>2 DEF UserRecord
<1>3. CASE UserDelete(o) /\ cr[o].fin
  <2>1. EditedRecord(cr[o], [cr[o] EXCEPT !.deleting = TRUE, !.gen = @ + 1])
    BY <1>0 DEF EditedRecord, Resource
  <2> QED BY <1>3, <2>1 DEF UserDelete, UserRecord
<1>4. CASE UserDelete(o) /\ ~cr[o].fin
  BY <1>4 DEF UserDelete, UserRecord
<1> QED BY <1>1, <1>2, <1>3, <1>4

\* A copy of what was there before the user wrote.
LEMMA UserWriteCopy ==
  ASSUME NEW r \in Resource, NEW n \in Nat, NEW rec, NEW c \in Resource,
         rec = NoResource \/ NewRecord(n, rec) \/ EditedRecord(r, rec),
         GenOK(c, r), c.inc # 0 => c.inc <= n
  PROVE  GenOK(c, rec)
<1>0. /\ r.gen \in Nat /\ r.inc \in Nat /\ r.obsGen \in Nat /\ c.gen \in Nat /\ c.inc \in Nat
      /\ NoResource.inc = 0
  BY NoResourceStatus DEF Resource
<1>1. CASE rec = NoResource
  BY <1>0, <1>1 DEF GenOK
<1>2. CASE NewRecord(n, rec)
  BY <1>0, <1>2 DEF GenOK, NewRecord
<1>3. CASE EditedRecord(r, rec)
  BY <1>0, <1>3 DEF GenOK, EditedRecord
<1> QED BY <1>1, <1>2, <1>3

LEMMA UserWriteName ==
  ASSUME NEW s, NEW o, NEW r \in Resource, NEW n \in Nat, NEW rec, NEW k \in Resource, NEW hb,
         rec = NoResource \/ NewRecord(n, rec) \/ EditedRecord(r, rec),
         NameApplied(s, o, r, k, hb), k.inc # 0 => k.inc <= n
  PROVE  NameApplied(s, o, rec, k, hb)
<1>0. /\ r.gen \in Nat /\ r.inc \in Nat /\ r.obsGen \in Nat
      /\ GenOK(r, r) /\ RecordsOK(r, s) /\ RecordsOK(k, s)
  BY DEF Resource, NameApplied, StoredOK
<1>1. GenOK(k, rec)
  BY UserWriteCopy DEF NameApplied
<1>2. CASE rec = NoResource
  BY <1>0, <1>2, NoNameApplied
<1>3. CASE NewRecord(n, rec)
  <2>1. GenOK(rec, rec) /\ rec.reason \notin ReadyReasons
    BY <1>3 DEF NewRecord, GenOK
  <2> QED BY <1>0, <1>1, <2>1 DEF NameApplied, StoredOK, RecordsOK
<1>4. CASE EditedRecord(r, rec) /\ r.inc # 0
  <2>1. r.obsGen <= r.gen
    BY <1>0, <1>4 DEF GenOK
  <2>2. GenOK(rec, rec) /\ rec.obsGen # rec.gen
    BY <1>0, <1>4, <2>1 DEF EditedRecord, GenOK
  <2>3. RecordsOK(rec, s)
    BY <1>0, <1>4 DEF EditedRecord, RecordsOK, HasRecord
  <2> QED BY <1>0, <1>1, <2>2, <2>3 DEF NameApplied, StoredOK
<1>5. CASE EditedRecord(r, rec) /\ r.inc = 0
  <2>1. rec.inc = 0 /\ RecordsOK(rec, s)
    BY <1>0, <1>5 DEF EditedRecord, RecordsOK, HasRecord
  <2> QED BY <1>0, <1>1, <2>1 DEF NameApplied, StoredOK, GenOK
<1> QED BY <1>2, <1>3, <1>4, <1>5

LEMMA UsersApplied ==
  ASSUME IInv, AppliedInv, NEW o \in Objects,
         UserCreate(o) \/ UserEdit(o) \/ UserDelete(o)
  PROVE  AppliedInv'
<1>1. PICK rec : UserWrites(o, rec) /\ UserRecord(o, rec)
  BY UserWritesRecord
<1>2. /\ UNCHANGED <<kind, cache, pc, cur, mem, err, harbor>>
      /\ memFresh' = (memFresh /\ cur # o)
      /\ cr'[o] = rec /\ \A u \in Objects \ {o} : cr'[u] = cr[u]
      /\ cur \in Objects
  BY <1>1, AppliedTypes DEF UserWrites, harborVars
<1>3. \A u \in Objects : NameApplied(Searches, u, cr'[u], cache[u], harbor)
  <2>1. /\ cr[o] \in Resource /\ cache[o] \in Resource /\ lastInc[o] \in Nat
        /\ cache[o].inc # 0 => cache[o].inc <= lastInc[o]
        /\ NameApplied(Searches, o, cr[o], cache[o], harbor)
    BY AppliedTypes DEF IInv, TypeOK, CopyOK, AppliedInv
  <2>2. NameApplied(Searches, o, rec, cache[o], harbor)
    BY <1>1, <2>1, UserWriteName DEF UserRecord
  <2> QED BY <1>2, <2>2 DEF AppliedInv
<1>4. GenOK(mem, cr'[cur])
  <2>1. /\ mem \in Resource /\ (mem.inc # 0 => mem.inc <= lastInc[cur]) /\ GenOK(mem, cr[cur])
        /\ cr[cur] \in Resource /\ lastInc[cur] \in Nat
    BY AppliedTypes DEF IInv, TypeOK, CopyOK, AppliedInv, WorkerApplied
  <2>2. CASE cur = o
    <3>1. GenOK(mem, rec)
      BY <1>1, <2>1, <2>2, UserWriteCopy DEF UserRecord
    <3> QED BY <1>2, <2>2, <3>1
  <2>3. CASE cur # o
    BY <1>2, <2>1, <2>3
  <2> QED BY <2>2, <2>3
<1>5. FreshOK(memFresh', pc, mem, cr'[cur])
  BY <1>2 DEF AppliedInv, WorkerApplied, FreshOK
<1>6. WorkerApplied(Searches, pc, cur, mem, memFresh', cr'[cur], cache[cur], harbor)
  BY <1>4, <1>5 DEF AppliedInv, WorkerApplied
<1> QED BY <1>2, <1>3, <1>6, AppliedSuffices DEF AppliedInv

-----------------------------------------------------------------------------
(* The theorem *)

LEMMA AppliedInit == Init => AppliedInv
<1> SUFFICES ASSUME Init PROVE AppliedInv
  OBVIOUS
<1>1. /\ \A o \in Objects : cr[o] = NoResource /\ cache[o] = NoResource
      /\ pc = "idle" /\ mem = NoResource /\ memFresh = FALSE /\ harbor = {} /\ err = ""
  BY DEF Init
<1>2. \A o \in Objects : NameApplied(Searches, o, cr[o], cache[o], harbor)
  BY <1>1, NoNameApplied, NoResourceStatus DEF RecordsOK
<1> QED BY <1>1, <1>2, NoCopyApplied DEF AppliedInv, UniqueIds, NotReadyReasons

LEMMA AppliedStep ==
  ASSUME IInv, TypeOK', AppliedInv, [Next]_vars
  PROVE  AppliedInv'
<1>1. CASE Reconcile
  BY <1>1, ReconcileApplied
<1>2. ASSUME NEW o \in Objects, LoadResource(o) PROVE AppliedInv'
  BY <1>2, LoadResourceApplied
<1>3. ASSUME NEW o \in Objects, SyncCache(o) PROVE AppliedInv'
  BY <1>3, SyncCacheApplied
<1>4. ASSUME NEW o \in Objects, UserCreate(o) \/ UserEdit(o) \/ UserDelete(o)
      PROVE  AppliedInv'
  BY <1>4, UsersApplied
<1>5. CASE Crash
  BY <1>5, CrashApplied
<1>6. CASE ForeignCreate \/ ForeignUpdate \/ ForeignDelete
  <2>1. UNCHANGED <<kind, cr, cache, pc, cur, mem, memFresh, err>>
    BY <1>6 DEF ForeignCreate, ForeignUpdate, ForeignDelete, apiVars, workerVars
  <2> QED BY <1>6, <2>1, ForeignHarborApplied, OthersHarborApplied
<1>7. ASSUME \/ DeleteConnection \/ CreateConnection \/ LoseSecret \/ RestoreSecret
             \/ LoseReference \/ ReferenceResolves \/ UNCHANGED vars
             \/ \E o \in Objects : DriftTimer(o)
      PROVE  AppliedInv'
  <2>1. UNCHANGED <<kind, cr, cache, pc, cur, mem, memFresh, err, harbor>>
    BY <1>7
    DEF DeleteConnection, CreateConnection, LoseSecret, RestoreSecret, LoseReference,
        ReferenceResolves, DriftTimer, vars, apiVars, workerVars, harborVars
  <2>2. OthersHarbor
    BY <2>1 DEF OthersHarbor, AppliedInv
  <2> QED BY <2>1, <2>2, OthersHarborApplied
<1> QED BY <1>1, <1>2, <1>3, <1>4, <1>5, <1>6, <1>7 DEF Next

\* No reconcile of an older copy undoes a newer one: when a resource is Ready for
\* its current generation and wrote its Harbor object last, the object has the
\* payload of that generation.
THEOREM ReadyIsApplied == Spec => []ReadyMeansApplied
<1>1. Init => IInv /\ AppliedInv
  BY IInvInit, AppliedInit
<1>2. IInv /\ AppliedInv /\ [Next]_vars => IInv' /\ AppliedInv'
  BY IInvStep, IInvType, TypeStep, AppliedStep DEF TypeInv
<1>3. AppliedInv => ReadyMeansApplied
  BY DEF AppliedInv, NameApplied, StoredOK, AppliedIn, ReadyMeansApplied, Exists, Ready
<1> QED BY <1>1, <1>2, <1>3, PTL DEF Spec

=============================================================================
