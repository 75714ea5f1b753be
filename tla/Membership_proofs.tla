-------------------------- MODULE Membership_proofs --------------------------
(***************************************************************************)
(* Types and safety of Membership, for every set of Members, claims, users *)
(* and groups, every assignment of references, policies, and every bound.  *)
(*                                                                         *)
(* The two workers act on copies that may be old, even of an incarnation   *)
(* that is gone.  The invariant says of every copy what of it still holds  *)
(* at the API server (CopyOK), and of a worker whose write would be        *)
(* accepted that it, the API server and the cache agree (WorkerOK).  A     *)
(* second invariant on top of it (RoleInv) follows the generations of the  *)
(* copies and the memberships a Member made, for what Ready promises.      *)
(***************************************************************************)
EXTENDS Membership, TLAPS

-----------------------------------------------------------------------------
(* The inductive invariant *)

ObjectsOf(w) == IF w = "member" THEN Members ELSE Claims
Busy == PCs \ {"idle"}

ApiTypes ==
  /\ cr \in [Objects -> Resource] /\ lastInc \in [Objects -> Nat]
  /\ cache \in [Objects -> Resource] /\ cacheFresh \in [Objects -> BOOLEAN]

LocalTypes ==
  /\ queue \subseteq Objects /\ timer \subseteq Objects
  /\ pc \in [Workers -> PCs] /\ cur \in [Workers -> Objects]
  /\ mem \in [Workers -> Resource] /\ memFresh \in [Workers -> BOOLEAN]
  /\ err \in [Workers -> Reasons] /\ seen \in [Workers -> Nat]

WorldTypes ==
  /\ pinned \in [Claims -> SUBSET (Members \X Nat)]
  /\ lastUid \in Nat /\ conn \in Nat /\ refs \subseteq References /\ budget \in Nat

\* Harbor gives an id out once.
HarborOK ==
  /\ group \in [Groups -> Registration] /\ membership \in [Entities -> Binding]
  /\ lastId \in Nat /\ made \subseteq Clients
  /\ \A g \in Groups : group[g].id <= lastId
  /\ \A e \in Entities : membership[e].id <= lastId

\* Nothing that the copy c would delete by its id is left in mb.
Gone(c, mb) ==
  \/ c.deletionPolicy = "Orphan" \/ c.id = 0
  \/ \A e \in Entities : mb[e].id # c.id

\* What is known of a copy c of o, when the API server has rec, o was created n
\* times, and Harbor has the memberships mb and gave out the ids up to last.
CopyOK(o, c, rec, n, last, mb) ==
  c.inc # 0 =>
    /\ c.inc <= n /\ c.id <= last
    /\ c.deleting => c.fin
    /\ o \in Members /\ c.id # 0 => c.fin
    /\ c.inc = rec.inc => /\ c.fin => rec.fin
                          /\ c.bound # 0 => rec.bound = c.bound
    /\ c.inc # rec.inc /\ c.fin => c.deleting /\ (o \in Members => Gone(c, mb))

KnownCopy(o, c) == CopyOK(o, c, cr[o], lastInc[o], lastId, membership)

ApiOK ==
  \A o \in Objects :
    /\ KnownCopy(o, cr[o]) /\ KnownCopy(o, cache[o])
    /\ cacheFresh[o] => cache[o] = cr[o]
    /\ cr[o].fin => cache[o].inc # 0
    /\ cr[o].inc = 0 => cr[o] = NoResource

\* The cached copy c differs from m by what the worker wrote since it loaded c.
Behind(c, m) ==
  /\ c.inc = m.inc /\ c.deleting = m.deleting
  /\ c.id = m.id /\ c.deletionPolicy = m.deletionPolicy

\* What the next call of worker w says of its copy c.
PositionOK(w, p, c, mb) ==
  /\ w = "member" =>
       /\ p \in {"finalizer", "list", "create", "update", "ready", "finalize", "purge"}
          => c.bound # 0
       /\ p \in {"list", "create", "update", "ready"} => c.fin
       /\ p \in {"finalizer", "list", "create", "update", "ready"} => ~c.deleting
       /\ p \in {"finalize", "purge", "unfinalize"} => c.deleting
       /\ p = "purge" => c.id = 0
       /\ p = "unfinalize" => Gone(c, mb)
  /\ w = "claim" => (p \in {"referenced", "unfinalize"} => c.deleting)

\* No Member that was at work with the claim c when it was deleted is left.
Unpinned(c) == \A x \in pinned[c] : cr[x[1]].inc # x[2]

WorkerOK(w) ==
  /\ seen[w] <= lastId
  /\ pc[w] # "idle" =>
       /\ cur[w] \in ObjectsOf(w) /\ mem[w].inc # 0
       /\ KnownCopy(cur[w], mem[w])
       /\ memFresh[w] => mem[w] = cr[cur[w]] /\ Behind(cache[cur[w]], mem[w])
       /\ PositionOK(w, pc[w], mem[w], membership)
       /\ w = "claim" /\ pc[w] = "unfinalize" /\ memFresh[w] => Unpinned(cur[w])

PinOK(c) ==
  \A x \in pinned[c] :
    /\ RefOf[x[1]] = c /\ x[2] # 0 /\ x[2] <= lastInc[x[1]]
    /\ cr[x[1]].inc = x[2] => cr[x[1]].fin
PinnedOK == \A c \in Claims : PinOK(c)

Types == ApiTypes /\ LocalTypes /\ WorldTypes /\ HarborOK
Workings == \A w \in Workers : WorkerOK(w)

IInv == Types /\ ApiOK /\ Workings /\ PinnedOK

\* Why a resource may leave the API server.
DepartureOK ==
  \A o \in Objects :
    Exists(o) /\ cr'[o].inc = 0 =>
      /\ o \in Claims /\ cr[o].fin => Unpinned(o)
      /\ o \in Members /\ cr[o].deletionPolicy = "Delete" /\ cr[o].id # 0
         => \A e \in Entities : membership'[e].id # cr[o].id

StepOK == IInv' /\ DepartureOK

-----------------------------------------------------------------------------
(* Constants *)

LEMMA ReasonTypes ==
  /\ "" \in Reasons /\ "Reconciling" \in Reasons /\ "ConnectionNotFound" \in Reasons
  /\ "SecretNotFound" \in Reasons /\ "ConnectionChanged" \in Reasons
  /\ "ReferenceError" \in Reasons /\ "ClaimNotReady" \in Reasons
  /\ "CreationDenied" \in Reasons /\ "AlreadyExists" \in Reasons
  /\ "Incompatible" \in Reasons /\ "StillReferenced" \in Reasons
  /\ "HarborError" \in Reasons /\ "Reconciled" \in Reasons
BY DEF Reasons, NotReadyReasons

LEMMA NoResourceType ==
  /\ NoResource \in Resource
  /\ NoResource.inc = 0 /\ NoResource.gen = 0 /\ ~NoResource.deleting
  /\ ~NoResource.fin /\ NoResource.bound = 0 /\ NoResource.id = 0
<1>1. (CHOOSE r \in Roles : TRUE) \in Roles
  BY ConstantsAssumption
<1> QED BY <1>1, ReasonTypes DEF NoResource, Resource

LEMMA NothingInHarbor ==
  /\ NoBinding \in Binding /\ NoBinding.id = 0
  /\ NoGroup \in Registration /\ NoGroup.id = 0
<1>1. NoResource.role \in Roles /\ <<Env, 0>> \in Clients
  BY NoResourceType DEF Resource, Clients
<1> QED BY <1>1 DEF NoBinding, Binding, NoGroup, Registration

LEMMA AnyObjectType == AnyObject \in Objects
BY ConstantsAssumption DEF AnyObject

LEMMA WorkersApart ==
  /\ \A w \in Workers : ObjectsOf(w) \subseteq Objects
  /\ \A w \in Workers, v \in Workers : w # v => ObjectsOf(w) \cap ObjectsOf(v) = {}
  /\ \A o \in Objects : WorkerOf(o) \in Workers /\ o \in ObjectsOf(WorkerOf(o))
BY ConstantsAssumption DEF Workers, ObjectsOf, Objects, WorkerOf

LEMMA EntityTypes ==
  /\ \A m \in Members : EntityOf(m) \in Entities
  /\ \A c \in Claims : GroupOf[c] \in Groups
BY ConstantsAssumption DEF EntityOf, HasClaim, Entities

-----------------------------------------------------------------------------
(* Copies *)

\* New memberships have new ids.
BindingsKept(mb, mb2, last) ==
  \A e \in Entities :
    mb2[e].id = 0 \/ mb2[e].id = mb[e].id \/ mb2[e].id > last

\* What the API server has of a resource goes from rec to rec2: it is written,
\* created, or removed while c, if it is a copy of rec, was ready for that.
RecordKept(o, c, rec, rec2, n, mb2) ==
  \/ /\ rec2.inc = rec.inc
     /\ rec.fin => rec2.fin
     /\ rec.bound # 0 => rec2.bound = rec.bound
  \/ rec.inc = 0 /\ rec2.inc > n
  \/ /\ rec2.inc = 0
     /\ c.inc = rec.inc /\ c.fin => c.deleting /\ (o \in Members => Gone(c, mb2))

LEMMA GoneKept ==
  ASSUME NEW c \in Resource, NEW mb \in [Entities -> Binding],
         NEW mb2 \in [Entities -> Binding], NEW last \in Nat,
         Gone(c, mb), c.id <= last, BindingsKept(mb, mb2, last)
  PROVE  Gone(c, mb2)
<1>1. CASE c.deletionPolicy = "Orphan" \/ c.id = 0
  BY <1>1 DEF Gone
<1>2. CASE c.id # 0 /\ \A e \in Entities : mb[e].id # c.id
  <2> SUFFICES ASSUME NEW e \in Entities PROVE mb2[e].id # c.id
    BY DEF Gone
  <2>1. c.id \in Nat /\ mb2[e].id \in Nat
    BY DEF Resource, Binding
  <2> QED BY <1>2, <2>1 DEF BindingsKept
<1> QED BY <1>1, <1>2 DEF Gone

LEMMA CopyKept ==
  ASSUME NEW o \in Objects, NEW c \in Resource, NEW rec \in Resource,
         NEW rec2 \in Resource, NEW n \in Nat, NEW n2 \in Nat,
         NEW last \in Nat, NEW last2 \in Nat,
         NEW mb \in [Entities -> Binding], NEW mb2 \in [Entities -> Binding],
         CopyOK(o, c, rec, n, last, mb), n <= n2, last <= last2,
         BindingsKept(mb, mb2, last), RecordKept(o, c, rec, rec2, n, mb2)
  PROVE  CopyOK(o, c, rec2, n2, last2, mb2)
<1> SUFFICES ASSUME c.inc # 0 PROVE CopyOK(o, c, rec2, n2, last2, mb2)
  BY DEF CopyOK
<1>1. /\ c.inc \in Nat /\ c.id \in Nat /\ c.bound \in Nat
      /\ rec.inc \in Nat /\ rec2.inc \in Nat /\ rec.bound \in Nat
      /\ c.fin \in BOOLEAN /\ rec.fin \in BOOLEAN /\ rec2.fin \in BOOLEAN
      /\ c.deleting \in BOOLEAN
  BY DEF Resource
<1>2. /\ c.inc <= n2 /\ c.id <= last /\ c.id <= last2
      /\ c.deleting => c.fin
      /\ o \in Members /\ c.id # 0 => c.fin
  BY <1>1 DEF CopyOK
<1>3. Gone(c, mb) => Gone(c, mb2)
  BY <1>2, GoneKept
<1>4. c.inc = rec2.inc => /\ c.fin => rec2.fin
                          /\ c.bound # 0 => rec2.bound = c.bound
  BY <1>1 DEF CopyOK, RecordKept
<1>5. c.inc # rec2.inc /\ c.fin => c.deleting /\ (o \in Members => Gone(c, mb2))
  BY <1>1, <1>3 DEF CopyOK, RecordKept
<1> QED BY <1>2, <1>4, <1>5 DEF CopyOK

-----------------------------------------------------------------------------
(* What a step keeps for those who do not take part in it *)

HarborGrows ==
  HarborOK' /\ lastId <= lastId' /\ BindingsKept(membership, membership', lastId)

\* What is known of any copy of o is known of it after the step.
Kept(o) == \A c \in Resource : KnownCopy(o, c) => KnownCopy(o, c)'

\* Every resource stays, leaves, or is created anew.
RecordsMove ==
  \A o \in Objects :
    \/ cr'[o].inc = cr[o].inc /\ (cr[o].fin => cr'[o].fin)
    \/ cr'[o].inc = 0
    \/ cr'[o].inc > lastInc[o]

LEMMA IdleHarbor ==
  ASSUME IInv, UNCHANGED harborVars PROVE HarborGrows
<1>1. lastId \in Nat /\ HarborOK' /\ lastId' = lastId /\ membership' = membership
  BY DEF IInv, Types, HarborOK, harborVars
<1> QED BY <1>1 DEF HarborGrows, BindingsKept

LEMMA KeptRecord ==
  ASSUME IInv, HarborGrows, NEW o \in Objects, cr' \in [Objects -> Resource],
         lastInc' \in [Objects -> Nat], lastInc[o] <= lastInc'[o],
         \A c \in Resource : KnownCopy(o, c)
           => RecordKept(o, c, cr[o], cr'[o], lastInc[o], membership')
  PROVE  Kept(o)
<1> SUFFICES ASSUME NEW c \in Resource, KnownCopy(o, c) PROVE KnownCopy(o, c)'
  BY DEF Kept
<1>1. /\ cr[o] \in Resource /\ cr'[o] \in Resource /\ lastInc[o] \in Nat
      /\ lastInc'[o] \in Nat
      /\ lastId \in Nat /\ lastId' \in Nat /\ lastId <= lastId'
      /\ membership \in [Entities -> Binding] /\ membership' \in [Entities -> Binding]
  BY DEF IInv, Types, ApiTypes, HarborOK, HarborGrows
<1>2. CopyOK(o, c, cr'[o], lastInc'[o], lastId', membership')
  BY <1>1, CopyKept DEF KnownCopy, HarborGrows
<1> QED BY <1>2 DEF KnownCopy

LEMMA KeptSame ==
  ASSUME IInv, HarborGrows, NEW o \in Objects, cr' \in [Objects -> Resource],
         lastInc' \in [Objects -> Nat], lastInc[o] <= lastInc'[o],
         cr'[o].inc = cr[o].inc, cr[o].fin => cr'[o].fin,
         cr[o].bound # 0 => cr'[o].bound = cr[o].bound
  PROVE  Kept(o)
<1>1. \A c \in Resource : RecordKept(o, c, cr[o], cr'[o], lastInc[o], membership')
  BY DEF RecordKept
<1> QED BY <1>1, KeptRecord

LEMMA UnpinnedKept ==
  ASSUME IInv, RecordsMove, NEW c \in Claims, pinned'[c] = pinned[c], Unpinned(c),
         cr' \in [Objects -> Resource]
  PROVE  Unpinned(c)'
<1> SUFFICES ASSUME NEW x \in pinned[c] PROVE cr'[x[1]].inc # x[2]
  BY DEF Unpinned
<1>1. x \in Members \X Nat /\ x[1] \in Objects
  BY DEF IInv, Types, WorldTypes, Objects
<1>2. cr[x[1]].inc # x[2] /\ x[2] # 0 /\ x[2] <= lastInc[x[1]]
  BY DEF Unpinned, IInv, PinnedOK, PinOK
<1>3. lastInc[x[1]] \in Nat /\ cr'[x[1]].inc \in Nat
  BY <1>1 DEF IInv, Types, ApiTypes, Resource
<1> QED BY <1>1, <1>2, <1>3 DEF RecordsMove

LEMMA PinKept ==
  ASSUME IInv, RecordsMove, NEW c \in Claims, pinned'[c] = pinned[c],
         cr' \in [Objects -> Resource], lastInc' \in [Objects -> Nat],
         \A o \in Objects : lastInc[o] <= lastInc'[o]
  PROVE  PinOK(c)'
<1> SUFFICES ASSUME NEW x \in pinned[c]
             PROVE  /\ RefOf[x[1]] = c /\ x[2] # 0 /\ x[2] <= lastInc'[x[1]]
                    /\ cr'[x[1]].inc = x[2] => cr'[x[1]].fin
  BY DEF PinOK
<1>1. x \in Members \X Nat /\ x[1] \in Objects
  BY DEF IInv, Types, WorldTypes, Objects
<1>2. /\ RefOf[x[1]] = c /\ x[2] # 0 /\ x[2] <= lastInc[x[1]]
      /\ cr[x[1]].inc = x[2] => cr[x[1]].fin
  BY DEF IInv, PinnedOK, PinOK
<1>3. /\ lastInc[x[1]] \in Nat /\ lastInc'[x[1]] \in Nat
      /\ lastInc[x[1]] <= lastInc'[x[1]]
      /\ cr'[x[1]].inc \in Nat /\ x[2] \in Nat
  BY <1>1 DEF IInv, Types, ApiTypes, Resource
<1>4. \/ cr'[x[1]].inc = cr[x[1]].inc /\ (cr[x[1]].fin => cr'[x[1]].fin)
      \/ cr'[x[1]].inc = 0
      \/ cr'[x[1]].inc > lastInc[x[1]]
  BY <1>1 DEF RecordsMove
<1> QED BY <1>2, <1>3, <1>4

LEMMA PinnedKept ==
  ASSUME IInv, RecordsMove, pinned' = pinned, cr' \in [Objects -> Resource],
         lastInc' \in [Objects -> Nat],
         \A o \in Objects : lastInc[o] <= lastInc'[o]
  PROVE  PinnedOK'
BY PinKept DEF PinnedOK

\* A worker whose locals the step leaves alone, but for its copy growing old.
Rests(v) ==
  /\ pc'[v] = pc[v] /\ cur'[v] = cur[v] /\ mem'[v] = mem[v] /\ seen'[v] = seen[v]
  /\ memFresh'[v] => memFresh[v]

LEMMA WorkerKept ==
  ASSUME IInv, HarborGrows, RecordsMove, NEW v \in Workers, Rests(v),
         cr' \in [Objects -> Resource],
         pc[v] # "idle" => Kept(cur[v]),
         pc[v] # "idle" /\ memFresh'[v] =>
           /\ cr'[cur[v]] = cr[cur[v]]
           /\ cache'[cur[v]] = cache[cur[v]] \/ cache'[cur[v]] = cr[cur[v]]
           /\ v = "claim" => pinned'[cur[v]] = pinned[cur[v]]
  PROVE  WorkerOK(v)'
<1>0. WorkerOK(v)
  BY DEF IInv, Workings
<1>1. seen'[v] <= lastId'
  <2>1. seen[v] \in Nat /\ lastId \in Nat /\ lastId' \in Nat /\ lastId <= lastId'
    BY DEF IInv, Types, LocalTypes, HarborOK, HarborGrows
  <2> QED BY <1>0, <2>1 DEF WorkerOK, Rests
<1> SUFFICES ASSUME pc[v] # "idle"
             PROVE  /\ cur[v] \in ObjectsOf(v) /\ mem[v].inc # 0
                    /\ KnownCopy(cur[v], mem[v])'
                    /\ memFresh'[v] => /\ mem[v] = cr'[cur[v]]
                                       /\ Behind(cache'[cur[v]], mem[v])
                    /\ PositionOK(v, pc[v], mem[v], membership')
                    /\ v = "claim" /\ pc[v] = "unfinalize" /\ memFresh'[v]
                       => Unpinned(cur[v])'
  BY <1>1 DEF WorkerOK, Rests, KnownCopy, Unpinned
<1>2. /\ cur[v] \in ObjectsOf(v) /\ mem[v].inc # 0 /\ mem[v] \in Resource
      /\ KnownCopy(cur[v], mem[v])
  BY <1>0 DEF WorkerOK, IInv, Types, LocalTypes
<1>3. KnownCopy(cur[v], mem[v])'
  <2>1. \A c \in Resource : KnownCopy(cur[v], c) => CopyOK(cur[v], c,
          cr'[cur[v]], lastInc'[cur[v]], lastId', membership')
    BY DEF Kept, KnownCopy, Rests
  <2>2. CopyOK(cur[v], mem[v], cr'[cur[v]], lastInc'[cur[v]], lastId', membership')
    BY <1>2, <2>1
  <2> QED BY <2>2 DEF KnownCopy, Rests
<1>4. memFresh'[v] => mem[v] = cr'[cur[v]] /\ Behind(cache'[cur[v]], mem[v])
  BY <1>0 DEF WorkerOK, Rests, Behind
<1>5. PositionOK(v, pc[v], mem[v], membership')
  <2>1. Gone(mem[v], membership) => Gone(mem[v], membership')
    <3>1. mem[v].inc # 0 => mem[v].id <= lastId
      BY <1>2 DEF KnownCopy, CopyOK
    <3> QED BY <1>2, <3>1, GoneKept DEF IInv, Types, HarborOK, HarborGrows
  <2> QED BY <1>0, <2>1 DEF WorkerOK, PositionOK
<1>6. v = "claim" /\ pc[v] = "unfinalize" /\ memFresh'[v] => Unpinned(cur[v])'
  <2> SUFFICES ASSUME v = "claim", pc[v] = "unfinalize", memFresh'[v]
               PROVE  Unpinned(cur[v])'
    OBVIOUS
  <2>1. cur[v] \in Claims /\ Unpinned(cur[v])
    BY <1>0 DEF WorkerOK, ObjectsOf, Rests
  <2>2. Unpinned(cur[v]) => \A x \in pinned'[cur[v]] : cr'[x[1]].inc # x[2]
    BY <2>1, UnpinnedKept DEF Unpinned
  <2> QED BY <2>1, <2>2 DEF Unpinned, Rests
<1> QED BY <1>2, <1>3, <1>4, <1>5, <1>6

-----------------------------------------------------------------------------
(* What a worker's step does to the API server *)

\* What a step of a worker leaves alone.
Framed ==
  /\ UNCHANGED <<lastInc, cache, pinned, conn, lastUid>>
  /\ refs' \subseteq References /\ budget' \in Nat
  /\ HarborGrows

\* Of a resource other than cur[w] nothing changed; the rest of the invariant.
ApiStep(w) ==
  /\ ApiTypes' /\ ApiOK' /\ PinnedOK' /\ RecordsMove /\ DepartureOK
  /\ \A o \in Objects \ {cur[w]} : Kept(o) /\ cr'[o] = cr[o]

\* rec is what the worker writes in place of its copy to keep the resource.
Extends(w, rec) ==
  /\ rec \in Resource
  /\ rec.inc = mem[w].inc /\ rec.deleting = mem[w].deleting
  /\ rec.deletionPolicy = mem[w].deletionPolicy
  /\ mem[w].fin => rec.fin
  /\ mem[w].bound # 0 => rec.bound = mem[w].bound
  /\ rec.id <= lastId
  /\ w = "member" /\ rec.id # 0 => rec.fin

LEMMA WorkerFacts ==
  ASSUME IInv, NEW w \in Workers, pc[w] # "idle"
  PROVE  /\ cur[w] \in ObjectsOf(w) /\ cur[w] \in Objects /\ mem[w] \in Resource
         /\ mem[w].inc # 0 /\ mem[w].inc \in Nat /\ KnownCopy(cur[w], mem[w])
         /\ mem[w].id <= lastId /\ (mem[w].deleting => mem[w].fin)
         /\ w = "member" /\ mem[w].id # 0 => mem[w].fin
         /\ memFresh[w] => mem[w] = cr[cur[w]] /\ Behind(cache[cur[w]], mem[w])
         /\ PositionOK(w, pc[w], mem[w], membership)
<1>1. /\ cur[w] \in ObjectsOf(w) /\ mem[w] \in Resource
      /\ mem[w].inc # 0 /\ KnownCopy(cur[w], mem[w])
      /\ memFresh[w] => mem[w] = cr[cur[w]] /\ Behind(cache[cur[w]], mem[w])
      /\ PositionOK(w, pc[w], mem[w], membership)
  BY DEF IInv, Types, LocalTypes, Workings, WorkerOK
<1>2. cur[w] \in Objects /\ mem[w].inc \in Nat
  BY <1>1, WorkersApart DEF Resource
<1>3. w = "member" => cur[w] \in Members
  BY <1>1 DEF ObjectsOf
<1> QED BY <1>1, <1>2, <1>3 DEF KnownCopy, CopyOK

LEMMA KeptCopies ==
  ASSUME IInv, \A o \in Objects : Kept(o), NEW v \in Workers, Rests(v)
  PROVE  pc[v] # "idle" => Kept(cur[v])
<1>1. pc[v] # "idle" => cur[v] \in Objects
  BY WorkerFacts
<1>2. \A o \in Objects, c \in Resource :
        KnownCopy(o, c) => CopyOK(o, c, cr'[o], lastInc'[o], lastId', membership')
  BY DEF Kept, KnownCopy
<1> QED BY <1>1, <1>2 DEF Kept, KnownCopy, Rests

LEMMA ApiIdle ==
  ASSUME IInv, Framed, UNCHANGED <<cr, cacheFresh>>, NEW w \in Workers
  PROVE  ApiStep(w)
<1>1. ApiTypes' /\ HarborGrows
  BY DEF IInv, Types, ApiTypes, Framed
<1>2. \A o \in Objects : Kept(o)
  <2> TAKE o \in Objects
  <2>1. lastInc'[o] = lastInc[o] /\ lastInc[o] \in Nat /\ cr'[o] = cr[o]
    BY DEF IInv, Types, ApiTypes, Framed
  <2>2. cr' \in [Objects -> Resource] /\ lastInc' \in [Objects -> Nat]
    BY <1>1 DEF ApiTypes
  <2> QED BY <1>1, <2>1, <2>2, KeptSame
<1>3. ApiOK'
  <2> SUFFICES ASSUME NEW o \in Objects
               PROVE  /\ KnownCopy(o, cr[o])' /\ KnownCopy(o, cache[o])'
                      /\ cacheFresh'[o] => cache'[o] = cr'[o]
                      /\ cr'[o].fin => cache'[o].inc # 0
                      /\ cr'[o].inc = 0 => cr'[o] = NoResource
    BY DEF ApiOK
  <2>1. KnownCopy(o, cr[o]) /\ KnownCopy(o, cache[o])
    BY DEF IInv, ApiOK
  <2>2. cr[o] \in Resource /\ cache[o] \in Resource
    BY DEF IInv, Types, ApiTypes
  <2>3. CopyOK(o, cr[o], cr'[o], lastInc'[o], lastId', membership')
    BY <1>2, <2>1, <2>2 DEF Kept, KnownCopy
  <2>4. CopyOK(o, cache[o], cr'[o], lastInc'[o], lastId', membership')
    BY <1>2, <2>1, <2>2 DEF Kept, KnownCopy
  <2>5. KnownCopy(o, cr[o])' /\ KnownCopy(o, cache[o])'
    BY <2>3, <2>4 DEF KnownCopy, Framed
  <2> QED BY <2>5 DEF IInv, ApiOK, Framed
<1>4. RecordsMove /\ DepartureOK
  BY DEF RecordsMove, DepartureOK, Exists
<1>5. PinnedOK'
  BY <1>1, <1>4, PinnedKept DEF IInv, Types, ApiTypes, Framed
<1> QED BY <1>1, <1>2, <1>3, <1>4, <1>5 DEF ApiStep

LEMMA ApiStored ==
  ASSUME IInv, Framed, NEW w \in Workers, pc[w] # "idle", memFresh[w],
         NEW rec, Extends(w, rec), Store(w, rec)
  PROVE  /\ ApiStep(w) /\ cr'[cur[w]] = rec
         /\ CopyOK(cur[w], rec, rec, lastInc'[cur[w]], lastId', membership')
<1> DEFINE a == cur[w]
<1>0. /\ a \in Objects /\ a \in ObjectsOf(w) /\ mem[w] = cr[a] /\ mem[w] \in Resource
      /\ mem[w].inc # 0 /\ mem[w].inc \in Nat
      /\ Behind(cache[a], mem[w]) /\ KnownCopy(a, mem[w])
      /\ mem[w].deleting => mem[w].fin
  BY WorkerFacts
<1>1. ApiTypes' /\ HarborGrows
  BY <1>0 DEF IInv, Types, ApiTypes, Framed, Store, Extends
<1>2. cr'[a] = rec /\ \A o \in Objects \ {a} : cr'[o] = cr[o]
  BY <1>0 DEF IInv, Types, ApiTypes, Store
<1>3. \A o \in Objects : Kept(o)
  <2> TAKE o \in Objects
  <2>1. lastInc'[o] = lastInc[o] /\ lastInc[o] \in Nat
    BY DEF IInv, Types, ApiTypes, Framed
  <2>2. cr' \in [Objects -> Resource] /\ lastInc' \in [Objects -> Nat]
    BY <1>1 DEF ApiTypes
  <2>3. /\ cr'[o].inc = cr[o].inc /\ (cr[o].fin => cr'[o].fin)
        /\ cr[o].bound # 0 => cr'[o].bound = cr[o].bound
    BY <1>0, <1>2 DEF Extends
  <2> QED BY <1>1, <2>1, <2>2, <2>3, KeptSame
<1>4. CopyOK(a, rec, rec, lastInc'[a], lastId', membership')
  <2>1. a \in Members => w = "member"
    BY <1>0, ConstantsAssumption DEF ObjectsOf, Workers
  <2>2. lastId \in Nat /\ lastId' \in Nat /\ lastId <= lastId' /\ rec.id \in Nat
    BY DEF IInv, Types, HarborOK, Framed, HarborGrows, Extends, Resource
  <2>3. mem[w].inc <= lastInc[a] /\ lastInc'[a] = lastInc[a]
    BY <1>0 DEF KnownCopy, CopyOK, Framed
  <2>4. rec.inc <= lastInc'[a] /\ rec.id <= lastId'
    BY <2>2, <2>3 DEF Extends
  <2>5. rec.deleting => rec.fin
    BY <1>0 DEF Extends
  <2> QED BY <2>1, <2>4, <2>5 DEF CopyOK, Extends
<1>5. ApiOK'
  <2> SUFFICES ASSUME NEW o \in Objects
               PROVE  /\ KnownCopy(o, cr[o])' /\ KnownCopy(o, cache[o])'
                      /\ cacheFresh'[o] => cache'[o] = cr'[o]
                      /\ cr'[o].fin => cache'[o].inc # 0
                      /\ cr'[o].inc = 0 => cr'[o] = NoResource
    BY DEF ApiOK
  <2>1. /\ KnownCopy(o, cr[o]) /\ KnownCopy(o, cache[o])
        /\ cacheFresh[o] => cache[o] = cr[o]
        /\ cr[o].fin => cache[o].inc # 0
        /\ cr[o].inc = 0 => cr[o] = NoResource
        /\ cr[o] \in Resource /\ cache[o] \in Resource /\ cache' = cache
    BY DEF IInv, ApiOK, Types, ApiTypes, Framed
  <2>2. CopyOK(o, cache[o], cr'[o], lastInc'[o], lastId', membership')
    BY <1>3, <2>1 DEF Kept, KnownCopy
  <2>3. KnownCopy(o, cache[o])'
    BY <2>1, <2>2 DEF KnownCopy
  <2>4. CASE o = a
    <3>1. KnownCopy(o, cr[o])'
      BY <1>2, <1>4, <2>4 DEF KnownCopy
    <3>2. cacheFresh'[o] = FALSE
      BY <2>4 DEF Store, IInv, Types, ApiTypes
    <3>3. cr'[o].inc # 0 /\ cache'[o].inc # 0
      BY <1>0, <1>2, <2>1, <2>4 DEF Extends, Behind
    <3> QED BY <2>3, <3>1, <3>2, <3>3
  <2>5. CASE o # a
    <3>1. cr'[o] = cr[o] /\ cacheFresh'[o] = cacheFresh[o]
      BY <1>2, <2>5 DEF Store, IInv, Types, ApiTypes
    <3>2. CopyOK(o, cr[o], cr'[o], lastInc'[o], lastId', membership')
      BY <1>3, <2>1 DEF Kept, KnownCopy
    <3>3. KnownCopy(o, cr[o])'
      BY <3>1, <3>2 DEF KnownCopy
    <3> QED BY <2>1, <2>3, <3>1, <3>3
  <2> QED BY <2>4, <2>5
<1>6. RecordsMove /\ DepartureOK
  <2>1. \A o \in Objects : cr'[o].inc = cr[o].inc /\ (cr[o].fin => cr'[o].fin)
    BY <1>0, <1>2 DEF Extends
  <2> QED BY <2>1 DEF RecordsMove, DepartureOK, Exists
<1>7. PinnedOK'
  BY <1>1, <1>6, PinnedKept DEF IInv, Types, ApiTypes, Framed
<1> QED BY <1>1, <1>2, <1>3, <1>4, <1>5, <1>6, <1>7 DEF ApiStep

LEMMA ApiRemoved ==
  ASSUME IInv, Framed, NEW w \in Workers, pc[w] # "idle", memFresh[w],
         mem[w].deleting, w = "member" => Gone(mem[w], membership'),
         w = "claim" => Unpinned(cur[w]), Store(w, NoResource)
  PROVE  ApiStep(w)
<1> DEFINE a == cur[w]
<1>0. /\ a \in Objects /\ a \in ObjectsOf(w) /\ mem[w] = cr[a] /\ mem[w] \in Resource
      /\ Behind(cache[a], mem[w])
  BY WorkerFacts
<1>1. ApiTypes' /\ HarborGrows
  BY <1>0, NoResourceType DEF IInv, Types, ApiTypes, Framed, Store
<1>2. cr'[a] = NoResource /\ \A o \in Objects \ {a} : cr'[o] = cr[o]
  BY <1>0 DEF IInv, Types, ApiTypes, Store
<1>3. \A o \in Objects \ {a} : Kept(o)
  <2> TAKE o \in Objects \ {a}
  <2>1. lastInc'[o] = lastInc[o] /\ lastInc[o] \in Nat /\ cr'[o] = cr[o]
    BY <1>2 DEF IInv, Types, ApiTypes, Framed
  <2>2. cr' \in [Objects -> Resource] /\ lastInc' \in [Objects -> Nat]
    BY <1>1 DEF ApiTypes
  <2> QED BY <1>1, <2>1, <2>2, KeptSame
<1>4. a \in Members => w = "member"
  BY <1>0, ConstantsAssumption DEF ObjectsOf, Workers
<1>5. CopyOK(a, cache[a], NoResource, lastInc'[a], lastId', membership')
  <2>1. /\ cache[a].deleting /\ (a \in Members => Gone(cache[a], membership'))
    BY <1>0, <1>4 DEF Behind, Gone
  <2>2. RecordKept(a, cache[a], cr[a], NoResource, lastInc[a], membership')
    BY <2>1, NoResourceType DEF RecordKept
  <2>3. /\ cache[a] \in Resource /\ cr[a] \in Resource
        /\ lastInc[a] \in Nat /\ lastInc'[a] = lastInc[a]
        /\ lastId \in Nat /\ lastId' \in Nat /\ lastId <= lastId'
        /\ membership \in [Entities -> Binding] /\ membership' \in [Entities -> Binding]
        /\ BindingsKept(membership, membership', lastId)
    BY <1>0 DEF IInv, Types, ApiTypes, HarborOK, Framed, HarborGrows
  <2>4. CopyOK(a, cache[a], cr[a], lastInc[a], lastId, membership)
    BY <1>0 DEF IInv, ApiOK, KnownCopy
  <2>5. lastInc[a] <= lastInc'[a] /\ NoResource \in Resource
    BY <2>3, NoResourceType
  <2> HIDE DEF a
  <2> QED BY ONLY <1>0, <2>2, <2>3, <2>4, <2>5, CopyKept
<1>6. ApiOK'
  <2> SUFFICES ASSUME NEW o \in Objects
               PROVE  /\ KnownCopy(o, cr[o])' /\ KnownCopy(o, cache[o])'
                      /\ cacheFresh'[o] => cache'[o] = cr'[o]
                      /\ cr'[o].fin => cache'[o].inc # 0
                      /\ cr'[o].inc = 0 => cr'[o] = NoResource
    BY DEF ApiOK
  <2>1. /\ KnownCopy(o, cr[o]) /\ KnownCopy(o, cache[o])
        /\ cacheFresh[o] => cache[o] = cr[o]
        /\ cr[o].fin => cache[o].inc # 0
        /\ cr[o].inc = 0 => cr[o] = NoResource
        /\ cr[o] \in Resource /\ cache[o] \in Resource /\ cache' = cache
    BY DEF IInv, ApiOK, Types, ApiTypes, Framed
  <2>2. CASE o = a
    <3>1. KnownCopy(o, cr[o])' /\ KnownCopy(o, cache[o])'
      BY <1>2, <1>5, <2>1, <2>2, NoResourceType DEF KnownCopy, CopyOK
    <3>2. cacheFresh'[o] = FALSE
      BY <2>2 DEF Store, IInv, Types, ApiTypes
    <3> QED BY <1>2, <2>2, <3>1, <3>2, NoResourceType
  <2>3. CASE o # a
    <3>1. cr'[o] = cr[o] /\ cacheFresh'[o] = cacheFresh[o]
      BY <1>2, <2>3 DEF Store, IInv, Types, ApiTypes
    <3>2. /\ CopyOK(o, cr[o], cr'[o], lastInc'[o], lastId', membership')
          /\ CopyOK(o, cache[o], cr'[o], lastInc'[o], lastId', membership')
      BY <1>3, <2>1, <2>3 DEF Kept, KnownCopy
    <3>3. KnownCopy(o, cr[o])' /\ KnownCopy(o, cache[o])'
      BY <2>1, <3>1, <3>2 DEF KnownCopy
    <3> QED BY <2>1, <3>1, <3>3
  <2> QED BY <2>2, <2>3
<1>7. RecordsMove
  BY <1>2, NoResourceType DEF RecordsMove
<1>8. DepartureOK
  <2> SUFFICES ASSUME NEW o \in Objects, Exists(o), cr'[o].inc = 0
               PROVE  /\ o \in Claims /\ cr[o].fin => Unpinned(o)
                      /\ o \in Members /\ cr[o].deletionPolicy = "Delete" /\ cr[o].id # 0
                         => \A e \in Entities : membership'[e].id # cr[o].id
    BY DEF DepartureOK
  <2>1. o = a
    BY <1>2 DEF Exists
  <2>2. o \in Claims => w = "claim"
    BY <1>0, <2>1, ConstantsAssumption DEF ObjectsOf, Workers
  <2> QED BY <1>0, <1>4, <2>1, <2>2 DEF Gone
<1>9. PinnedOK'
  BY <1>1, <1>7, PinnedKept DEF IInv, Types, ApiTypes, Framed
<1> QED BY <1>1, <1>2, <1>3, <1>6, <1>7, <1>8, <1>9 DEF ApiStep

-----------------------------------------------------------------------------
(* The ways a worker's step ends *)

\* Nothing of the locals of another worker changes.
Others(w) == \A v \in Workers \ {w} : Rests(v) /\ (memFresh'[v] = memFresh[v])

\* A step of w is all right if it is at the API server and for w itself.
LEMMA WorkerStep ==
  ASSUME IInv, Framed, NEW w \in Workers, pc[w] # "idle", ApiStep(w), Others(w),
         LocalTypes', WorkerOK(w)'
  PROVE  StepOK
<1>0. cur[w] \in ObjectsOf(w)
  BY WorkerFacts
<1>1. Workings'
  <2> SUFFICES ASSUME NEW v \in Workers PROVE WorkerOK(v)'
    BY DEF Workings
  <2>1. CASE v = w
    BY <2>1
  <2>2. CASE v # w
    <3>1. Rests(v)
      BY <2>2 DEF Others
    <3>2. pc[v] # "idle" => cur[v] \in Objects \ {cur[w]}
      BY <1>0, <2>2, WorkerFacts, WorkersApart
    <3>3. pc[v] # "idle" => Kept(cur[v]) /\ cr'[cur[v]] = cr[cur[v]]
      <4>1. \A o \in Objects \ {cur[w]} : cr'[o] = cr[o] /\ \A c \in Resource :
              KnownCopy(o, c) => CopyOK(o, c, cr'[o], lastInc'[o], lastId', membership')
        BY DEF ApiStep, Kept, KnownCopy
      <4> QED BY <3>1, <3>2, <4>1 DEF Kept, KnownCopy, Rests
    <3>4. cr' \in [Objects -> Resource] /\ cache' = cache /\ pinned' = pinned
          /\ HarborGrows /\ RecordsMove
      BY DEF ApiStep, ApiTypes, Framed
    <3> QED BY <3>1, <3>3, <3>4, WorkerKept
  <2> QED BY <2>1, <2>2
<1>2. WorldTypes' /\ HarborOK'
  BY DEF IInv, Types, WorldTypes, Framed, HarborGrows
<1> QED BY <1>1, <1>2 DEF ApiStep, StepOK, IInv, Types

LEMMA ReturnTypes ==
  ASSUME IInv, NEW w \in Workers, NEW r, NEW d, Return(w, r, d),
         HarborGrows
  PROVE  LocalTypes' /\ Others(w) /\ WorkerOK(w)'
<1>1. LocalTypes'
  BY NoResourceType, AnyObjectType, ReasonTypes
     DEF IInv, Types, LocalTypes, Return, PCs
<1>2. Others(w)
  BY DEF IInv, Types, LocalTypes, Return, Others, Rests
<1>3. pc'[w] = "idle" /\ seen'[w] = 0
  BY DEF IInv, Types, LocalTypes, Return
<1>4. 0 <= lastId'
  BY DEF HarborGrows, HarborOK
<1> QED BY <1>1, <1>2, <1>3, <1>4 DEF WorkerOK

LEMMA Ended ==
  ASSUME IInv, Framed, NEW w \in Workers, pc[w] # "idle", NEW r, NEW d,
         Return(w, r, d), UNCHANGED <<cr, cacheFresh>>
  PROVE  StepOK
BY ApiIdle, ReturnTypes, WorkerStep DEF Framed

LEMMA Wrote ==
  ASSUME IInv, Framed, NEW w \in Workers, pc[w] # "idle", NEW r, NEW d, NEW rec,
         Extends(w, rec), PersistAndReturn(w, rec, r, d)
  PROVE  StepOK
<1>1. CASE memFresh[w] /\ Store(w, rec) /\ Return(w, r, d)
  BY <1>1, ApiStored, ReturnTypes, WorkerStep DEF Framed
<1>2. CASE Refused(w)
  BY <1>2, Ended DEF Refused
<1> QED BY <1>1, <1>2 DEF PersistAndReturn

LEMMA Removed ==
  ASSUME IInv, Framed, NEW w \in Workers, pc[w] # "idle",
         mem[w].deleting, w = "member" => Gone(mem[w], membership'),
         w = "claim" /\ memFresh[w] => Unpinned(cur[w]), RemoveFinalizer(w)
  PROVE  StepOK
<1>1. CASE memFresh[w] /\ Store(w, NoResource) /\ Return(w, FALSE, FALSE)
  BY <1>1, ApiRemoved, ReturnTypes, WorkerStep DEF Framed
<1>2. CASE Refused(w)
  BY <1>2, Ended DEF Refused
<1>3. CASE Return(w, FALSE, FALSE) /\ UNCHANGED <<cr, cacheFresh>>
  BY <1>3, Ended
<1> QED BY <1>1, <1>2, <1>3 DEF RemoveFinalizer, PersistAndReturn

LEMMA Moved ==
  ASSUME IInv, Framed, NEW w \in Workers, pc[w] # "idle", NEW p \in Busy,
         NEW id \in Nat, id <= lastId', Goto(w, p, mem[w], id),
         PositionOK(w, p, mem[w], membership'),
         w = "claim" /\ p = "unfinalize" => Unpinned(cur[w])',
         UNCHANGED <<cr, cacheFresh>>
  PROVE  StepOK
<1>1. ApiStep(w)
  BY ApiIdle
<1>2. /\ pc'[w] = p /\ mem'[w] = mem[w] /\ seen'[w] = id /\ cur' = cur
      /\ memFresh' = memFresh /\ Others(w)
  BY DEF IInv, Types, LocalTypes, Goto, Others, Rests
<1>3. LocalTypes'
  BY DEF IInv, Types, LocalTypes, Goto, Busy
<1>4. WorkerOK(w)'
  <2>1. /\ cur[w] \in Objects /\ mem[w] \in Resource /\ KnownCopy(cur[w], mem[w])
        /\ cur[w] \in ObjectsOf(w) /\ mem[w].inc # 0
        /\ memFresh[w] => mem[w] = cr[cur[w]] /\ Behind(cache[cur[w]], mem[w])
    BY WorkerFacts
  <2>2. \A o \in Objects : Kept(o)
    <3> TAKE o \in Objects
    <3>1. lastInc'[o] = lastInc[o] /\ lastInc[o] \in Nat /\ cr'[o] = cr[o]
          /\ cr' \in [Objects -> Resource] /\ lastInc' \in [Objects -> Nat]
      BY DEF IInv, Types, ApiTypes, Framed
    <3> QED BY <3>1, KeptSame DEF Framed
  <2>3. CopyOK(cur[w], mem[w], cr'[cur[w]], lastInc'[cur[w]], lastId', membership')
    BY <2>1, <2>2 DEF Kept, KnownCopy
  <2>4. KnownCopy(cur[w], mem[w])'
    BY <1>2, <2>3 DEF KnownCopy
  <2>5. memFresh'[w] => mem'[w] = cr'[cur'[w]] /\ Behind(cache'[cur'[w]], mem'[w])
    BY <1>2, <2>1 DEF Framed
  <2> QED BY <1>2, <2>1, <2>4, <2>5 DEF WorkerOK
<1> QED BY <1>1, <1>2, <1>3, <1>4, WorkerStep

LEMMA CallFails ==
  ASSUME IInv, Framed, NEW w \in Workers, pc[w] # "idle", NEW reason \in Reasons,
         CallFailed(w, reason), UNCHANGED <<cr, cacheFresh>>
  PROVE  StepOK
<1>1. ApiStep(w)
  BY ApiIdle
<1>2. /\ pc'[w] = "error" /\ mem' = mem /\ seen' = seen /\ cur' = cur
      /\ memFresh' = memFresh /\ Others(w)
  BY DEF IInv, Types, LocalTypes, CallFailed, Others, Rests
<1>3. LocalTypes'
  BY DEF IInv, Types, LocalTypes, CallFailed, PCs
<1>4. WorkerOK(w)'
  <2>1. /\ cur[w] \in Objects /\ mem[w] \in Resource /\ KnownCopy(cur[w], mem[w])
        /\ cur[w] \in ObjectsOf(w) /\ mem[w].inc # 0
        /\ memFresh[w] => mem[w] = cr[cur[w]] /\ Behind(cache[cur[w]], mem[w])
    BY WorkerFacts
  <2>2. \A o \in Objects : Kept(o)
    <3> TAKE o \in Objects
    <3>1. lastInc'[o] = lastInc[o] /\ lastInc[o] \in Nat /\ cr'[o] = cr[o]
          /\ cr' \in [Objects -> Resource] /\ lastInc' \in [Objects -> Nat]
      BY DEF IInv, Types, ApiTypes, Framed
    <3> QED BY <3>1, KeptSame DEF Framed
  <2>3. CopyOK(cur[w], mem[w], cr'[cur[w]], lastInc'[cur[w]], lastId', membership')
    BY <2>1, <2>2 DEF Kept, KnownCopy
  <2>4. KnownCopy(cur[w], mem[w])'
    BY <1>2, <2>3 DEF KnownCopy
  <2>5. memFresh'[w] => mem'[w] = cr'[cur'[w]] /\ Behind(cache'[cur'[w]], mem'[w])
    BY <1>2, <2>1 DEF Framed
  <2>6. seen'[w] <= lastId'
    <3>1. seen[w] \in Nat /\ seen[w] <= lastId /\ lastId \in Nat /\ lastId' \in Nat
          /\ lastId <= lastId'
      BY DEF IInv, Types, LocalTypes, HarborOK, Workings, WorkerOK, Framed, HarborGrows
    <3> QED BY <1>2, <3>1
  <2>7. PositionOK(w, "error", mem[w], membership')
    BY DEF PositionOK
  <2> QED BY <1>2, <2>1, <2>4, <2>5, <2>6, <2>7 DEF WorkerOK
<1> QED BY <1>1, <1>2, <1>3, <1>4, WorkerStep

LEMMA Persisted ==
  ASSUME IInv, Framed, NEW w \in Workers, pc[w] # "idle", NEW p \in Busy, NEW rec,
         Extends(w, rec), rec.id = mem[w].id, p # "unfinalize",
         PositionOK(w, p, rec, membership'), Persist(w, rec, p)
  PROVE  StepOK
<1>1. CASE memFresh[w] /\ Store(w, rec) /\ Goto(w, p, rec, seen[w])
  <2>1. /\ ApiStep(w) /\ cr'[cur[w]] = rec
        /\ CopyOK(cur[w], rec, rec, lastInc'[cur[w]], lastId', membership')
    BY <1>1, ApiStored
  <2>2. /\ pc'[w] = p /\ mem'[w] = rec /\ seen' = seen /\ cur' = cur
        /\ memFresh' = memFresh /\ Others(w)
    BY <1>1 DEF IInv, Types, LocalTypes, Goto, Others, Rests
  <2>3. LocalTypes'
    BY <1>1 DEF IInv, Types, LocalTypes, Goto, Busy, Extends
  <2>4. WorkerOK(w)'
    <3>1. /\ cur[w] \in ObjectsOf(w) /\ mem[w].inc # 0
          /\ Behind(cache[cur[w]], mem[w])
      BY <1>1, WorkerFacts
    <3>2. KnownCopy(cur[w], mem[w])'
      BY <2>1, <2>2 DEF KnownCopy
    <3>3. mem'[w] = cr'[cur'[w]] /\ Behind(cache'[cur'[w]], mem'[w])
      BY <2>1, <2>2, <3>1 DEF Framed, Behind, Extends
    <3>4. seen'[w] <= lastId'
      <4>1. seen[w] \in Nat /\ seen[w] <= lastId /\ lastId \in Nat /\ lastId' \in Nat
            /\ lastId <= lastId'
        BY DEF IInv, Types, LocalTypes, HarborOK, Workings, WorkerOK, Framed,
               HarborGrows
      <4> QED BY <2>2, <4>1
    <3>5. rec.inc # 0
      BY <3>1 DEF Extends
    <3> QED BY <2>2, <3>1, <3>2, <3>3, <3>4, <3>5 DEF WorkerOK
  <2> QED BY <2>1, <2>2, <2>3, <2>4, WorkerStep
<1>2. CASE Refused(w)
  BY <1>2, Ended DEF Refused
<1> QED BY <1>1, <1>2 DEF Persist

LEMMA Unchanged ==
  ASSUME IInv, NEW w \in Workers, pc[w] # "idle" PROVE Extends(w, mem[w])
BY WorkerFacts DEF Extends

LEMMA MarkedExtends ==
  ASSUME NEW w \in Workers, NEW rec, Extends(w, rec), NEW reason \in Reasons
  PROVE  Extends(w, Marked(rec, reason)) /\ Marked(rec, reason).id = rec.id
BY DEF Extends, Marked, Resource

LEMMA StatusSet ==
  ASSUME IInv, Framed, NEW w \in Workers, pc[w] # "idle", NEW rec, Extends(w, rec),
         NEW reason \in Reasons, NEW r, NEW d, SetStatusAndReturn(w, rec, reason, r, d)
  PROVE  StepOK
BY MarkedExtends, Wrote, Ended DEF SetStatusAndReturn

LEMMA Failed ==
  ASSUME IInv, Framed, NEW w \in Workers, pc[w] # "idle", NEW reason \in Reasons,
         Fail(w, reason)
  PROVE  StepOK
BY Unchanged, StatusSet DEF Fail

LEMMA Disconnected ==
  ASSUME IInv, Framed, NEW w \in Workers, pc[w] # "idle", NEW reason \in Reasons,
         NEW nf, WithoutConnection(w, reason, nf)
  PROVE  StepOK
<1>1. CASE /\ w = "member" /\ mem[w].deleting
           /\ mem[w].deletionPolicy = "Orphan" /\ RemoveFinalizer(w)
  BY <1>1, Removed DEF Gone
<1>2. CASE Fail(w, reason)
  BY <1>2, Failed
<1> QED BY <1>1, <1>2 DEF WithoutConnection

LEMMA FramedIdle ==
  ASSUME IInv, UNCHANGED <<lastInc, cache, harborVars, pinned, conn, lastUid, refs>>,
         budget' = budget \/ \E k : Fault(k)
  PROVE  Framed /\ membership' = membership /\ lastId' = lastId
<1>1. HarborGrows
  BY IdleHarbor
<1>2. budget' \in Nat /\ refs' \subseteq References
  BY DEF IInv, Types, WorldTypes, Fault
<1> QED BY <1>1, <1>2 DEF Framed, harborVars

-----------------------------------------------------------------------------
(* Steps both reconcilers take *)

LEMMA BothOK ==
  ASSUME IInv, NEW w \in Workers,
         \/ MarkReconcilingIfNeeded(w) \/ GetHarborClientForObject(w)
         \/ BuildHarborClientFails(w) \/ EnsureFinalizer(w) \/ SetErrorStatus(w)
  PROVE  StepOK
<1>0. pc[w] # "idle"
  BY DEF MarkReconcilingIfNeeded, GetHarborClientForObject, BuildHarborClientFails,
         EnsureFinalizer, SetErrorStatus
<1>1. Framed
  BY FramedIdle DEF MarkReconcilingIfNeeded, GetHarborClientForObject,
         BuildHarborClientFails, EnsureFinalizer, SetErrorStatus, worldVars, Fault
<1>2. /\ Extends(w, mem[w]) /\ mem[w] \in Resource /\ err[w] \in Reasons
      /\ mem[w].deleting => mem[w].fin
      /\ PositionOK(w, pc[w], mem[w], membership)
      /\ w = "member" \/ w = "claim"
  BY <1>0, Unchanged, WorkerFacts DEF IInv, Types, LocalTypes, Workers
<1>3. CASE MarkReconcilingIfNeeded(w)
  <2>1. /\ Extends(w, Marked(mem[w], "Reconciling"))
        /\ Marked(mem[w], "Reconciling").id = mem[w].id
    BY <1>2, MarkedExtends, ReasonTypes
  <2>2. Marked(mem[w], "Reconciling").deleting = mem[w].deleting
    BY <2>1 DEF Extends
  <2>3. StartPC(w, mem[w]) \in Busy
    BY DEF StartPC, Busy, PCs
  <2>4. StartPC(w, mem[w]) # "unfinalize"
    BY DEF StartPC
  <2>5. PositionOK(w, StartPC(w, mem[w]), Marked(mem[w], "Reconciling"), membership')
    BY <1>2, <2>2 DEF StartPC, PositionOK
  <2> QED BY <1>0, <1>1, <1>3, <2>1, <2>3, <2>4, <2>5, Persisted
      DEF MarkReconcilingIfNeeded
<1>4. CASE GetHarborClientForObject(w)
  <2>1. BoundPC(w, mem[w]) \in Busy /\ BoundPC(w, mem[w]) # "unfinalize"
    BY DEF BoundPC, Busy, PCs
  <2>2. CASE WithoutConnection(w, "ConnectionNotFound", TRUE)
    BY <1>0, <1>1, <2>2, Disconnected, ReasonTypes
  <2>3. CASE WithoutConnection(w, "ConnectionChanged", FALSE)
    BY <1>0, <1>1, <2>3, Disconnected, ReasonTypes
  <2>4. CASE /\ conn # 0 /\ mem[w].bound = conn
             /\ Goto(w, BoundPC(w, mem[w]), mem[w], 0) /\ UNCHANGED <<cr, cacheFresh>>
    <3>1. PositionOK(w, BoundPC(w, mem[w]), mem[w], membership')
      BY <1>2, <2>4 DEF BoundPC, PositionOK
    <3>2. 0 <= lastId'
      BY <1>1 DEF Framed, HarborGrows, HarborOK
    <3> QED BY <1>0, <1>1, <2>1, <2>4, <3>1, <3>2, Moved
  <2>5. CASE Goto(w, "noSecret", mem[w], 0) /\ UNCHANGED <<cr, cacheFresh>>
    <3>1. PositionOK(w, "noSecret", mem[w], membership') /\ "noSecret" \in Busy
      BY DEF PositionOK, Busy, PCs
    <3>2. 0 <= lastId'
      BY <1>1 DEF Framed, HarborGrows, HarborOK
    <3> QED BY <1>0, <1>1, <2>5, <3>1, <3>2, Moved
  <2>6. CASE /\ conn # 0 /\ mem[w].bound = 0
             /\ Persist(w, [mem[w] EXCEPT !.bound = conn], BoundPC(w, mem[w]))
    <3> DEFINE rec == [mem[w] EXCEPT !.bound = conn]
    <3>1. conn \in Nat
      BY DEF IInv, Types, WorldTypes
    <3>2. /\ Extends(w, rec) /\ rec.id = mem[w].id /\ rec.bound # 0
          /\ rec.deleting = mem[w].deleting /\ rec.fin = mem[w].fin
      BY <1>2, <2>6, <3>1 DEF Extends, Resource
    <3>3. PositionOK(w, BoundPC(w, mem[w]), rec, membership')
      BY <1>2, <3>2 DEF BoundPC, PositionOK
    <3> QED BY <1>0, <1>1, <2>1, <2>6, <3>2, <3>3, Persisted
  <2>7. CASE /\ conn # 0 /\ mem[w].bound = 0
             /\ Persist(w, [mem[w] EXCEPT !.bound = conn], "noSecret")
    <3> DEFINE rec == [mem[w] EXCEPT !.bound = conn]
    <3>1. conn \in Nat
      BY DEF IInv, Types, WorldTypes
    <3>2. Extends(w, rec) /\ rec.id = mem[w].id
      BY <1>2, <2>7, <3>1 DEF Extends, Resource
    <3>3. PositionOK(w, "noSecret", rec, membership') /\ "noSecret" \in Busy
      BY DEF PositionOK, Busy, PCs
    <3> QED BY <1>0, <1>1, <2>7, <3>2, <3>3, Persisted
  <2> QED BY <1>4, <2>2, <2>3, <2>4, <2>5, <2>6, <2>7 DEF GetHarborClientForObject
<1>5. CASE BuildHarborClientFails(w)
  BY <1>0, <1>1, <1>5, Disconnected, ReasonTypes DEF BuildHarborClientFails
<1>6. CASE EnsureFinalizer(w)
  <2> DEFINE rec == [mem[w] EXCEPT !.fin = TRUE]
  <2>1. /\ Extends(w, rec) /\ rec.id = mem[w].id /\ rec.bound = mem[w].bound
        /\ rec.deleting = mem[w].deleting /\ rec.fin
    BY <1>2 DEF Extends, Resource
  <2>2. HeldPC(w) \in Busy /\ HeldPC(w) # "unfinalize"
    BY DEF HeldPC, Busy, PCs
  <2>3. PositionOK(w, HeldPC(w), rec, membership')
    BY <1>2, <1>6, <2>1 DEF EnsureFinalizer, HeldPC, PositionOK
  <2> QED BY <1>0, <1>1, <1>6, <2>1, <2>2, <2>3, Persisted DEF EnsureFinalizer
<1>7. CASE SetErrorStatus(w)
  BY <1>0, <1>1, <1>2, <1>7, Failed DEF SetErrorStatus
<1> QED BY <1>3, <1>4, <1>5, <1>6, <1>7

LEMMA FinalizeAfterCleanupOK ==
  ASSUME IInv, NEW w \in Workers, FinalizeAfterCleanup(w)
  PROVE  StepOK
<1>1. pc[w] = "unfinalize" /\ RemoveFinalizer(w)
  BY DEF FinalizeAfterCleanup
<1>2. Framed /\ membership' = membership
  BY FramedIdle DEF FinalizeAfterCleanup, worldVars
<1>3. w = "member" \/ w = "claim"
  BY DEF Workers
<1>4. /\ mem[w].deleting
      /\ w = "member" => Gone(mem[w], membership')
      /\ w = "claim" /\ memFresh[w] => Unpinned(cur[w])
  BY <1>1, <1>2, <1>3 DEF IInv, Workings, WorkerOK, PositionOK
<1> QED BY <1>1, <1>2, <1>4, Removed

-----------------------------------------------------------------------------
(* The reconciler of the Members *)

LEMMA MemberFacts ==
  ASSUME IInv, pc["member"] # "idle"
  PROVE  /\ "member" \in Workers /\ cur["member"] \in Members /\ M \in Resource
         /\ M.inc # 0 /\ M.id <= lastId /\ (M.id # 0 => M.fin)
         /\ KnownCopy(cur["member"], M) /\ Extends("member", M)
         /\ MyEntity \in Entities /\ MyBinding \in Binding /\ MyBinding.id <= lastId
         /\ Me \in Clients /\ M.role \in Roles
         /\ PositionOK("member", pc["member"], M, membership)
<1>1. "member" \in Workers
  BY DEF Workers
<1>2. /\ cur["member"] \in Members /\ M \in Resource
      /\ M.inc # 0 /\ M.id <= lastId /\ (M.id # 0 => M.fin)
      /\ KnownCopy(cur["member"], M) /\ Extends("member", M)
      /\ PositionOK("member", pc["member"], M, membership)
  BY <1>1, WorkerFacts, Unchanged DEF ObjectsOf, M
<1>3. MyEntity \in Entities
  BY <1>2, EntityTypes DEF MyEntity
<1>4. MyBinding \in Binding /\ MyBinding.id <= lastId
  BY <1>3 DEF MyBinding, IInv, Types, HarborOK
<1>5. Me \in Clients /\ M.role \in Roles
  BY <1>2 DEF Me, Clients, Resource
<1> QED BY <1>1, <1>2, <1>3, <1>4, <1>5

LEMMA ListProjectMembersOK ==
  ASSUME IInv, ListProjectMembers PROVE StepOK
<1>1. /\ pc["member"] = "list" /\ pc["member"] # "idle"
  BY DEF ListProjectMembers
<1>2. Framed /\ membership' = membership /\ lastId' = lastId
  BY FramedIdle DEF ListProjectMembers, Fault, NotListed
<1>3. /\ "member" \in Workers /\ M.bound # 0 /\ M.fin /\ ~M.deleting
      /\ MyBinding.id \in Nat /\ MyBinding.id <= lastId' /\ 0 <= lastId'
  BY <1>1, <1>2, MemberFacts
     DEF PositionOK, Binding, Framed, HarborGrows, HarborOK
<1>4. ASSUME NEW p \in {"ready", "update", "create"}
      PROVE  p \in Busy /\ PositionOK("member", p, M, membership')
  BY <1>3 DEF PositionOK, Busy, PCs
<1>5. ASSUME NEW p \in {"ready", "update", "create"}, NEW id \in {MyBinding.id, 0},
             Goto("member", p, M, id), UNCHANGED <<cr, cacheFresh>>
      PROVE  StepOK
  BY <1>1, <1>2, <1>3, <1>4, <1>5, Moved DEF M
<1>6. ASSUME NEW reason \in Reasons, Fail("member", reason) PROVE StepOK
  BY <1>1, <1>2, <1>3, <1>6, Failed
<1>7. ASSUME CallFailed("member", "HarborError"), UNCHANGED <<cr, cacheFresh>>
      PROVE  StepOK
  BY <1>1, <1>2, <1>3, <1>7, CallFails, ReasonTypes
<1>8. \/ \E p \in {"ready", "update", "create"}, id \in {MyBinding.id, 0} :
           Goto("member", p, M, id) /\ UNCHANGED <<cr, cacheFresh>>
      \/ Fail("member", "AlreadyExists") \/ Fail("member", "CreationDenied")
      \/ CallFailed("member", "HarborError") /\ UNCHANGED <<cr, cacheFresh>>
  BY DEF ListProjectMembers
<1> QED BY <1>5, <1>6, <1>7, <1>8, ReasonTypes

LEMMA CreateProjectMemberOK ==
  ASSUME IInv, CreateProjectMember PROVE StepOK
<1>1. /\ pc["member"] = "create" /\ pc["member"] # "idle" /\ UNCHANGED <<cr, cacheFresh>>
      /\ UNCHANGED <<lastInc, cache, pinned, conn, lastUid, refs>>
  BY DEF CreateProjectMember, apiVars
<1>2. /\ "member" \in Workers /\ MyEntity \in Entities /\ Me \in Clients
      /\ M.role \in Roles /\ M.bound # 0 /\ M.fin /\ ~M.deleting
      /\ lastId \in Nat /\ membership \in [Entities -> Binding]
      /\ group \in [Groups -> Registration] /\ made \subseteq Clients
      /\ \A g \in Groups : group[g].id \in Nat /\ group[g].id <= lastId
      /\ \A e \in Entities : membership[e].id \in Nat /\ membership[e].id <= lastId
      /\ budget \in Nat /\ refs \subseteq References
  BY <1>1, MemberFacts
     DEF PositionOK, IInv, Types, HarborOK, WorldTypes, Registration, Binding
<1>3. budget' \in Nat
  BY <1>2 DEF CreateProjectMember, Fault
<1>4. HarborGrows
  <2>1. CASE UNCHANGED harborVars
    BY <2>1, IdleHarbor
  <2>2. CASE /\ membership' = [membership EXCEPT ![MyEntity] =
                  [id |-> lastId + 1, role |-> M.role, maker |-> Me, writer |-> Me]]
             /\ made' = made \cup {Me}
             /\ IF MyEntity \in Groups /\ group[MyEntity].id = 0
                THEN /\ lastId' = lastId + 2
                     /\ group' = [group EXCEPT ![MyEntity] =
                                    [id |-> lastId + 2, compatible |-> TRUE]]
                ELSE lastId' = lastId + 1 /\ UNCHANGED group
    <3>1. /\ [id |-> lastId + 1, role |-> M.role, maker |-> Me, writer |-> Me] \in Binding
          /\ [id |-> lastId + 2, compatible |-> TRUE] \in Registration
      BY <1>2 DEF Binding, Registration
    <3>2. lastId' \in Nat /\ lastId + 1 <= lastId'
      BY <1>2, <2>2
    <3>3. /\ membership' \in [Entities -> Binding] /\ made' \subseteq Clients
          /\ group' \in [Groups -> Registration]
      BY <1>2, <2>2, <3>1
    <3>4. \A e \in Entities : membership'[e].id <= lastId'
      BY <1>2, <2>2, <3>2
    <3>5. \A g \in Groups : group'[g].id <= lastId'
      BY <1>2, <2>2, <3>2
    <3>6. BindingsKept(membership, membership', lastId)
      BY <1>2, <2>2 DEF BindingsKept
    <3> QED BY <1>2, <3>2, <3>3, <3>4, <3>5, <3>6 DEF HarborGrows, HarborOK
  <2> QED BY <2>1, <2>2 DEF CreateProjectMember
<1>5. Framed
  BY <1>1, <1>2, <1>3, <1>4 DEF Framed
<1>6. CASE CallFailed("member", "HarborError")
  BY <1>1, <1>2, <1>5, <1>6, CallFails, ReasonTypes
<1>7. CASE Goto("member", "ready", M, lastId + 1) /\ lastId + 1 <= lastId'
  <2>1. "ready" \in Busy /\ PositionOK("member", "ready", M, membership')
    BY <1>2 DEF PositionOK, Busy, PCs
  <2> QED BY <1>1, <1>2, <1>5, <1>7, <2>1, Moved DEF M
<1>8. \/ CallFailed("member", "HarborError")
      \/ Goto("member", "ready", M, lastId + 1) /\ lastId + 1 <= lastId'
  BY <1>2 DEF CreateProjectMember
<1> QED BY <1>6, <1>7, <1>8

LEMMA UpdateProjectMemberRoleOK ==
  ASSUME IInv, UpdateProjectMemberRole PROVE StepOK
<1>1. /\ pc["member"] = "update" /\ pc["member"] # "idle" /\ UNCHANGED <<cr, cacheFresh>>
      /\ UNCHANGED <<lastInc, cache, pinned, conn, lastUid, refs, group, lastId, made>>
  BY DEF UpdateProjectMemberRole, apiVars
<1>2. /\ "member" \in Workers /\ MyEntity \in Entities /\ Me \in Clients
      /\ M.role \in Roles /\ M.bound # 0 /\ M.fin /\ ~M.deleting
      /\ HarborOK /\ membership \in [Entities -> Binding] /\ lastId \in Nat
      /\ seen["member"] \in Nat /\ seen["member"] <= lastId
      /\ budget \in Nat /\ refs \subseteq References
  BY <1>1, MemberFacts
     DEF PositionOK, IInv, Types, HarborOK, WorldTypes, LocalTypes, Workings, WorkerOK
<1>3. budget' \in Nat
  BY <1>2 DEF UpdateProjectMemberRole, Fault
<1>4. HarborGrows
  <2>1. CASE UNCHANGED membership
    BY <1>1, <2>1, IdleHarbor DEF harborVars
  <2>2. CASE membership' = [membership EXCEPT ![MyEntity].role = M.role,
                                              ![MyEntity].writer = Me]
    <3>1. membership' \in [Entities -> Binding]
      BY <1>2, <2>2 DEF Binding
    <3>2. \A e \in Entities : membership'[e].id = membership[e].id
      BY <1>2, <2>2 DEF Binding
    <3> QED BY <1>1, <1>2, <3>1, <3>2 DEF HarborGrows, HarborOK, BindingsKept
  <2> QED BY <2>1, <2>2 DEF UpdateProjectMemberRole
<1>5. Framed
  BY <1>1, <1>2, <1>3, <1>4 DEF Framed
<1>6. CASE CallFailed("member", "HarborError")
  BY <1>1, <1>2, <1>5, <1>6, CallFails, ReasonTypes
<1>7. CASE Goto("member", "ready", M, seen["member"])
  <2>1. "ready" \in Busy /\ PositionOK("member", "ready", M, membership')
    BY <1>2 DEF PositionOK, Busy, PCs
  <2> QED BY <1>1, <1>2, <1>5, <1>7, <2>1, Moved DEF M
<1> QED BY <1>6, <1>7 DEF UpdateProjectMemberRole

LEMMA SetMemberReadyOK ==
  ASSUME IInv, SetMemberReady PROVE StepOK
<1>1. pc["member"] = "ready" /\ pc["member"] # "idle"
  BY DEF SetMemberReady
<1>2. Framed
  BY FramedIdle DEF SetMemberReady, worldVars
<1>3. /\ "member" \in Workers /\ M \in Resource /\ M.fin /\ Extends("member", M)
      /\ seen["member"] \in Nat /\ seen["member"] <= lastId
  BY <1>1, MemberFacts DEF PositionOK, IInv, Types, LocalTypes, Workings, WorkerOK
<1>4. Extends("member", [M EXCEPT !.id = seen["member"]])
  BY <1>3 DEF Extends, Resource
<1> QED BY <1>1, <1>2, <1>3, <1>4, StatusSet, ReasonTypes DEF SetMemberReady

LEMMA WithoutGrows ==
  ASSUME IInv, NEW id \in Nat, membership' = Without(id),
         UNCHANGED <<group, lastId, made>>
  PROVE  /\ HarborGrows
         /\ id # 0 => \A e \in Entities : membership'[e].id # id
<1>1. HarborOK /\ membership \in [Entities -> Binding] /\ lastId \in Nat
  BY DEF IInv, Types, HarborOK
<1>2. membership' \in [Entities -> Binding]
  BY <1>1, NothingInHarbor DEF Without
<1>3. \A e \in Entities :
        /\ membership'[e].id = membership[e].id \/ membership'[e].id = 0
        /\ id # 0 => membership'[e].id # id
  BY <1>1, NothingInHarbor DEF Without
<1>4. \A e \in Entities : membership'[e].id <= lastId
  BY <1>1, <1>3 DEF HarborOK
<1> QED BY <1>1, <1>2, <1>3, <1>4 DEF HarborGrows, HarborOK, BindingsKept

LEMMA DeleteProjectMemberOK ==
  ASSUME IInv, pc["member"] # "idle", NEW id \in Nat, DeleteProjectMember(id),
         M.deleting, M.id \in {0, id},
         UNCHANGED <<cr, cacheFresh, lastInc, cache, group, lastId, made, pinned,
                     conn, lastUid, refs>>
  PROVE  StepOK
<1>1. "member" \in Workers /\ M \in Resource /\ M.id \in Nat
  BY MemberFacts DEF Resource
<1>2. budget' \in Nat /\ refs' \subseteq References
  <2>1. budget \in Nat /\ refs \subseteq References
    BY DEF IInv, Types, WorldTypes
  <2>2. budget' = budget \/ Fault("call")
    BY DEF DeleteProjectMember
  <2> QED BY <2>1, <2>2 DEF Fault
<1>3. HarborGrows
  BY WithoutGrows, IdleHarbor DEF DeleteProjectMember, harborVars
<1>4. Framed
  BY <1>2, <1>3 DEF Framed
<1>5. CASE membership' = Without(id) /\ Goto("member", "unfinalize", M, 0)
  <2>1. PositionOK("member", "unfinalize", M, membership') /\ "unfinalize" \in Busy
    BY <1>1, <1>5, WithoutGrows DEF PositionOK, Gone, Busy, PCs
  <2>2. 0 <= lastId'
    BY <1>3 DEF HarborGrows, HarborOK
  <2> QED BY <1>1, <1>4, <1>5, <2>1, <2>2, Moved DEF M
<1>6. CASE Return("member", TRUE, FALSE)
  BY <1>1, <1>4, <1>6, Ended
<1> QED BY <1>5, <1>6 DEF DeleteProjectMember

LEMMA EnsureMemberAbsentOK ==
  ASSUME IInv, EnsureMemberAbsent PROVE StepOK
<1>1. /\ pc["member"] = "finalize" /\ pc["member"] # "idle"
      /\ UNCHANGED <<lastInc, cache, group, lastId, made, pinned, conn, lastUid, refs>>
  BY DEF EnsureMemberAbsent
<1>2. /\ "member" \in Workers /\ M \in Resource /\ M.deleting /\ M.bound # 0
      /\ M.id \in Nat /\ MyBinding.id \in Nat /\ MyBinding.id <= lastId
  BY <1>1, MemberFacts DEF PositionOK, Binding, Resource
<1>3. ASSUME membership' = membership, budget' = budget \/ \E k : Fault(k)
      PROVE  Framed /\ lastId' = lastId /\ 0 <= lastId'
  BY <1>1, <1>3, FramedIdle DEF harborVars, Framed, HarborGrows, HarborOK
<1>4. CASE /\ M.deletionPolicy = "Orphan" \/ M.id = 0
           /\ RemoveFinalizer("member") /\ UNCHANGED <<membership, budget>>
  BY <1>1, <1>2, <1>3, <1>4, Removed DEF Gone, M
<1>5. CASE DeleteProjectMember(M.id) /\ UNCHANGED <<cr, cacheFresh>>
  BY <1>1, <1>2, <1>5, DeleteProjectMemberOK
<1>6. CASE /\ M.id = 0 /\ UNCHANGED <<cr, cacheFresh, membership>>
           /\ budget' = budget \/ \E k : Fault(k)
           /\ \/ Return("member", TRUE, FALSE)
              \/ Goto("member", "purge", M, MyBinding.id)
              \/ Goto("member", "unfinalize", M, 0)
  <2>1. Framed /\ lastId' = lastId /\ 0 <= lastId'
    BY <1>3, <1>6
  <2>2. /\ PositionOK("member", "purge", M, membership') /\ "purge" \in Busy
        /\ PositionOK("member", "unfinalize", M, membership') /\ "unfinalize" \in Busy
    BY <1>2, <1>6 DEF PositionOK, Gone, Busy, PCs
  <2>3. CASE Return("member", TRUE, FALSE)
    BY <1>1, <1>2, <1>6, <2>1, <2>3, Ended
  <2>4. CASE Goto("member", "purge", M, MyBinding.id)
    BY <1>1, <1>2, <1>6, <2>1, <2>2, <2>4, Moved DEF M
  <2>5. CASE Goto("member", "unfinalize", M, 0)
    BY <1>1, <1>2, <1>6, <2>1, <2>2, <2>5, Moved DEF M
  <2> QED BY <1>6, <2>3, <2>4, <2>5
<1> QED BY <1>4, <1>5, <1>6 DEF EnsureMemberAbsent, NotListed

LEMMA DeleteListedMemberOK ==
  ASSUME IInv, DeleteListedMember PROVE StepOK
<1>1. /\ pc["member"] = "purge" /\ pc["member"] # "idle"
      /\ DeleteProjectMember(seen["member"])
      /\ UNCHANGED <<cr, cacheFresh, lastInc, cache, group, lastId, made, pinned,
                     conn, lastUid, refs>>
  BY DEF DeleteListedMember, apiVars
<1>2. M.deleting /\ M.id = 0 /\ seen["member"] \in Nat
  BY <1>1, MemberFacts DEF PositionOK, IInv, Types, LocalTypes
<1> QED BY <1>1, <1>2, DeleteProjectMemberOK

LEMMA ReconcileMemberOK ==
  ASSUME IInv, ReconcileMember PROVE StepOK
<1>1. CASE DesiredEntityUnresolved
  <2>1. pc["member"] # "idle" /\ Framed
    BY <1>1, FramedIdle DEF DesiredEntityUnresolved, worldVars
  <2>2. "member" \in Workers
    BY DEF Workers
  <2> QED BY <1>1, <2>1, <2>2, Failed, ReasonTypes DEF DesiredEntityUnresolved
<1>2. CASE \/ MarkReconcilingIfNeeded("member") \/ GetHarborClientForObject("member")
           \/ BuildHarborClientFails("member") \/ EnsureFinalizer("member")
           \/ SetErrorStatus("member") \/ FinalizeAfterCleanup("member")
  <2>1. "member" \in Workers
    BY DEF Workers
  <2> QED BY <1>2, <2>1, BothOK, FinalizeAfterCleanupOK
<1> QED BY <1>1, <1>2, ListProjectMembersOK, CreateProjectMemberOK,
           UpdateProjectMemberRoleOK, SetMemberReadyOK, EnsureMemberAbsentOK,
           DeleteListedMemberOK
        DEF ReconcileMember

-----------------------------------------------------------------------------
(* The reconciler of the claims *)

LEMMA ClaimFacts ==
  ASSUME IInv, pc["claim"] # "idle"
  PROVE  /\ "claim" \in Workers /\ cur["claim"] \in Claims /\ C \in Resource
         /\ Extends("claim", C) /\ MyGroup \in Groups
         /\ group[MyGroup].id \in Nat /\ group[MyGroup].id <= lastId
         /\ PositionOK("claim", pc["claim"], C, membership)
<1>1. "claim" \in Workers
  BY DEF Workers
<1>2. /\ cur["claim"] \in Claims /\ C \in Resource /\ Extends("claim", C)
      /\ PositionOK("claim", pc["claim"], C, membership)
  BY <1>1, WorkerFacts, Unchanged DEF ObjectsOf, C
<1>3. MyGroup \in Groups
  BY <1>2, EntityTypes DEF MyGroup
<1>4. group[MyGroup].id \in Nat /\ group[MyGroup].id <= lastId
  BY <1>3 DEF IInv, Types, HarborOK, Registration
<1> QED BY <1>1, <1>2, <1>3, <1>4

\* A Member the cache does not show has no finalizer at the API server; the
\* Members pinned to a claim have, while they are there.
LEMMA NoActiveMembers ==
  ASSUME IInv, pc["claim"] # "idle", ~HasActiveMembers
  PROVE  Unpinned(cur["claim"])
<1> SUFFICES ASSUME NEW x \in pinned[cur["claim"]] PROVE cr[x[1]].inc # x[2]
  BY DEF Unpinned
<1>1. cur["claim"] \in Claims
  BY ClaimFacts
<1>2. x[1] \in Members /\ x[1] \in Objects
  BY <1>1 DEF IInv, Types, WorldTypes, Objects
<1>3. RefOf[x[1]] = cur["claim"] /\ (cr[x[1]].inc = x[2] => cr[x[1]].fin)
  BY <1>1 DEF IInv, PinnedOK, PinOK
<1>4. cache[x[1]].inc = 0
  BY <1>2, <1>3 DEF HasActiveMembers
<1>5. ~cr[x[1]].fin
  BY <1>2, <1>4 DEF IInv, ApiOK
<1> QED BY <1>3, <1>5

LEMMA FinalizeClaimOK ==
  ASSUME IInv, FinalizeClaim PROVE StepOK
<1>1. pc["claim"] = "referenced" /\ pc["claim"] # "idle"
  BY DEF FinalizeClaim
<1>2. Framed /\ pinned' = pinned
  BY FramedIdle DEF FinalizeClaim, worldVars
<1>3. /\ "claim" \in Workers /\ C.deleting /\ cur["claim"] \in Claims /\ 0 <= lastId'
  BY <1>1, <1>2, ClaimFacts DEF PositionOK, Framed, HarborGrows, HarborOK
<1>4. CASE Fail("claim", "StillReferenced")
  BY <1>1, <1>2, <1>3, <1>4, Failed, ReasonTypes
<1>5. CASE /\ ~HasActiveMembers /\ Goto("claim", "unfinalize", C, 0)
           /\ UNCHANGED <<cr, cacheFresh>>
  <2>1. Unpinned(cur["claim"])'
    <3>1. cur' = cur /\ Unpinned(cur["claim"])
      BY <1>1, <1>5, NoActiveMembers DEF Goto
    <3> QED BY <1>2, <1>5, <3>1 DEF Unpinned
  <2>2. PositionOK("claim", "unfinalize", C, membership') /\ "unfinalize" \in Busy
    BY <1>3 DEF PositionOK, Busy, PCs
  <2> QED BY <1>1, <1>2, <1>3, <1>5, <2>1, <2>2, Moved DEF C
<1> QED BY <1>4, <1>5 DEF FinalizeClaim

LEMMA FindUserGroupOK ==
  ASSUME IInv, FindUserGroup PROVE StepOK
<1>1. pc["claim"] # "idle"
  BY DEF FindUserGroup
<1>2. Framed /\ lastId' = lastId
  BY FramedIdle DEF FindUserGroup, NotListed
<1>3. /\ "claim" \in Workers /\ group[MyGroup].id \in Nat
      /\ group[MyGroup].id <= lastId' /\ 0 <= lastId'
  BY <1>1, <1>2, ClaimFacts DEF Framed, HarborGrows, HarborOK
<1>4. /\ PositionOK("claim", "ready", C, membership') /\ "ready" \in Busy
      /\ PositionOK("claim", "register", C, membership') /\ "register" \in Busy
  BY DEF PositionOK, Busy, PCs
<1>5. CASE /\ UNCHANGED <<cr, cacheFresh>>
           /\ \/ Goto("claim", "ready", C, group[MyGroup].id)
              \/ Goto("claim", "register", C, 0)
  BY <1>1, <1>2, <1>3, <1>4, <1>5, Moved DEF C
<1>6. CASE Fail("claim", "Incompatible")
  BY <1>1, <1>2, <1>3, <1>6, Failed, ReasonTypes
<1>7. CASE CallFailed("claim", "HarborError") /\ UNCHANGED <<cr, cacheFresh>>
  BY <1>1, <1>2, <1>3, <1>7, CallFails, ReasonTypes
<1> QED BY <1>5, <1>6, <1>7 DEF FindUserGroup

LEMMA CreateUserGroupOK ==
  ASSUME IInv, CreateUserGroup PROVE StepOK
<1>1. /\ pc["claim"] = "register" /\ pc["claim"] # "idle" /\ UNCHANGED <<cr, cacheFresh>>
      /\ UNCHANGED <<lastInc, cache, pinned, conn, lastUid, refs, membership, made>>
  BY DEF CreateUserGroup, apiVars
<1>2. /\ "claim" \in Workers /\ HarborOK /\ lastId \in Nat
      /\ group \in [Groups -> Registration] /\ membership \in [Entities -> Binding]
      /\ \A g \in Groups : group[g].id \in Nat /\ group[g].id <= lastId
      /\ \A e \in Entities : membership[e].id \in Nat /\ membership[e].id <= lastId
      /\ budget \in Nat /\ refs \subseteq References
  BY <1>1, ClaimFacts DEF IInv, Types, HarborOK, WorldTypes, Registration, Binding
<1>3. budget' \in Nat
  BY <1>2 DEF CreateUserGroup, Fault
<1>4. HarborGrows
  <2>1. CASE UNCHANGED <<group, lastId>>
    BY <1>1, <2>1, IdleHarbor DEF harborVars
  <2>2. CASE /\ lastId' = lastId + 1
             /\ group' = [group EXCEPT ![MyGroup] =
                            [id |-> lastId + 1, compatible |-> TRUE]]
    <3>1. [id |-> lastId + 1, compatible |-> TRUE] \in Registration
      BY <1>2 DEF Registration
    <3>2. lastId' \in Nat /\ lastId <= lastId'
      BY <1>2, <2>2
    <3>3. group' \in [Groups -> Registration]
      BY <1>2, <2>2, <3>1
    <3>4. /\ \A g \in Groups : group'[g].id <= lastId'
          /\ \A e \in Entities : membership[e].id <= lastId'
      BY <1>2, <2>2
    <3>5. BindingsKept(membership, membership', lastId)
      BY <1>1 DEF BindingsKept
    <3>6. /\ membership' = membership /\ made' = made
          /\ membership' \in [Entities -> Binding] /\ made \subseteq Clients
      BY <1>1, <1>2 DEF HarborOK
    <3>7. HarborOK'
      BY <3>2, <3>3, <3>4, <3>6 DEF HarborOK
    <3> QED BY <3>2, <3>5, <3>7 DEF HarborGrows
  <2> QED BY <2>1, <2>2 DEF CreateUserGroup
<1>5. Framed
  BY <1>1, <1>2, <1>3, <1>4 DEF Framed
<1>6. CASE CallFailed("claim", "HarborError")
  BY <1>1, <1>2, <1>5, <1>6, CallFails, ReasonTypes
<1>7. CASE \/ Goto("claim", "ready", C, lastId + 1) /\ lastId + 1 <= lastId'
           \/ Goto("claim", "findAgain", C, 0)
  <2>1. /\ PositionOK("claim", "ready", C, membership') /\ "ready" \in Busy
        /\ PositionOK("claim", "findAgain", C, membership') /\ "findAgain" \in Busy
        /\ 0 <= lastId' /\ lastId + 1 \in Nat
    BY <1>2, <1>4 DEF PositionOK, Busy, PCs, HarborGrows, HarborOK
  <2> QED BY <1>1, <1>2, <1>5, <1>7, <2>1, Moved DEF C
<1>8. \/ CallFailed("claim", "HarborError")
      \/ Goto("claim", "ready", C, lastId + 1) /\ lastId + 1 <= lastId'
      \/ Goto("claim", "findAgain", C, 0)
  BY <1>2 DEF CreateUserGroup
<1> QED BY <1>6, <1>7, <1>8

LEMMA SetClaimReadyOK ==
  ASSUME IInv, SetClaimReady PROVE StepOK
<1>1. pc["claim"] = "ready" /\ pc["claim"] # "idle"
  BY DEF SetClaimReady
<1>2. Framed
  BY FramedIdle DEF SetClaimReady, worldVars
<1>3. /\ "claim" \in Workers /\ Extends("claim", Marked(C, "Reconciled"))
      /\ seen["claim"] \in Nat /\ seen["claim"] <= lastId
  BY <1>1, ClaimFacts, MarkedExtends, ReasonTypes
     DEF IInv, Types, LocalTypes, Workings, WorkerOK
<1>4. Extends("claim", [Marked(C, "Reconciled") EXCEPT !.id = seen["claim"]])
  BY <1>3 DEF Extends, Resource
<1> QED BY <1>1, <1>2, <1>3, <1>4, Wrote, Ended DEF SetClaimReady

LEMMA ReconcileClaimOK ==
  ASSUME IInv, ReconcileClaim PROVE StepOK
<1>1. "claim" \in Workers
  BY DEF Workers
<1> QED BY <1>1, BothOK, FinalizeAfterCleanupOK, FinalizeClaimOK, FindUserGroupOK,
           CreateUserGroupOK, SetClaimReadyOK
        DEF ReconcileClaim

-----------------------------------------------------------------------------
(* controller-runtime *)

LEMMA LoadResourceOK ==
  ASSUME IInv, NEW o \in Objects, LoadResource(o) PROVE StepOK
<1> DEFINE w == WorkerOf(o)
<1>1. /\ w \in Workers /\ o \in ObjectsOf(w) /\ pc[w] = "idle"
      /\ UNCHANGED <<apiVars, timer, harborVars, pinned, worldVars>>
      /\ queue' = queue \ {o}
  BY WorkersApart DEF LoadResource
<1>2. Framed /\ UNCHANGED <<cr, cacheFresh, refs, membership, lastId>>
  BY <1>1, FramedIdle DEF apiVars, worldVars, harborVars
<1>3. /\ ApiTypes' /\ ApiOK' /\ PinnedOK' /\ DepartureOK /\ WorldTypes' /\ HarborOK'
      /\ RecordsMove /\ \A p \in Objects : Kept(p)
  <2>1. ApiStep(w)
    BY <1>1, <1>2, ApiIdle
  <2>2. WorldTypes' /\ HarborOK'
    BY <1>1, <1>2 DEF IInv, Types, WorldTypes, worldVars, Framed, HarborGrows
  <2>3. \A p \in Objects : Kept(p)
    <3> TAKE p \in Objects
    <3>1. lastInc'[p] = lastInc[p] /\ lastInc[p] \in Nat /\ cr'[p] = cr[p]
          /\ cr' \in [Objects -> Resource] /\ lastInc' \in [Objects -> Nat]
      BY <1>2 DEF IInv, Types, ApiTypes, Framed
    <3> QED BY <1>2, <3>1, KeptSame DEF Framed
  <2> QED BY <2>1, <2>2, <2>3 DEF ApiStep
<1>4. /\ cache[o] \in Resource /\ cr[o] \in Resource /\ cacheFresh[o] \in BOOLEAN
      /\ KnownCopy(o, cache[o]) /\ (cacheFresh[o] => cache[o] = cr[o])
  BY DEF IInv, Types, ApiTypes, ApiOK
<1>5. CASE cache[o].inc = 0
  <2>1. UNCHANGED localVars
    BY <1>5 DEF LoadResource
  <2>2. LocalTypes'
    BY <1>1, <2>1 DEF IInv, Types, LocalTypes, localVars
  <2>3. \A v \in Workers : WorkerOK(v)'
    <3> TAKE v \in Workers
    <3>1. Rests(v)
      BY <2>1 DEF Rests, localVars
    <3>2. pc[v] # "idle" => Kept(cur[v])
      BY <1>3, <3>1, KeptCopies
    <3> QED BY <1>2, <1>3, <3>1, <3>2, WorkerKept DEF Framed, ApiTypes
  <2> QED BY <1>3, <2>2, <2>3 DEF StepOK, IInv, Types, Workings
<1>6. CASE cache[o].inc # 0
  <2> DEFINE p == IF cache[o].obsGen = cache[o].gen THEN StartPC(w, cache[o]) ELSE "mark"
  <2>1. /\ pc' = [pc EXCEPT ![w] = p] /\ cur' = [cur EXCEPT ![w] = o]
        /\ mem' = [mem EXCEPT ![w] = cache[o]]
        /\ memFresh' = [memFresh EXCEPT ![w] = cacheFresh[o]]
        /\ UNCHANGED <<err, seen>>
    BY <1>6 DEF LoadResource
  <2>2. p \in PCs /\ p # "unfinalize"
    BY DEF StartPC, PCs
  <2>3. LocalTypes'
    BY <1>1, <1>4, <2>1, <2>2 DEF IInv, Types, LocalTypes
  <2>4. /\ pc'[w] = p /\ cur'[w] = o /\ mem'[w] = cache[o] /\ memFresh'[w] = cacheFresh[o]
        /\ seen'[w] = seen[w] /\ \A v \in Workers \ {w} : Rests(v) /\ memFresh'[v] = memFresh[v]
    BY <1>1, <2>1 DEF IInv, Types, LocalTypes, Rests
  <2>5. \A v \in Workers \ {w} : WorkerOK(v)'
    <3> TAKE v \in Workers \ {w}
    <3>1. Rests(v)
      BY <2>4
    <3>2. pc[v] # "idle" => Kept(cur[v])
      BY <1>3, <3>1, KeptCopies
    <3> QED BY <1>2, <1>3, <3>1, <3>2, WorkerKept DEF Framed, ApiTypes
  <2>6. WorkerOK(w)'
    <3>1. CopyOK(o, cache[o], cr'[o], lastInc'[o], lastId', membership')
      BY <1>3, <1>4 DEF Kept, KnownCopy
    <3>2. KnownCopy(cur[w], mem[w])'
      BY <2>4, <3>1 DEF KnownCopy
    <3>3. memFresh'[w] => mem'[w] = cr'[cur'[w]] /\ Behind(cache'[cur'[w]], mem'[w])
      BY <1>2, <1>4, <2>4 DEF Framed, Behind
    <3>4. PositionOK(w, p, cache[o], membership')
      BY DEF PositionOK, StartPC
    <3>5. seen'[w] <= lastId'
      BY <1>1, <1>2, <2>4 DEF IInv, Workings, WorkerOK
    <3> QED BY <1>1, <1>6, <2>2, <2>4, <3>2, <3>3, <3>4, <3>5 DEF WorkerOK
  <2> QED BY <1>3, <2>3, <2>5, <2>6 DEF StepOK, IInv, Types, Workings
<1> QED BY <1>5, <1>6

\* A step that leaves the API server, the cache and the locals alone.
LEMMA WorldStep ==
  ASSUME IInv, UNCHANGED <<apiVars, localVars, pinned>>, HarborGrows, WorldTypes',
         queue' \subseteq Objects, timer' \subseteq Objects
  PROVE  StepOK
<1>1. UNCHANGED <<cr, lastInc, cache, cacheFresh, pc, cur, mem, memFresh, err, seen>>
  BY DEF apiVars, localVars
<1>2. "claim" \in Workers
  BY DEF Workers
<1>3. \A p \in Objects : Kept(p)
  <2> TAKE p \in Objects
  <2>1. lastInc'[p] = lastInc[p] /\ lastInc[p] \in Nat /\ cr'[p] = cr[p]
        /\ cr' \in [Objects -> Resource] /\ lastInc' \in [Objects -> Nat]
    BY <1>1 DEF IInv, Types, ApiTypes
  <2> QED BY <2>1, KeptSame
<1>4. ApiOK'
  <2> SUFFICES ASSUME NEW o \in Objects
               PROVE  /\ KnownCopy(o, cr[o])' /\ KnownCopy(o, cache[o])'
                      /\ cacheFresh'[o] => cache'[o] = cr'[o]
                      /\ cr'[o].fin => cache'[o].inc # 0
                      /\ cr'[o].inc = 0 => cr'[o] = NoResource
    BY DEF ApiOK
  <2>1. KnownCopy(o, cr[o]) /\ KnownCopy(o, cache[o])
        /\ cr[o] \in Resource /\ cache[o] \in Resource
    BY DEF IInv, ApiOK, Types, ApiTypes
  <2>2. CopyOK(o, cr[o], cr'[o], lastInc'[o], lastId', membership')
        /\ CopyOK(o, cache[o], cr'[o], lastInc'[o], lastId', membership')
    BY <1>3, <2>1 DEF Kept, KnownCopy
  <2>3. KnownCopy(o, cr[o])' /\ KnownCopy(o, cache[o])'
    BY <1>1, <2>2 DEF KnownCopy
  <2> QED BY <1>1, <2>3 DEF IInv, ApiOK
<1>5. RecordsMove /\ DepartureOK
  BY <1>1 DEF RecordsMove, DepartureOK, Exists
<1>6. \A v \in Workers : WorkerOK(v)'
  <2> TAKE v \in Workers
  <2>1. Rests(v)
    BY <1>1 DEF Rests
  <2>2. pc[v] # "idle" => Kept(cur[v])
    BY <1>3, <2>1, KeptCopies
  <2> QED BY <1>1, <1>5, <2>1, <2>2, WorkerKept DEF IInv, Types, ApiTypes
<1>7. /\ ApiTypes' /\ LocalTypes' /\ PinnedOK'
  BY <1>1 DEF IInv, Types, ApiTypes, LocalTypes, PinnedOK, PinOK
<1>8. HarborOK'
  BY DEF HarborGrows
<1> QED BY <1>4, <1>5, <1>6, <1>7, <1>8 DEF StepOK, IInv, Types, Workings

LEMMA SyncCacheOK ==
  ASSUME IInv, NEW o \in Objects, SyncCache(o) PROVE StepOK
<1>1. /\ cache' = [cache EXCEPT ![o] = cr[o]]
      /\ cacheFresh' = [cacheFresh EXCEPT ![o] = TRUE]
      /\ UNCHANGED <<cr, lastInc, timer, localVars, harborVars, pinned, worldVars>>
      /\ queue' = queue \cup EnqueuedBy(o)
  BY DEF SyncCache
<1>2. HarborGrows
  BY <1>1, IdleHarbor
<1>3. /\ cr \in [Objects -> Resource] /\ lastInc \in [Objects -> Nat]
      /\ cache \in [Objects -> Resource] /\ cacheFresh \in [Objects -> BOOLEAN]
  BY DEF IInv, Types, ApiTypes
<1>4. ApiTypes'
  BY <1>1, <1>3 DEF ApiTypes
<1>5. LocalTypes' /\ WorldTypes'
  <2>1. EnqueuedBy(o) \subseteq Objects
    BY DEF EnqueuedBy, Objects
  <2>2. UNCHANGED <<pc, cur, mem, memFresh, err, seen, timer, pinned, conn, lastUid,
                    refs, budget>>
    BY <1>1 DEF localVars, worldVars
  <2> QED BY <1>1, <2>1, <2>2 DEF IInv, Types, LocalTypes, WorldTypes
<1>6. \A p \in Objects : Kept(p)
  <2> TAKE p \in Objects
  <2>1. lastInc'[p] = lastInc[p] /\ lastInc[p] \in Nat /\ cr'[p] = cr[p]
        /\ cr' \in [Objects -> Resource] /\ lastInc' \in [Objects -> Nat]
    BY <1>1, <1>3
  <2> QED BY <1>2, <2>1, KeptSame
<1>7. ApiOK'
  <2> SUFFICES ASSUME NEW p \in Objects
               PROVE  /\ KnownCopy(p, cr[p])' /\ KnownCopy(p, cache[p])'
                      /\ cacheFresh'[p] => cache'[p] = cr'[p]
                      /\ cr'[p].fin => cache'[p].inc # 0
                      /\ cr'[p].inc = 0 => cr'[p] = NoResource
    BY DEF ApiOK
  <2>1. /\ KnownCopy(p, cr[p]) /\ KnownCopy(p, cache[p])
        /\ cacheFresh[p] => cache[p] = cr[p]
        /\ cr[p].fin => cache[p].inc # 0
        /\ cr[p].inc = 0 => cr[p] = NoResource
        /\ cr[p] \in Resource /\ cache[p] \in Resource
    BY <1>3 DEF IInv, ApiOK
  <2>2. /\ CopyOK(p, cr[p], cr'[p], lastInc'[p], lastId', membership')
        /\ CopyOK(p, cache[p], cr'[p], lastInc'[p], lastId', membership')
    BY <1>6, <2>1 DEF Kept, KnownCopy
  <2>3. cr'[p] = cr[p] /\ (cache'[p] = cache[p] \/ cache'[p] = cr[p])
        /\ (p # o => cache'[p] = cache[p] /\ cacheFresh'[p] = cacheFresh[p])
        /\ (p = o => cache'[p] = cr[p])
    BY <1>1, <1>3
  <2>4. KnownCopy(p, cr[p])' /\ KnownCopy(p, cache[p])'
    BY <2>2, <2>3 DEF KnownCopy
  <2>5. cr[p].fin => cr[p].inc # 0
    BY <2>1, NoResourceType
  <2> QED BY <2>1, <2>3, <2>4, <2>5
<1>8. RecordsMove /\ DepartureOK
  BY <1>1 DEF RecordsMove, DepartureOK, Exists
<1>9. \A v \in Workers : WorkerOK(v)'
  <2> TAKE v \in Workers
  <2>1. Rests(v)
    BY <1>1 DEF Rests, localVars
  <2>2. pc[v] # "idle" => Kept(cur[v])
    BY <1>6, <2>1, KeptCopies
  <2>3. pc[v] # "idle" => /\ cr'[cur[v]] = cr[cur[v]]
                          /\ cache'[cur[v]] = cache[cur[v]] \/ cache'[cur[v]] = cr[cur[v]]
    <3>1. pc[v] # "idle" => cur[v] \in Objects
      BY WorkerFacts
    <3> QED BY <1>1, <1>3, <3>1
  <2> QED BY <1>1, <1>2, <1>4, <1>8, <2>1, <2>2, <2>3, WorkerKept DEF ApiTypes
<1>10. PinnedOK' /\ HarborOK'
  BY <1>1, <1>2 DEF IInv, PinnedOK, PinOK, HarborGrows
<1> QED BY <1>4, <1>5, <1>7, <1>8, <1>9, <1>10 DEF StepOK, IInv, Types, Workings

LEMMA CrashOK == ASSUME IInv, Crash PROVE StepOK
<1>1. /\ pc' = [w \in Workers |-> "idle"] /\ cur' = [w \in Workers |-> AnyObject]
      /\ mem' = [w \in Workers |-> NoResource] /\ memFresh' = [w \in Workers |-> FALSE]
      /\ err' = [w \in Workers |-> ""] /\ seen' = [w \in Workers |-> 0]
      /\ timer' = {} /\ queue' = {o \in Objects : Exists(o)}
      /\ cache' = cr /\ cacheFresh' = [o \in Objects |-> TRUE]
      /\ UNCHANGED <<cr, lastInc, harborVars, pinned, conn, lastUid, refs>>
  BY DEF Crash
<1>2. /\ cr \in [Objects -> Resource] /\ lastInc \in [Objects -> Nat]
      /\ HarborOK /\ lastId \in Nat /\ budget \in Nat
  BY DEF IInv, Types, ApiTypes, HarborOK, WorldTypes
<1>3. ApiTypes' /\ HarborOK'
  BY <1>1, <1>2 DEF ApiTypes, HarborOK, harborVars
<1>4. LocalTypes'
  BY <1>1, NoResourceType, AnyObjectType, ReasonTypes DEF LocalTypes, PCs
<1>5. WorldTypes'
  <2>1. Fault("crash")
    BY DEF Crash
  <2>2. budget' \in Nat
    BY <1>2, <2>1 DEF Fault
  <2>3. UNCHANGED <<pinned, conn, lastUid, refs>>
    BY <1>1
  <2> QED BY <2>2, <2>3 DEF IInv, Types, WorldTypes
<1>6. ApiOK'
  <2> SUFFICES ASSUME NEW p \in Objects
               PROVE  /\ KnownCopy(p, cr[p])' /\ KnownCopy(p, cache[p])'
                      /\ cacheFresh'[p] => cache'[p] = cr'[p]
                      /\ cr'[p].fin => cache'[p].inc # 0
                      /\ cr'[p].inc = 0 => cr'[p] = NoResource
    BY DEF ApiOK
  <2>1. KnownCopy(p, cr[p]) /\ (cr[p].inc = 0 => cr[p] = NoResource)
    BY DEF IInv, ApiOK
  <2>2. KnownCopy(p, cr[p])' /\ KnownCopy(p, cache[p])'
    BY <1>1, <2>1 DEF KnownCopy, harborVars
  <2> QED BY <1>1, <2>1, <2>2, NoResourceType
<1>7. \A v \in Workers : WorkerOK(v)'
  <2>1. \A v \in Workers : pc'[v] = "idle" /\ seen'[v] = 0
    BY <1>1
  <2>2. 0 <= lastId'
    BY <1>3 DEF HarborOK
  <2> QED BY <2>1, <2>2 DEF WorkerOK
<1>8. PinnedOK' /\ DepartureOK
  BY <1>1 DEF IInv, PinnedOK, PinOK, DepartureOK, Exists
<1> QED BY <1>3, <1>4, <1>5, <1>6, <1>7, <1>8 DEF StepOK, IInv, Types, Workings

-----------------------------------------------------------------------------
(* Users *)

\* A user's write of rec is all right if rec continues, begins or ends the life
\* of o, and o was free to end it.
LEMMA UserStep ==
  ASSUME IInv, NEW o \in Objects, NEW rec \in Resource, UserWrites(o, rec),
         lastInc' \in [Objects -> Nat], \A p \in Objects : lastInc[p] <= lastInc'[p],
         \A p \in Objects \ {o} : lastInc'[p] = lastInc[p],
         \A c \in Resource : KnownCopy(o, c)
           => RecordKept(o, c, cr[o], rec, lastInc[o], membership),
         CopyOK(o, rec, rec, lastInc'[o], lastId, membership),
         rec.fin => cr[o].fin,
         rec.inc = 0 => rec = NoResource /\ ~cr[o].fin,
         \/ rec.inc = cr[o].inc /\ (cr[o].fin => rec.fin)
         \/ rec.inc = 0 \/ rec.inc > lastInc[o],
         \A c \in Claims \ {o} : pinned'[c] = pinned[c],
         WorldTypes', RecordsMove => PinnedOK'
  PROVE  StepOK
<1>1. /\ cr' = [cr EXCEPT ![o] = rec] /\ cacheFresh' = [cacheFresh EXCEPT ![o] = FALSE]
      /\ memFresh' = [memFresh EXCEPT ![WorkerOf(o)] = @ /\ cur[WorkerOf(o)] # o]
      /\ UNCHANGED <<cache, queue, timer, pc, cur, mem, err, seen, harborVars>>
  BY DEF UserWrites
<1>2. HarborGrows /\ HarborOK' /\ membership' = membership /\ lastId' = lastId
  BY <1>1, IdleHarbor DEF HarborGrows, harborVars
<1>3. /\ cr \in [Objects -> Resource] /\ cache \in [Objects -> Resource]
      /\ lastInc \in [Objects -> Nat] /\ cacheFresh \in [Objects -> BOOLEAN]
  BY DEF IInv, Types, ApiTypes
<1>4. /\ ApiTypes' /\ cr' \in [Objects -> Resource] /\ cr'[o] = rec
      /\ \A p \in Objects \ {o} : cr'[p] = cr[p]
  BY <1>1, <1>3 DEF ApiTypes
<1>5. LocalTypes'
  <2>1. WorkerOf(o) \in Workers /\ memFresh \in [Workers -> BOOLEAN]
    BY WorkersApart DEF IInv, Types, LocalTypes
  <2>2. memFresh' \in [Workers -> BOOLEAN]
    BY <1>1, <2>1
  <2> QED BY <1>1, <2>2 DEF IInv, Types, LocalTypes
<1>6. \A p \in Objects : Kept(p)
  <2> TAKE p \in Objects
  <2>1. CASE p = o
    BY <1>2, <1>4, <2>1, KeptRecord
  <2>2. CASE p # o
    <3>1. cr'[p] = cr[p]
      BY <1>4, <2>2
    <3> QED BY <1>2, <1>4, <3>1, KeptSame
  <2> QED BY <2>1, <2>2
<1>7. ApiOK'
  <2> SUFFICES ASSUME NEW p \in Objects
               PROVE  /\ KnownCopy(p, cr[p])' /\ KnownCopy(p, cache[p])'
                      /\ cacheFresh'[p] => cache'[p] = cr'[p]
                      /\ cr'[p].fin => cache'[p].inc # 0
                      /\ cr'[p].inc = 0 => cr'[p] = NoResource
    BY DEF ApiOK
  <2>1. /\ KnownCopy(p, cr[p]) /\ KnownCopy(p, cache[p])
        /\ cacheFresh[p] => cache[p] = cr[p]
        /\ cr[p].fin => cache[p].inc # 0
        /\ cr[p].inc = 0 => cr[p] = NoResource
        /\ cr[p] \in Resource /\ cache[p] \in Resource /\ cache' = cache
    BY <1>1, <1>3 DEF IInv, ApiOK
  <2>2. /\ CopyOK(p, cr[p], cr'[p], lastInc'[p], lastId', membership')
        /\ CopyOK(p, cache[p], cr'[p], lastInc'[p], lastId', membership')
    BY <1>6, <2>1 DEF Kept, KnownCopy
  <2>3. KnownCopy(p, cache[p])'
    BY <2>1, <2>2 DEF KnownCopy
  <2>4. CASE p = o
    <3>1. KnownCopy(p, cr[p])'
      BY <1>2, <1>4, <2>4 DEF KnownCopy
    <3>2. cacheFresh'[p] = FALSE
      BY <1>1, <1>3, <2>4
    <3> QED BY <1>4, <2>1, <2>3, <2>4, <3>1, <3>2
  <2>5. CASE p # o
    <3>1. cr'[p] = cr[p] /\ cacheFresh'[p] = cacheFresh[p]
      BY <1>1, <1>3, <1>4, <2>5
    <3>2. KnownCopy(p, cr[p])'
      BY <2>2, <3>1 DEF KnownCopy
    <3> QED BY <2>1, <2>3, <3>1, <3>2
  <2> QED BY <2>4, <2>5
<1>8. RecordsMove
  BY <1>4 DEF RecordsMove
<1>9. \A v \in Workers : WorkerOK(v)'
  <2> TAKE v \in Workers
  <2>1. Rests(v) /\ (memFresh'[v] => v # WorkerOf(o) \/ cur[v] # o)
    BY <1>1, WorkersApart DEF Rests, IInv, Types, LocalTypes
  <2>2. pc[v] # "idle" => Kept(cur[v])
    BY <1>6, <2>1, KeptCopies
  <2>3. pc[v] # "idle" /\ memFresh'[v] => cur[v] \in Objects /\ cur[v] # o
    BY <2>1, WorkerFacts, WorkersApart
  <2>4. v = "claim" /\ pc[v] # "idle" => cur[v] \in Claims
    BY WorkerFacts DEF ObjectsOf
  <2> QED BY <1>1, <1>2, <1>4, <1>8, <2>1, <2>2, <2>3, <2>4, WorkerKept
<1>10. DepartureOK
  <2> SUFFICES ASSUME NEW p \in Objects, Exists(p), cr'[p].inc = 0
               PROVE  /\ p \in Claims /\ cr[p].fin => Unpinned(p)
                      /\ p \in Members /\ cr[p].deletionPolicy = "Delete" /\ cr[p].id # 0
                         => \A e \in Entities : membership'[e].id # cr[p].id
    BY DEF DepartureOK
  <2>1. p = o /\ ~cr[p].fin
    BY <1>4 DEF Exists
  <2>2. p \in Members /\ cr[p].id # 0 => cr[p].fin
    BY DEF Exists, IInv, ApiOK, KnownCopy, CopyOK
  <2> QED BY <2>1, <2>2
<1> QED BY <1>2, <1>4, <1>5, <1>7, <1>8, <1>9, <1>10 DEF StepOK, IInv, Types, Workings

LEMMA UserFacts ==
  ASSUME IInv, NEW o \in Objects
  PROVE  /\ cr[o] \in Resource /\ lastInc[o] \in Nat /\ cr[o].inc \in Nat
         /\ lastInc \in [Objects -> Nat] /\ lastId \in Nat
         /\ KnownCopy(o, cr[o]) /\ (cr[o].inc = 0 => cr[o] = NoResource)
BY DEF IInv, Types, ApiTypes, HarborOK, ApiOK, Resource

LEMMA UserCreateOK ==
  ASSUME IInv, NEW o \in Objects, UserCreate(o) PROVE StepOK
<1>1. /\ cr[o] = NoResource /\ lastInc' = [lastInc EXCEPT ![o] = @ + 1]
      /\ pinned' = pinned
  BY UserFacts DEF UserCreate, Exists
<1>2. PICK rec \in Resource :
        /\ UserWrites(o, rec) /\ rec.inc = lastInc[o] + 1
        /\ ~rec.fin /\ ~rec.deleting /\ rec.id = 0 /\ rec.bound = 0
  <2>1. CASE o \in Claims /\ UserWrites(o, [NewClaim EXCEPT !.inc = lastInc[o] + 1])
    <3> DEFINE rec == [NewClaim EXCEPT !.inc = lastInc[o] + 1]
    <3>1. lastInc[o] + 1 \in Nat
      BY UserFacts
    <3>2. /\ NewClaim \in Resource /\ ~NewClaim.fin /\ ~NewClaim.deleting
          /\ NewClaim.id = 0 /\ NewClaim.bound = 0
      BY NoResourceType DEF NewClaim, Resource
    <3>3. rec \in Resource /\ rec.inc = lastInc[o] + 1
          /\ ~rec.fin /\ ~rec.deleting /\ rec.id = 0 /\ rec.bound = 0
      BY <3>1, <3>2 DEF Resource
    <3> QED BY <2>1, <3>3
  <2>2. ASSUME NEW r \in Roles, NEW cp \in CreationPolicies, NEW dp \in DeletionPolicies,
               UserWrites(o, [NewMember(r, cp, dp) EXCEPT !.inc = lastInc[o] + 1])
        PROVE  \E rec \in Resource :
                 /\ UserWrites(o, rec) /\ rec.inc = lastInc[o] + 1
                 /\ ~rec.fin /\ ~rec.deleting /\ rec.id = 0 /\ rec.bound = 0
    <3> DEFINE rec == [NewMember(r, cp, dp) EXCEPT !.inc = lastInc[o] + 1]
    <3>1. cp \in {"Create", "Adopt", "CreateOrAdopt"} /\ dp \in {"Delete", "Orphan"}
      BY ConstantsAssumption
    <3>2. lastInc[o] + 1 \in Nat
      BY UserFacts
    <3>3. /\ NewMember(r, cp, dp) \in Resource /\ ~NewMember(r, cp, dp).fin
          /\ ~NewMember(r, cp, dp).deleting /\ NewMember(r, cp, dp).id = 0
          /\ NewMember(r, cp, dp).bound = 0
      BY <3>1, NoResourceType DEF NewMember, Resource
    <3>4. rec \in Resource /\ rec.inc = lastInc[o] + 1
          /\ ~rec.fin /\ ~rec.deleting /\ rec.id = 0 /\ rec.bound = 0
      BY <3>2, <3>3 DEF Resource
    <3> QED BY <2>2, <3>4
  <2> QED BY <2>1, <2>2 DEF UserCreate
<1>3. /\ lastInc' \in [Objects -> Nat] /\ \A p \in Objects : lastInc[p] <= lastInc'[p]
      /\ \A p \in Objects \ {o} : lastInc'[p] = lastInc[p]
      /\ lastInc'[o] = lastInc[o] + 1
  BY <1>1, UserFacts
<1>4. rec.inc # 0 /\ rec.inc > lastInc[o] /\ cr[o].inc = 0 /\ ~cr[o].fin
  BY <1>1, <1>2, UserFacts, NoResourceType
<1>5. \A c \in Resource : RecordKept(o, c, cr[o], rec, lastInc[o], membership)
  BY <1>4 DEF RecordKept
<1>6. CopyOK(o, rec, rec, lastInc'[o], lastId, membership)
  BY <1>2, <1>3, UserFacts DEF CopyOK
<1>7. WorldTypes'
  BY <1>1, <1>2 DEF IInv, Types, WorldTypes, UserWrites, worldVars
<1>8. RecordsMove => PinnedOK'
  <2>1. cr' \in [Objects -> Resource]
    BY <1>2 DEF UserWrites, IInv, Types, ApiTypes
  <2> QED BY <1>1, <1>3, <2>1, PinnedKept
<1> QED BY <1>1, <1>2, <1>3, <1>4, <1>5, <1>6, <1>7, <1>8, UserStep

LEMMA UserEditOK ==
  ASSUME IInv, NEW m \in Objects, UserEdit(m) PROVE StepOK
<1>1. m \in Objects /\ Exists(m) /\ UNCHANGED <<lastInc, pinned>>
  BY DEF UserEdit
<1>2. PICK r \in Roles, dp \in DeletionPolicies :
        UserWrites(m, [cr[m] EXCEPT !.gen = @ + 1, !.role = r, !.deletionPolicy = dp])
  BY DEF UserEdit
<1> DEFINE rec == [cr[m] EXCEPT !.gen = @ + 1, !.role = r, !.deletionPolicy = dp]
<1>3. /\ cr[m] \in Resource /\ dp \in {"Delete", "Orphan"} /\ lastInc[m] \in Nat
      /\ lastInc \in [Objects -> Nat] /\ KnownCopy(m, cr[m])
  BY <1>1, UserFacts, ConstantsAssumption
<1>4. /\ rec \in Resource /\ rec.inc = cr[m].inc /\ rec.fin = cr[m].fin
      /\ rec.deleting = cr[m].deleting /\ rec.bound = cr[m].bound /\ rec.id = cr[m].id
      /\ rec.inc # 0
  <2>1. cr[m].gen + 1 \in Nat /\ cr[m].inc # 0
    BY <1>1, <1>3 DEF Resource, Exists
  <2>2. rec = [cr[m] EXCEPT !.gen = cr[m].gen + 1, !.role = r, !.deletionPolicy = dp]
    BY <1>3 DEF Resource
  <2> QED BY <1>3, <2>1, <2>2 DEF Resource
<1>5. \A c \in Resource : RecordKept(m, c, cr[m], rec, lastInc[m], membership)
  BY <1>4 DEF RecordKept
<1>6. CopyOK(m, rec, rec, lastInc'[m], lastId, membership)
  BY <1>1, <1>3, <1>4 DEF CopyOK, KnownCopy
<1>7. WorldTypes'
  <2>1. UNCHANGED worldVars
    BY <1>2 DEF UserWrites
  <2> QED BY <1>1, <2>1 DEF IInv, Types, WorldTypes, worldVars
<1>8. RecordsMove => PinnedOK'
  <2>1. cr' \in [Objects -> Resource]
    BY <1>2, <1>4 DEF UserWrites, IInv, Types, ApiTypes
  <2> QED BY <1>1, <1>3, <2>1, PinnedKept
<1>9. /\ \A p \in Objects : lastInc'[p] = lastInc[p] /\ lastInc[p] <= lastInc'[p]
      /\ lastInc' \in [Objects -> Nat]
  BY <1>1, <1>3
<1> HIDE DEF rec
<1>10. UserWrites(m, rec)
  BY <1>2 DEF rec
<1> QED BY <1>1, <1>4, <1>5, <1>6, <1>7, <1>8, <1>9, <1>10, UserStep

LEMMA UserDeleteOK ==
  ASSUME IInv, NEW o \in Objects, UserDelete(o) PROVE StepOK
<1> DEFINE marked == [cr[o] EXCEPT !.deleting = TRUE, !.gen = @ + 1]
<1>1. /\ cr[o] \in Resource /\ lastInc[o] \in Nat /\ lastInc \in [Objects -> Nat]
      /\ KnownCopy(o, cr[o]) /\ cr[o].inc # 0 /\ lastInc' = lastInc
      /\ lastInc' \in [Objects -> Nat]
      /\ \A p \in Objects : lastInc'[p] = lastInc[p] /\ lastInc[p] <= lastInc'[p]
      /\ pinned \in [Claims -> SUBSET (Members \X Nat)]
  BY UserFacts DEF UserDelete, Exists, IInv, Types, WorldTypes
<1>2. CASE cr[o].fin
  <2>1. UserWrites(o, marked)
    BY <1>2 DEF UserDelete
  <2>2. /\ marked \in Resource /\ marked.inc = cr[o].inc /\ marked.fin /\ marked.deleting
        /\ marked.bound = cr[o].bound /\ marked.id = cr[o].id /\ marked.inc # 0
    <3>1. cr[o].gen + 1 \in Nat
      BY <1>1 DEF Resource
    <3>2. marked = [cr[o] EXCEPT !.deleting = TRUE, !.gen = cr[o].gen + 1]
      BY <1>1 DEF Resource
    <3> QED BY <1>1, <1>2, <3>1, <3>2 DEF Resource
  <2>3. \A c \in Resource : RecordKept(o, c, cr[o], marked, lastInc[o], membership)
    BY <2>2 DEF RecordKept
  <2>4. CopyOK(o, marked, marked, lastInc'[o], lastId, membership)
    BY <1>1, <2>2 DEF CopyOK, KnownCopy
  <2>5. \A x : x \in pinned'[o] /\ o \in Claims =>
          /\ x \in Members \X Nat /\ RefOf[x[1]] = o /\ x[1] # o
          /\ x[2] = cr[x[1]].inc /\ cr[x[1]].inc # 0 /\ cr[x[1]].fin
    <3> SUFFICES ASSUME o \in Claims, NEW x \in pinned'[o]
                 PROVE  /\ x \in Members \X Nat /\ RefOf[x[1]] = o /\ x[1] # o
                        /\ x[2] = cr[x[1]].inc /\ cr[x[1]].inc # 0 /\ cr[x[1]].fin
      OBVIOUS
    <3>1. pinned'[o] = {<<m, cr[m].inc>> : m \in {n \in Members :
                          Exists(n) /\ cr[n].fin /\ RefOf[n] = o}}
      BY <1>1, <1>2 DEF UserDelete
    <3>2. PICK m \in Members : /\ Exists(m) /\ cr[m].fin /\ RefOf[m] = o
                               /\ x = <<m, cr[m].inc>>
      BY <3>1
    <3>3. m # o /\ cr[m].inc \in Nat
      BY ConstantsAssumption, UserFacts DEF Objects
    <3> QED BY <3>2, <3>3 DEF Exists
  <2>6. \A c \in Claims \ {o} : pinned'[c] = pinned[c]
    BY <1>1 DEF UserDelete
  <2>7. WorldTypes'
    <3>1. UNCHANGED worldVars
      BY <2>1 DEF UserWrites
    <3>2. pinned' \in [Claims -> SUBSET (Members \X Nat)]
      <4>1. CASE o \notin Claims
        BY <1>1, <4>1 DEF UserDelete
      <4>2. CASE o \in Claims
        <5> DEFINE S == {<<m, cr[m].inc>> : m \in {n \in Members :
                           Exists(n) /\ cr[n].fin /\ RefOf[n] = o}}
        <5>1. pinned' = [pinned EXCEPT ![o] = S]
          BY <1>2, <4>2 DEF UserDelete
        <5>2. S \subseteq Members \X Nat
          BY UserFacts DEF Objects
        <5> HIDE DEF S
        <5> QED BY <1>1, <5>1, <5>2
      <4> QED BY <4>1, <4>2
    <3> QED BY <3>1, <3>2 DEF IInv, Types, WorldTypes, worldVars
  <2>8. RecordsMove => PinnedOK'
    <3> SUFFICES ASSUME RecordsMove, NEW c \in Claims PROVE PinOK(c)'
      BY DEF PinnedOK
    <3>1. /\ cr' \in [Objects -> Resource] /\ \A p \in Objects \ {o} : cr'[p] = cr[p]
      BY <2>1, <2>2 DEF UserWrites, IInv, Types, ApiTypes
    <3>2. CASE c # o
      BY <1>1, <2>6, <3>1, <3>2, PinKept
    <3>3. CASE c = o
      <4> SUFFICES ASSUME NEW x \in pinned'[o]
                   PROVE  /\ RefOf[x[1]] = o /\ x[2] # 0 /\ x[2] <= lastInc'[x[1]]
                          /\ cr'[x[1]].inc = x[2] => cr'[x[1]].fin
        BY <3>3 DEF PinOK
      <4>1. /\ x[1] \in Objects \ {o} /\ RefOf[x[1]] = o
            /\ x[2] = cr[x[1]].inc /\ cr[x[1]].inc # 0 /\ cr[x[1]].fin
        BY <2>5, <3>3 DEF Objects
      <4>2. cr[x[1]].inc <= lastInc[x[1]]
        BY <4>1 DEF IInv, ApiOK, KnownCopy, CopyOK
      <4> QED BY <1>1, <3>1, <4>1, <4>2
    <3> QED BY <3>2, <3>3
  <2> HIDE DEF marked
  <2> QED BY <1>1, <1>2, <2>1, <2>2, <2>3, <2>4, <2>6, <2>7, <2>8, UserStep
<1>3. CASE ~cr[o].fin
  <2>1. UserWrites(o, NoResource) /\ pinned' = pinned
    BY <1>3 DEF UserDelete
  <2>2. \A c \in Resource : KnownCopy(o, c)
          => RecordKept(o, c, cr[o], NoResource, lastInc[o], membership)
    BY <1>1, <1>3, NoResourceType DEF RecordKept, KnownCopy, CopyOK
  <2>3. CopyOK(o, NoResource, NoResource, lastInc'[o], lastId, membership)
    BY NoResourceType DEF CopyOK
  <2>4. WorldTypes'
    <3>1. UNCHANGED worldVars
      BY <2>1 DEF UserWrites
    <3> QED BY <2>1, <3>1 DEF IInv, Types, WorldTypes, worldVars
  <2>5. RecordsMove => PinnedOK'
    <3>1. cr' \in [Objects -> Resource]
      BY <2>1, NoResourceType DEF UserWrites, IInv, Types, ApiTypes
    <3> QED BY <1>1, <2>1, <3>1, PinnedKept
  <2> QED BY <1>1, <1>3, <2>1, <2>2, <2>3, <2>4, <2>5, NoResourceType, UserStep
<1> QED BY <1>2, <1>3

-----------------------------------------------------------------------------
(* Timers, the connection, the references, and other Harbor clients *)

LEMMA DriftTimerOK ==
  ASSUME IInv, NEW o \in Objects, DriftTimer(o) PROVE StepOK
<1>1. /\ UNCHANGED <<apiVars, localVars, harborVars, pinned, worldVars>>
      /\ timer' = timer \ {o} /\ queue' = queue \cup {o}
  BY DEF DriftTimer
<1>2. WorldTypes' /\ queue' \subseteq Objects /\ timer' \subseteq Objects
  BY <1>1 DEF IInv, Types, WorldTypes, LocalTypes, worldVars
<1> QED BY <1>1, <1>2, IdleHarbor, WorldStep

LEMMA ConnectionOK ==
  ASSUME IInv, DeleteConnection \/ CreateConnection PROVE StepOK
<1>1. /\ UNCHANGED <<apiVars, timer, localVars, harborVars, pinned, refs>>
      /\ EnqueueDependents
  BY DEF DeleteConnection, CreateConnection
<1>2. queue' \subseteq Objects /\ timer' \subseteq Objects
  BY <1>1 DEF EnqueueDependents, IInv, Types, LocalTypes
<1>3. conn' \in Nat /\ lastUid' \in Nat /\ budget' \in Nat
  BY DEF DeleteConnection, CreateConnection, Fault, IInv, Types, WorldTypes
<1>4. WorldTypes'
  BY <1>1, <1>3 DEF IInv, Types, WorldTypes
<1> QED BY <1>1, <1>2, <1>4, IdleHarbor, WorldStep

LEMMA ReferencesOK ==
  ASSUME IInv, NEW r \in References, LoseReference(r) \/ ReferenceResolves(r)
  PROVE  StepOK
<1>1. /\ UNCHANGED <<apiVars, workerVars, harborVars, pinned, conn, lastUid>>
  BY DEF LoseReference, ReferenceResolves
<1>2. UNCHANGED localVars /\ queue' \subseteq Objects /\ timer' \subseteq Objects
  BY <1>1 DEF workerVars, IInv, Types, LocalTypes
<1>3. refs \subseteq References /\ budget \in Nat
  BY DEF IInv, Types, WorldTypes
<1>4. refs' \subseteq References /\ budget' \in Nat
  BY <1>3 DEF LoseReference, ReferenceResolves, Fault
<1>5. WorldTypes'
  BY <1>1, <1>4 DEF IInv, Types, WorldTypes
<1> QED BY <1>1, <1>2, <1>5, IdleHarbor, WorldStep

LEMMA ForeignOK ==
  ASSUME IInv, UNCHANGED <<apiVars, workerVars, pinned, conn, lastUid, refs>>,
         \E k : Fault(k), HarborGrows
  PROVE  StepOK
<1>1. UNCHANGED localVars /\ queue' \subseteq Objects /\ timer' \subseteq Objects
  BY DEF workerVars, IInv, Types, LocalTypes
<1>2. WorldTypes'
  BY DEF IInv, Types, WorldTypes, Fault
<1> QED BY <1>1, <1>2, WorldStep

LEMMA HarborFacts ==
  ASSUME IInv
  PROVE  /\ lastId \in Nat /\ made \subseteq Clients
         /\ group \in [Groups -> Registration] /\ membership \in [Entities -> Binding]
         /\ \A g \in Groups : group[g].id \in Nat /\ group[g].id <= lastId
         /\ \A e \in Entities : membership[e].id \in Nat /\ membership[e].id <= lastId
BY DEF IInv, Types, HarborOK, Registration, Binding

LEMMA ForeignGroupOK ==
  ASSUME IInv, NEW g \in Groups, ForeignGroup(g) PROVE StepOK
<1>1. /\ UNCHANGED <<apiVars, workerVars, made, pinned, conn, lastUid, refs>>
      /\ Fault("group")
  BY DEF ForeignGroup
<1>2. CASE /\ lastId' = lastId + 1 /\ UNCHANGED membership
           /\ \E ok \in BOOLEAN :
                group' = [group EXCEPT ![g] = [id |-> lastId + 1, compatible |-> ok]]
  <2>1. PICK ok \in BOOLEAN :
          group' = [group EXCEPT ![g] = [id |-> lastId + 1, compatible |-> ok]]
    BY <1>2
  <2>2. [id |-> lastId + 1, compatible |-> ok] \in Registration /\ lastId' \in Nat
    BY <1>2, HarborFacts DEF Registration
  <2>3. group' \in [Groups -> Registration] /\ \A h \in Groups : group'[h].id <= lastId'
    BY <1>2, <2>1, <2>2, HarborFacts
  <2>4. \A e \in Entities : membership[e].id <= lastId'
    BY <1>2, HarborFacts
  <2>5. HarborOK'
    BY <1>1, <1>2, <2>2, <2>3, <2>4, HarborFacts DEF HarborOK
  <2>6. HarborGrows
    BY <1>2, <2>5, HarborFacts DEF HarborGrows, BindingsKept
  <2> QED BY <1>1, <2>6, ForeignOK
<1>3. CASE /\ group' = [group EXCEPT ![g] = NoGroup] /\ UNCHANGED lastId
           /\ membership' = [membership EXCEPT ![g] = NoBinding]
  <2>1. group' \in [Groups -> Registration] /\ \A h \in Groups : group'[h].id <= lastId
    BY <1>3, HarborFacts, NothingInHarbor
  <2>2. /\ membership' \in [Entities -> Binding]
        /\ \A e \in Entities : membership'[e].id = 0 \/ membership'[e] = membership[e]
    BY <1>3, HarborFacts, NothingInHarbor
  <2>3. \A e \in Entities : membership'[e].id <= lastId
    BY <2>2, HarborFacts
  <2>4. HarborOK'
    BY <1>1, <1>3, <2>1, <2>2, <2>3, HarborFacts DEF HarborOK
  <2>5. HarborGrows
    BY <1>3, <2>2, <2>4, HarborFacts DEF HarborGrows, BindingsKept
  <2> QED BY <1>1, <2>5, ForeignOK
<1> QED BY <1>2, <1>3 DEF ForeignGroup

LEMMA ForeignMembershipOK ==
  ASSUME IInv, NEW e \in Entities, ForeignMembership(e) PROVE StepOK
<1>1. /\ UNCHANGED <<apiVars, workerVars, group, made, pinned, conn, lastUid, refs>>
      /\ Fault("membership") /\ <<Env, 0>> \in Clients
  BY DEF ForeignMembership, Clients
<1>2. /\ membership' \in [Entities -> Binding] /\ lastId' \in Nat /\ lastId <= lastId'
      /\ \A x \in Entities : \/ membership'[x].id = membership[x].id
                             \/ membership'[x].id = 0
                             \/ membership'[x].id = lastId + 1 /\ lastId' = lastId + 1
  <2>1. CASE /\ lastId' = lastId + 1
             /\ \E r \in Roles : membership' = [membership EXCEPT ![e] =
                  [id |-> lastId + 1, role |-> r, maker |-> <<Env, 0>>,
                   writer |-> <<Env, 0>>]]
    <3>1. PICK r \in Roles : membership' = [membership EXCEPT ![e] =
                  [id |-> lastId + 1, role |-> r, maker |-> <<Env, 0>>,
                   writer |-> <<Env, 0>>]]
      BY <2>1
    <3> DEFINE b == [id |-> lastId + 1, role |-> r, maker |-> <<Env, 0>>,
                     writer |-> <<Env, 0>>]
    <3>2. b \in Binding /\ b.id = lastId + 1 /\ lastId + 1 \in Nat
      BY <1>1, HarborFacts DEF Binding
    <3>3. membership' = [membership EXCEPT ![e] = b]
      BY <3>1
    <3> HIDE DEF b
    <3> QED BY <2>1, <3>2, <3>3, HarborFacts
  <2>2. CASE UNCHANGED lastId /\ membership' = [membership EXCEPT ![e] = NoBinding]
    BY <2>2, HarborFacts, NothingInHarbor
  <2>3. CASE /\ UNCHANGED lastId
             /\ \E r \in Roles : membership' = [membership EXCEPT ![e].role = r,
                                                                  ![e].writer = <<Env, 0>>]
    <3>1. PICK r \in Roles : membership' = [membership EXCEPT ![e].role = r,
                                                              ![e].writer = <<Env, 0>>]
      BY <2>3
    <3>2. membership' \in [Entities -> Binding]
      BY <1>1, <3>1, HarborFacts DEF Binding
    <3>3. \A x \in Entities : membership'[x].id = membership[x].id
      BY <3>1, HarborFacts DEF Binding
    <3> QED BY <2>3, <3>2, <3>3, HarborFacts
  <2> QED BY <2>1, <2>2, <2>3 DEF ForeignMembership
<1>3. \A x \in Entities : membership'[x].id <= lastId'
  BY <1>2, HarborFacts
<1>4. \A g \in Groups : group'[g].id <= lastId'
  BY <1>1, <1>2, HarborFacts
<1>5. HarborOK'
  BY <1>1, <1>2, <1>3, <1>4, HarborFacts DEF HarborOK
<1>6. BindingsKept(membership, membership', lastId)
  BY <1>2, HarborFacts DEF BindingsKept
<1>7. HarborGrows
  BY <1>2, <1>5, <1>6 DEF HarborGrows
<1> QED BY <1>1, <1>7, ForeignOK

-----------------------------------------------------------------------------
(* The invariant *)

LEMMA Initially == Init => IInv
<1> SUFFICES ASSUME Init PROVE IInv
  OBVIOUS
<1>1. ApiTypes
  BY NoResourceType DEF Init, ApiTypes
<1>2. LocalTypes
  BY NoResourceType, AnyObjectType, ReasonTypes DEF Init, LocalTypes, PCs
<1>3. WorldTypes
  <2>1. lastUid \in {0, 1} /\ conn = lastUid /\ budget = MaxDisturb /\ refs = References
    BY ConstantsAssumption DEF Init
  <2>2. pinned = [c \in Claims |-> {}]
    BY DEF Init
  <2> QED BY <2>1, <2>2, BoundsAssumption DEF WorldTypes
<1>4. HarborOK
  <2>1. /\ group = [g \in Groups |-> NoGroup] /\ membership = [e \in Entities |-> NoBinding]
        /\ lastId = 0 /\ made = {}
    BY DEF Init
  <2>2. /\ group \in [Groups -> Registration] /\ membership \in [Entities -> Binding]
        /\ \A g \in Groups : group[g].id = 0
        /\ \A e \in Entities : membership[e].id = 0
    BY <2>1, NothingInHarbor
  <2> QED BY <2>1, <2>2 DEF HarborOK
<1>5. ApiOK
  <2>1. \A o \in Objects : cr[o] = NoResource /\ cache[o] = NoResource
    BY DEF Init
  <2> QED BY <2>1, NoResourceType DEF ApiOK, KnownCopy, CopyOK
<1>6. Workings
  <2>1. \A w \in Workers : pc[w] = "idle" /\ seen[w] = 0
    BY DEF Init
  <2>2. lastId = 0
    BY DEF Init
  <2> QED BY <2>1, <2>2 DEF Workings, WorkerOK
<1>7. PinnedOK
  BY DEF Init, PinnedOK, PinOK
<1> QED BY <1>1, <1>2, <1>3, <1>4, <1>5, <1>6, <1>7 DEF IInv, Types

LEMMA Stuttering == ASSUME IInv, UNCHANGED vars PROVE StepOK
<1>1. /\ UNCHANGED <<apiVars, workerVars, harborVars, pinned, worldVars>>
  BY DEF vars
<1>2. UNCHANGED localVars /\ queue' \subseteq Objects /\ timer' \subseteq Objects
  BY <1>1 DEF workerVars, IInv, Types, LocalTypes
<1>3. WorldTypes'
  BY <1>1 DEF IInv, Types, WorldTypes, worldVars
<1> QED BY <1>1, <1>2, <1>3, IdleHarbor, WorldStep

LEMMA EveryStep == ASSUME IInv, [Next]_vars PROVE StepOK
<1>1. \A o \in Objects : LoadResource(o) \/ SyncCache(o) \/ DriftTimer(o) => StepOK
  BY LoadResourceOK, SyncCacheOK, DriftTimerOK
<1>2. ReconcileMember \/ ReconcileClaim => StepOK
  BY ReconcileMemberOK, ReconcileClaimOK
<1>3. \A o \in Objects : UserCreate(o) \/ UserEdit(o) \/ UserDelete(o) => StepOK
  BY UserCreateOK, UserEditOK, UserDeleteOK
<1>4. Crash \/ DeleteConnection \/ CreateConnection => StepOK
  BY CrashOK, ConnectionOK
<1>5. \A r \in References : LoseReference(r) \/ ReferenceResolves(r) => StepOK
  BY ReferencesOK
<1>6. \A g \in Groups : ForeignGroup(g) => StepOK
  BY ForeignGroupOK
<1>7. \A e \in Entities : ForeignMembership(e) => StepOK
  BY ForeignMembershipOK
<1> QED BY <1>1, <1>2, <1>3, <1>4, <1>5, <1>6, <1>7, Stuttering DEF Next

LEMMA Inductive == Spec => []IInv
<1>1. IInv /\ [Next]_vars => IInv'
  BY EveryStep DEF StepOK
<1> QED BY Initially, <1>1, PTL DEF Spec

-----------------------------------------------------------------------------
(* Theorems *)

\* The variables of both reconcilers, the cache, Harbor and the history keep
\* their types whatever users, other clients, faults and crashes do.
THEOREM TypeCorrect == Spec => []TypeOK
<1>1. IInv => TypeOK
  BY DEF IInv, Types, ApiTypes, LocalTypes, WorldTypes, HarborOK, TypeOK
<1> QED BY Inductive, <1>1, PTL

\* However many Members refer to a claim and whatever they and the cache do, a
\* deleted claim outlives those at work with it (hasActiveMembers).
THEOREM ClaimsWait == Spec => ClaimOutlivesItsMembers
<1>1. IInv /\ [Next]_vars
      => [\A c \in Claims : Exists(c) /\ cr[c].fin /\ cr'[c].inc = 0
            => \A x \in pinned[c] : cr[x[1]].inc # x[2]]_vars
  BY EveryStep DEF StepOK, DepartureOK, Unpinned, Objects
<1> QED BY Inductive, <1>1, PTL DEF Spec, ClaimOutlivesItsMembers

\* Under Delete a Member never leaves its recorded membership behind
\* (ensureMemberAbsent).
THEOREM MembershipsAreRemoved == Spec => MembershipGoneFirst
<1>1. IInv /\ [Next]_vars
      => [\A m \in Members :
            /\ Exists(m) /\ cr'[m].inc = 0
            /\ cr[m].deletionPolicy = "Delete" /\ cr[m].id # 0
            => \A e \in Entities : membership'[e].id # cr[m].id]_vars
  BY EveryStep DEF StepOK, DepartureOK, Objects
<1> QED BY Inductive, <1>1, PTL DEF Spec, MembershipGoneFirst

\* A worker with an old copy of a Member changes no membership the Member does
\* not hold the finalizer and the connection for.
THEOREM MembershipsAreGuarded == Spec => GuardedMembership
<1>1. ASSUME IInv, Mutation, membership' # membership
      PROVE  /\ cr[cur["member"]].inc = M.inc /\ cr[cur["member"]].fin
             /\ cr[cur["member"]].bound = M.bound /\ M.bound # 0
  <2>1. pc["member"] # "idle"
    BY <1>1 DEF Mutation, CreateProjectMember, UpdateProjectMemberRole, EnsureMemberAbsent
  <2>2. cur["member"] \in Members /\ M.inc # 0 /\ (M.id # 0 => M.fin)
        /\ KnownCopy(cur["member"], M) /\ PositionOK("member", pc["member"], M, membership)
    BY <1>1, <2>1, MemberFacts
  <2>3. CASE CreateProjectMember \/ UpdateProjectMemberRole
    <3>1. M.fin /\ ~M.deleting /\ M.bound # 0
      BY <2>2, <2>3 DEF CreateProjectMember, UpdateProjectMemberRole, PositionOK
    <3> QED BY <2>2, <3>1 DEF KnownCopy, CopyOK
  <2>4. CASE EnsureMemberAbsent
    <3>1. /\ M.deleting /\ M.bound # 0 /\ M.deletionPolicy # "Orphan" /\ M.id # 0
          /\ membership' = Without(M.id)
      BY <1>1, <2>2, <2>4 DEF EnsureMemberAbsent, DeleteProjectMember, PositionOK
    <3>2. \E e \in Entities : membership[e].id = M.id
      <4> SUFFICES ASSUME \A e \in Entities : membership[e].id # M.id PROVE FALSE
        OBVIOUS
      <4>1. Without(M.id) = membership
        BY <1>1, HarborFacts DEF Without
      <4> QED BY <1>1, <3>1, <4>1
    <3>3. ~Gone(M, membership)
      BY <3>1, <3>2 DEF Gone
    <3> QED BY <2>2, <3>1, <3>3 DEF KnownCopy, CopyOK
  <2> QED BY <1>1, <2>3, <2>4 DEF Mutation
<1>2. IInv => [Mutation /\ membership' # membership =>
                 /\ cr[cur["member"]].inc = M.inc
                 /\ cr[cur["member"]].fin
                 /\ cr[cur["member"]].bound = M.bound /\ M.bound # 0]_vars
  BY <1>1
<1> QED BY Inductive, <1>2, PTL DEF GuardedMembership

-----------------------------------------------------------------------------
(* The role a Ready Member vouches for, and whose membership it may change  *)
(*                                                                         *)
(* A status written from an old copy must not vouch for a newer spec: the  *)
(* generations of all copies are in order (GenOK).  A Member found to own  *)
(* a membership under creationPolicy Create made one before (MadeOK).      *)

\* Copy c of a Member of which the API server has r.
GenOK(c, r) ==
  c.inc # 0 /\ c.inc = r.inc =>
    /\ r.obsGen <= c.gen /\ c.gen <= r.gen
    /\ c.gen = r.gen => c.role = r.role

Recorded(c) == c.id # 0 \/ c.reason = "Reconciled"

\* A Member that may not adopt records only what stands for one of its own.
MadeOK(m, c, md) ==
  c.inc # 0 /\ c.creationPolicy = "Create" /\ Recorded(c) => <<m, c.inc>> \in md

\* What the incarnation c of m wrote last under this id has the role c asks for.
RoleIn(m, id, c, mb) ==
  \A e \in Entities :
    mb[e].id = id /\ mb[e].writer = <<m, c.inc>> => mb[e].role = c.role

ReadyOK(m, r, mb) ==
  r.inc # 0 /\ r.obsGen = r.gen /\ r.reason = "Reconciled" => RoleIn(m, r.id, r, mb)

\* The copies r at the API server and k in the cache.
CopiesOK(m, r, k, mb, md) ==
  /\ GenOK(r, r) /\ GenOK(k, r)
  /\ MadeOK(m, r, md) /\ MadeOK(m, k, md)
  /\ ReadyOK(m, r, mb)

\* What the next call p of the worker needs of its copy c and of what it found.
CallOK(p, m, c, id, mb, md) ==
  /\ p \in {"update", "ready"} /\ c.creationPolicy = "Create" => <<m, c.inc>> \in md
  /\ p = "ready" => RoleIn(m, id, c, mb)

WorkOK(p, m, c, id, r, k, mb, md) ==
  p # "idle" =>
    /\ GenOK(c, r) /\ (c.inc = k.inc => c.gen <= k.gen)
    /\ MadeOK(m, c, md)
    /\ CallOK(p, m, c, id, mb, md)

\* A Member writes the membership of its own entity only.
WritersOK(mb) ==
  \A e \in Entities, m \in Members, i \in Nat :
    mb[e].writer = <<m, i>> => e = EntityOf(m)

RoleInv ==
  /\ \A m \in Members : CopiesOK(m, cr[m], cache[m], membership, made)
  /\ WorkOK(pc["member"], cur["member"], mem["member"], seen["member"],
            cr[cur["member"]], cache[cur["member"]], membership, made)
  /\ WritersOK(membership)
  /\ err["member"] # "Reconciled"

LEMMA RoleTypes ==
  ASSUME IInv, NEW o \in Objects
  PROVE  /\ cr[o] \in Resource /\ cache[o] \in Resource
         /\ cr[o].gen \in Nat /\ cr[o].obsGen \in Nat /\ cr[o].inc \in Nat
         /\ cache[o].gen \in Nat /\ cache[o].obsGen \in Nat /\ cache[o].inc \in Nat
BY DEF IInv, Types, ApiTypes, Resource

LEMMA FreshResource ==
  NoResource.reason # "Reconciled" /\ NoResource.inc = 0 /\ NoResource.id = 0
BY NoResourceType DEF NoResource

LEMMA NothingRecorded ==
  ASSUME NEW m, NEW c, NEW md, NEW mb, c.inc = 0
  PROVE  MadeOK(m, c, md) /\ GenOK(c, c) /\ ReadyOK(m, c, mb)
BY DEF MadeOK, GenOK, ReadyOK

\* What is new in Harbor was not written by m's incarnation c, or has c's role.
Keeps(m, c, mb, mb2) ==
  \A e \in Entities : \/ mb2[e] = mb[e]
                      \/ mb2[e].writer # <<m, c.inc>>
                      \/ mb2[e].role = c.role

LEMMA RoleInKept ==
  ASSUME NEW m, NEW id, NEW c, NEW mb, NEW mb2, RoleIn(m, id, c, mb), Keeps(m, c, mb, mb2)
  PROVE  RoleIn(m, id, c, mb2)
BY DEF RoleIn, Keeps

LEMMA CopiesKept ==
  ASSUME NEW m, NEW r, NEW k, NEW mb, NEW mb2, NEW md, NEW md2,
         CopiesOK(m, r, k, mb, md), md \subseteq md2,
         r.inc # 0 /\ r.obsGen = r.gen => Keeps(m, r, mb, mb2)
  PROVE  CopiesOK(m, r, k, mb2, md2)
<1>1. MadeOK(m, r, md2) /\ MadeOK(m, k, md2)
  BY DEF CopiesOK, MadeOK
<1>2. ReadyOK(m, r, mb2)
  BY RoleInKept DEF CopiesOK, ReadyOK
<1> QED BY <1>1, <1>2 DEF CopiesOK

\* Harbor after a step of anyone but the worker of the Members.
OthersHarbor ==
  /\ made' = made
  /\ \A e \in Entities : \/ membership'[e] = membership[e]
                         \/ membership'[e].writer = <<Env, 0>>

LEMMA OthersKeep ==
  ASSUME OthersHarbor, NEW m \in Members, NEW c
  PROVE  Keeps(m, c, membership, membership')
<1>1. <<m, c.inc>> # <<Env, 0>>
  BY ConstantsAssumption DEF Objects
<1> QED BY <1>1 DEF OthersHarbor, Keeps

LEMMA OthersWriters ==
  ASSUME RoleInv, OthersHarbor PROVE WritersOK(membership')
<1>1. \A m \in Members, i \in Nat : <<m, i>> # <<Env, 0>>
  BY ConstantsAssumption DEF Objects
<1> QED BY <1>1 DEF RoleInv, WritersOK, OthersHarbor

MemberLocals ==
  <<pc["member"], cur["member"], mem["member"], err["member"], seen["member"]>>

LEMMA WorkStays ==
  ASSUME IInv, RoleInv, OthersHarbor, UNCHANGED MemberLocals,
         pc["member"] # "idle" =>
           /\ GenOK(mem["member"], cr'[cur["member"]])
           /\ mem["member"].inc = cache'[cur["member"]].inc
              => mem["member"].gen <= cache'[cur["member"]].gen
  PROVE  /\ WorkOK(pc["member"], cur["member"], mem["member"], seen["member"],
                   cr[cur["member"]], cache[cur["member"]], membership, made)'
         /\ err'["member"] # "Reconciled"
<1>1. /\ pc'["member"] = pc["member"] /\ cur'["member"] = cur["member"]
      /\ mem'["member"] = mem["member"] /\ seen'["member"] = seen["member"]
      /\ err'["member"] = err["member"]
  BY DEF MemberLocals
<1>2. pc["member"] # "idle" => cur["member"] \in Members
  BY MemberFacts
<1>3. pc["member"] # "idle" =>
        CallOK(pc["member"], cur["member"], mem["member"], seen["member"], membership', made')
  BY <1>2, OthersKeep, RoleInKept DEF RoleInv, WorkOK, CallOK, OthersHarbor
<1>4. pc["member"] # "idle" => MadeOK(cur["member"], mem["member"], made')
  BY DEF RoleInv, WorkOK, OthersHarbor
<1> QED BY <1>1, <1>3, <1>4 DEF RoleInv, WorkOK

\* A step that leaves the Members and their worker alone.
LEMMA RoleStays ==
  ASSUME IInv, RoleInv, OthersHarbor, UNCHANGED MemberLocals,
         \A m \in Members : cr'[m] = cr[m] /\ cache'[m] = cache[m]
  PROVE  RoleInv'
<1>1. \A m \in Members : CopiesOK(m, cr[m], cache[m], membership, made)'
  BY OthersKeep, CopiesKept DEF RoleInv, OthersHarbor
<1>2. pc["member"] # "idle" => cur["member"] \in Members
  BY MemberFacts
<1>3. pc["member"] # "idle" =>
        /\ GenOK(mem["member"], cr'[cur["member"]])
        /\ mem["member"].inc = cache'[cur["member"]].inc
           => mem["member"].gen <= cache'[cur["member"]].gen
  BY <1>2 DEF RoleInv, WorkOK
<1> QED BY <1>1, <1>3, WorkStays, OthersWriters DEF RoleInv

\* Harbor after a step of the worker of the Members.
WorkerHarbor ==
  /\ made \subseteq made'
  /\ \A e \in Entities :
       \/ membership'[e] = membership[e]
       \/ membership'[e].writer = <<Env, 0>>
       \/ /\ membership'[e].writer = Me /\ e = MyEntity
          /\ membership'[e].role = M.role

LEMMA QuietHarbor ==
  ASSUME UNCHANGED <<membership, made>> PROVE WorkerHarbor
BY DEF WorkerHarbor

\* Copy d has the spec of copy c.
SameSpec(c, d) ==
  /\ d.inc = c.inc /\ d.gen = c.gen
  /\ d.role = c.role /\ d.creationPolicy = c.creationPolicy

\* What the worker may write in place of its copy.
Writable(rec) ==
  /\ SameSpec(M, rec) /\ rec.obsGen \in {M.obsGen, M.gen}
  /\ MadeOK(cur["member"], rec, made')
  /\ ReadyOK(cur["member"], rec, membership')

\* While a Member is Ready, a copy of it that the worker holds has its role.
LEMMA ReadyCopyCurrent ==
  ASSUME IInv, RoleInv, pc["member"] # "idle", cr[cur["member"]].inc = M.inc,
         cr[cur["member"]].obsGen = cr[cur["member"]].gen
  PROVE  M.role = cr[cur["member"]].role
<1> DEFINE r == cr[cur["member"]]
<1>1. cur["member"] \in Members /\ M.inc # 0 /\ M.gen \in Nat
  BY MemberFacts DEF Resource
<1>2. r.gen \in Nat
  BY <1>1, RoleTypes DEF Objects
<1>3. r.obsGen <= M.gen /\ M.gen <= r.gen /\ (M.gen = r.gen => M.role = r.role)
  BY <1>1 DEF RoleInv, WorkOK, GenOK, M
<1> QED BY <1>1, <1>2, <1>3

\* A Member that is not written keeps what is known of it.
LEMMA WorkerKeepsCopies ==
  ASSUME IInv, RoleInv, pc["member"] # "idle", WorkerHarbor, NEW m \in Members
  PROVE  CopiesOK(m, cr[m], cache[m], membership', made')
<1>1. ASSUME cr[m].inc # 0, cr[m].obsGen = cr[m].gen
      PROVE  Keeps(m, cr[m], membership, membership')
  <2> SUFFICES ASSUME NEW e \in Entities, membership'[e] # membership[e],
                      membership'[e].writer = <<m, cr[m].inc>>
               PROVE  membership'[e].role = cr[m].role
    BY DEF Keeps
  <2>1. <<m, cr[m].inc>> # <<Env, 0>>
    BY ConstantsAssumption DEF Objects
  <2>2. <<m, cr[m].inc>> = <<cur["member"], M.inc>> /\ membership'[e].role = M.role
    BY <2>1 DEF WorkerHarbor, Me
  <2>3. m = cur["member"] /\ cr[m].inc = M.inc
    BY <2>2
  <2> QED BY <1>1, <2>2, <2>3, ReadyCopyCurrent
<1>2. made \subseteq made'
  BY DEF WorkerHarbor
<1> QED BY <1>1, <1>2, CopiesKept DEF RoleInv

LEMMA WorkerWriters ==
  ASSUME IInv, RoleInv, pc["member"] # "idle", WorkerHarbor
  PROVE  WritersOK(membership')
<1> SUFFICES ASSUME NEW e \in Entities, NEW m \in Members, NEW i \in Nat,
                    membership'[e].writer = <<m, i>>
             PROVE  e = EntityOf(m)
  BY DEF WritersOK
<1>1. <<m, i>> # <<Env, 0>>
  BY ConstantsAssumption DEF Objects
<1>2. CASE membership'[e] = membership[e]
  BY <1>2 DEF RoleInv, WritersOK
<1>3. CASE membership'[e].writer = Me /\ e = MyEntity
  BY <1>3 DEF Me, MyEntity
<1> QED BY <1>1, <1>2, <1>3 DEF WorkerHarbor

LEMMA WrittenCopies ==
  ASSUME IInv, RoleInv, pc["member"] # "idle", memFresh["member"], WorkerHarbor,
         NEW rec, rec = NoResource \/ Writable(rec)
  PROVE  /\ CopiesOK(cur["member"], rec, cache[cur["member"]], membership', made')
         /\ GenOK(M, rec)
<1> DEFINE m == cur["member"]  r == cr[m]  k == cache[m]
<1>1. /\ m \in Members /\ M.inc # 0 /\ M.gen \in Nat /\ M.obsGen \in Nat /\ M = r
      /\ "member" \in Workers
  <2>1. "member" \in Workers /\ m \in Members /\ M \in Resource /\ M.inc # 0
    BY MemberFacts
  <2>2. M = r
    BY <2>1, WorkerFacts DEF M
  <2> QED BY <2>1, <2>2 DEF Resource
<1>2. k.gen \in Nat /\ k.inc \in Nat
  BY <1>1, RoleTypes DEF Objects
<1>3. CopiesOK(m, r, k, membership', made')
  BY <1>1, WorkerKeepsCopies
<1>4. M.inc = k.inc => M.gen <= k.gen
  BY DEF RoleInv, WorkOK, M
<1>5. CASE rec = NoResource
  <2>1. rec.inc = 0
    BY <1>5, FreshResource
  <2>2. GenOK(k, rec) /\ GenOK(M, rec)
    BY <1>1, <2>1 DEF GenOK
  <2> QED BY <1>3, <2>1, <2>2, NothingRecorded DEF CopiesOK
<1>6. CASE Writable(rec)
  <2>1. /\ rec.inc = M.inc /\ rec.gen = M.gen /\ rec.role = M.role
        /\ rec.obsGen = M.obsGen \/ rec.obsGen = M.gen
        /\ MadeOK(m, rec, made') /\ ReadyOK(m, rec, membership')
    BY <1>6 DEF Writable, SameSpec
  <2>2. M.obsGen <= M.gen
    BY <1>1, <1>3 DEF CopiesOK, GenOK
  <2>3. GenOK(rec, rec) /\ GenOK(M, rec)
    BY <1>1, <2>1, <2>2 DEF GenOK
  <2>4. GenOK(k, rec)
    BY <1>1, <1>2, <1>3, <1>4, <2>1 DEF GenOK, CopiesOK
  <2> QED BY <1>3, <2>1, <2>3, <2>4 DEF CopiesOK
<1> QED BY <1>5, <1>6

\* A step of the worker of the Members, whatever it writes.
LEMMA WorkerRole ==
  ASSUME IInv, RoleInv, pc["member"] # "idle", cache' = cache, WorkerHarbor,
         err'["member"] # "Reconciled",
         \/ UNCHANGED cr
         \/ \E rec : /\ Store("member", rec) /\ memFresh["member"]
                     /\ rec = NoResource \/ Writable(rec),
         \/ pc'["member"] = "idle"
         \/ /\ cur'["member"] = cur["member"] /\ SameSpec(M, M')
            /\ MadeOK(cur["member"], M', made')
            /\ CallOK(pc'["member"], cur["member"], M', seen'["member"], membership', made')
  PROVE  RoleInv'
<1> DEFINE m == cur["member"]
<1>0. m \in Members /\ cr \in [Objects -> Resource] /\ m \in Objects
  BY MemberFacts DEF IInv, Types, ApiTypes, Objects
<1>1. /\ \A n \in Members : CopiesOK(n, cr'[n], cache[n], membership', made')
      /\ GenOK(M, cr'[m])
  <2>1. CASE UNCHANGED cr
    BY <2>1, WorkerKeepsCopies DEF RoleInv, WorkOK, M
  <2>2. ASSUME NEW rec, Store("member", rec), memFresh["member"],
               rec = NoResource \/ Writable(rec)
        PROVE  /\ \A n \in Members : CopiesOK(n, cr'[n], cache[n], membership', made')
               /\ GenOK(M, cr'[m])
    <3>1. cr'[m] = rec /\ \A n \in Members \ {m} : cr'[n] = cr[n]
      BY <1>0, <2>2 DEF Store, Objects
    <3> QED BY <2>2, <3>1, WrittenCopies, WorkerKeepsCopies
  <2> QED BY <2>1, <2>2
<1>2. WorkOK(pc["member"], cur["member"], mem["member"], seen["member"],
             cr[cur["member"]], cache[cur["member"]], membership, made)'
  <2>1. CASE pc'["member"] = "idle"
    BY <2>1 DEF WorkOK
  <2>2. CASE /\ cur'["member"] = cur["member"] /\ SameSpec(M, M')
             /\ MadeOK(cur["member"], M', made')
             /\ CallOK(pc'["member"], cur["member"], M', seen'["member"], membership', made')
    <3>1. GenOK(M', cr'[m])
      BY <1>1, <2>2 DEF GenOK, SameSpec
    <3>2. M'.inc = cache[m].inc => M'.gen <= cache[m].gen
      BY <2>2 DEF RoleInv, WorkOK, SameSpec, M
    <3> QED BY <2>2, <3>1, <3>2 DEF WorkOK, M
  <2> QED BY <2>1, <2>2
<1> QED BY <1>1, <1>2, WorkerWriters DEF RoleInv

-----------------------------------------------------------------------------
(* The ways a step of the worker of the Members ends *)

LEMMA EmptyReason == "" # "Reconciled"
OBVIOUS

LEMMA MemberLocalTypes ==
  ASSUME IInv
  PROVE  /\ pc \in [Workers -> PCs] /\ cur \in [Workers -> Objects]
         /\ mem \in [Workers -> Resource] /\ memFresh \in [Workers -> BOOLEAN]
         /\ err \in [Workers -> Reasons] /\ seen \in [Workers -> Nat]
         /\ "member" \in Workers /\ "claim" \in Workers
BY DEF IInv, Types, LocalTypes, Workers

LEMMA CopyMade ==
  ASSUME IInv, RoleInv, pc["member"] # "idle", WorkerHarbor
  PROVE  /\ MadeOK(cur["member"], M, made') /\ SameSpec(M, M)
         /\ made \subseteq made'
BY DEF RoleInv, WorkOK, MadeOK, WorkerHarbor, SameSpec, M

LEMMA ReturnRole ==
  ASSUME IInv, RoleInv, pc["member"] # "idle", NEW r, NEW d, Return("member", r, d),
         UNCHANGED <<cr, cache>>, WorkerHarbor
  PROVE  RoleInv'
<1>1. pc'["member"] = "idle" /\ err'["member"] = ""
  BY MemberLocalTypes DEF Return
<1> QED BY <1>1, EmptyReason, WorkerRole

LEMMA GotoRole ==
  ASSUME IInv, RoleInv, pc["member"] # "idle", NEW p, NEW id, Goto("member", p, M, id),
         UNCHANGED <<cr, cache>>, WorkerHarbor,
         CallOK(p, cur["member"], M, id, membership', made')
  PROVE  RoleInv'
<1>1. /\ pc'["member"] = p /\ cur' = cur /\ M' = M /\ seen'["member"] = id
      /\ err'["member"] # "Reconciled"
  BY MemberLocalTypes DEF Goto, RoleInv, M
<1> QED BY <1>1, CopyMade, WorkerRole

LEMMA CallFailedRole ==
  ASSUME IInv, RoleInv, pc["member"] # "idle", NEW reason, reason # "Reconciled",
         CallFailed("member", reason), UNCHANGED <<cr, cache>>, WorkerHarbor
  PROVE  RoleInv'
<1>1. /\ pc'["member"] = "error" /\ cur' = cur /\ M' = M /\ seen' = seen
      /\ err'["member"] = reason
  BY MemberLocalTypes DEF CallFailed, M
<1>2. CallOK("error", cur["member"], M, seen["member"], membership', made')
  BY DEF CallOK
<1> QED BY <1>1, <1>2, CopyMade, WorkerRole

LEMMA RefusedRole ==
  ASSUME IInv, RoleInv, pc["member"] # "idle", Refused("member"),
         UNCHANGED <<cache, membership, made>>
  PROVE  RoleInv'
BY ReturnRole, QuietHarbor DEF Refused

LEMMA PersistRole ==
  ASSUME IInv, RoleInv, pc["member"] # "idle", NEW p, NEW rec, Persist("member", rec, p),
         UNCHANGED <<cache, membership, made>>, Writable(rec),
         p \notin {"update", "ready"}
  PROVE  RoleInv'
<1>1. CASE memFresh["member"] /\ Store("member", rec)
           /\ Goto("member", p, rec, seen["member"])
  <2>1. /\ pc'["member"] = p /\ cur' = cur /\ M' = rec /\ err'["member"] # "Reconciled"
    BY <1>1, MemberLocalTypes DEF Goto, RoleInv, M
  <2>2. CallOK(p, cur["member"], rec, seen'["member"], membership', made')
    BY DEF CallOK
  <2> QED BY <1>1, <2>1, <2>2, QuietHarbor, WorkerRole DEF Writable
<1>2. CASE Refused("member")
  BY <1>2, RefusedRole
<1> QED BY <1>1, <1>2 DEF Persist

LEMMA PersistAndReturnRole ==
  ASSUME IInv, RoleInv, pc["member"] # "idle", NEW r, NEW d, NEW rec,
         PersistAndReturn("member", rec, r, d), UNCHANGED <<cache, membership, made>>,
         rec = NoResource \/ Writable(rec)
  PROVE  RoleInv'
<1>1. CASE memFresh["member"] /\ Store("member", rec) /\ Return("member", r, d)
  <2>1. pc'["member"] = "idle" /\ err'["member"] = ""
    BY <1>1, MemberLocalTypes DEF Return
  <2> QED BY <1>1, <2>1, EmptyReason, QuietHarbor, WorkerRole
<1>2. CASE Refused("member")
  BY <1>2, RefusedRole
<1> QED BY <1>1, <1>2 DEF PersistAndReturn

LEMMA SetStatusRole ==
  ASSUME IInv, RoleInv, pc["member"] # "idle", NEW rec, NEW reason, NEW r, NEW d,
         SetStatusAndReturn("member", rec, reason, r, d),
         UNCHANGED <<cache, membership, made>>, Writable(Marked(rec, reason))
  PROVE  RoleInv'
<1>1. CASE PersistAndReturn("member", Marked(rec, reason), r, d)
  BY <1>1, PersistAndReturnRole
<1>2. CASE Return("member", r, d) /\ UNCHANGED <<cr, cacheFresh>>
  BY <1>2, ReturnRole, QuietHarbor
<1> QED BY <1>1, <1>2 DEF SetStatusAndReturn

\* A status other than Ready promises nothing.
LEMMA MarkedWritable ==
  ASSUME IInv, RoleInv, pc["member"] # "idle", UNCHANGED <<membership, made>>,
         NEW reason, reason # "Reconciled"
  PROVE  Writable(Marked(M, reason))
<1> DEFINE rec == Marked(M, reason)
<1>1. /\ rec.inc = M.inc /\ rec.gen = M.gen /\ rec.role = M.role /\ rec.obsGen = M.gen
      /\ rec.creationPolicy = M.creationPolicy /\ rec.id = M.id /\ rec.reason = reason
  BY MemberFacts DEF Marked, Resource
<1>2. MadeOK(cur["member"], rec, made') /\ ReadyOK(cur["member"], rec, membership')
  BY <1>1, CopyMade, QuietHarbor DEF MadeOK, Recorded, ReadyOK
<1> HIDE DEF rec
<1>3. Writable(rec)
  BY <1>1, <1>2 DEF Writable, SameSpec
<1> QED BY <1>3 DEF rec

LEMMA FailRole ==
  ASSUME IInv, RoleInv, pc["member"] # "idle", NEW reason, reason # "Reconciled",
         Fail("member", reason), UNCHANGED <<cache, membership, made>>
  PROVE  RoleInv'
BY MarkedWritable, SetStatusRole DEF Fail, M

LEMMA RemoveFinalizerRole ==
  ASSUME IInv, RoleInv, pc["member"] # "idle", RemoveFinalizer("member"),
         UNCHANGED <<cache, membership, made>>
  PROVE  RoleInv'
<1>1. CASE PersistAndReturn("member", NoResource, FALSE, FALSE)
  BY <1>1, PersistAndReturnRole
<1>2. CASE Return("member", FALSE, FALSE) /\ UNCHANGED <<cr, cacheFresh>>
  BY <1>2, ReturnRole, QuietHarbor
<1> QED BY <1>1, <1>2 DEF RemoveFinalizer

LEMMA WithoutConnectionRole ==
  ASSUME IInv, RoleInv, pc["member"] # "idle", NEW reason, reason # "Reconciled", NEW nf,
         WithoutConnection("member", reason, nf), UNCHANGED <<cache, membership, made>>
  PROVE  RoleInv'
BY RemoveFinalizerRole, FailRole DEF WithoutConnection

\* A write that leaves spec, status and ids as the API server has them.
LEMMA SameStatusWritable ==
  ASSUME IInv, RoleInv, pc["member"] # "idle", UNCHANGED <<membership, made>>,
         memFresh["member"], NEW rec, SameSpec(M, rec), rec.obsGen = M.obsGen,
         rec.reason = M.reason, rec.id = M.id
  PROVE  Writable(rec)
<1>1. M = cr[cur["member"]] /\ cur["member"] \in Members
  BY MemberFacts, WorkerFacts DEF M
<1>2. ReadyOK(cur["member"], M, membership')
  BY <1>1, QuietHarbor, WorkerKeepsCopies DEF CopiesOK
<1>3. ReadyOK(cur["member"], rec, membership')
  BY <1>2 DEF ReadyOK, SameSpec, RoleIn
<1>4. MadeOK(cur["member"], rec, made')
  BY CopyMade, QuietHarbor DEF MadeOK, Recorded, SameSpec
<1> QED BY <1>3, <1>4 DEF Writable

-----------------------------------------------------------------------------
(* The reconciler of the Members *)

LEMMA ErrorReasons ==
  /\ "Reconciling" # "Reconciled" /\ "ConnectionNotFound" # "Reconciled"
  /\ "SecretNotFound" # "Reconciled" /\ "ConnectionChanged" # "Reconciled"
  /\ "ReferenceError" # "Reconciled" /\ "ClaimNotReady" # "Reconciled"
  /\ "CreationDenied" # "Reconciled" /\ "AlreadyExists" # "Reconciled"
  /\ "HarborError" # "Reconciled"
OBVIOUS

LEMMA OtherCalls ==
  ASSUME NEW p, NEW m, NEW c, NEW id, NEW mb, NEW md, p \notin {"update", "ready"}
  PROVE  CallOK(p, m, c, id, mb, md)
BY DEF CallOK

LEMMA ReconcileStartRole ==
  ASSUME IInv, RoleInv,
         \/ MarkReconcilingIfNeeded("member") \/ GetHarborClientForObject("member")
         \/ BuildHarborClientFails("member") \/ EnsureFinalizer("member")
  PROVE  RoleInv'
<1>0. /\ pc["member"] # "idle" /\ UNCHANGED <<cache, membership, made>>
  BY DEF MarkReconcilingIfNeeded, GetHarborClientForObject, BuildHarborClientFails,
         EnsureFinalizer, harborVars
<1>1. /\ WorkerHarbor /\ M \in Resource /\ M = mem["member"]
      /\ StartPC("member", M) \notin {"update", "ready"}
      /\ BoundPC("member", M) \notin {"update", "ready"}
      /\ HeldPC("member") \notin {"update", "ready"}
  BY <1>0, QuietHarbor, MemberFacts DEF StartPC, BoundPC, HeldPC, M
<1>2. CASE MarkReconcilingIfNeeded("member")
  BY <1>0, <1>1, <1>2, MarkedWritable, PersistRole, ErrorReasons
  DEF MarkReconcilingIfNeeded
<1>3. CASE GetHarborClientForObject("member")
  <2>1. CASE \/ WithoutConnection("member", "ConnectionNotFound", TRUE)
             \/ WithoutConnection("member", "ConnectionChanged", FALSE)
    BY <1>0, <2>1, WithoutConnectionRole, ErrorReasons
  <2>2. CASE /\ UNCHANGED <<cr, cacheFresh>>
             /\ \/ Goto("member", BoundPC("member", M), M, 0)
                \/ Goto("member", "noSecret", M, 0)
    BY <1>0, <1>1, <2>2, OtherCalls, GotoRole
  <2>3. ASSUME NEW p, p \notin {"update", "ready"},
               Persist("member", [M EXCEPT !.bound = conn], p)
        PROVE  RoleInv'
    <3> DEFINE rec == [M EXCEPT !.bound = conn]
    <3>1. /\ SameSpec(M, rec) /\ rec.obsGen = M.obsGen /\ rec.reason = M.reason
          /\ rec.id = M.id
      BY <1>1 DEF SameSpec, Resource
    <3>2. memFresh["member"] => Writable(rec)
      BY <1>0, <3>1, SameStatusWritable
    <3>3. CASE memFresh["member"]
      BY <1>0, <1>1, <2>3, <3>2, <3>3, PersistRole
    <3>4. CASE ~memFresh["member"]
      BY <1>0, <2>3, <3>4, RefusedRole DEF Persist
    <3> QED BY <3>3, <3>4
  <2>4. "noSecret" \notin {"update", "ready"}
    OBVIOUS
  <2> QED BY <1>1, <1>3, <2>1, <2>2, <2>3, <2>4 DEF GetHarborClientForObject
<1>4. CASE BuildHarborClientFails("member")
  BY <1>0, <1>4, WithoutConnectionRole, ErrorReasons DEF BuildHarborClientFails
<1>5. CASE EnsureFinalizer("member")
  <2> DEFINE rec == [M EXCEPT !.fin = TRUE]
  <2>1. /\ SameSpec(M, rec) /\ rec.obsGen = M.obsGen /\ rec.reason = M.reason
        /\ rec.id = M.id
    BY <1>1 DEF SameSpec, Resource
  <2>2. memFresh["member"] => Writable(rec)
    BY <1>0, <2>1, SameStatusWritable
  <2>3. Persist("member", rec, HeldPC("member"))
    BY <1>1, <1>5 DEF EnsureFinalizer
  <2>4. CASE memFresh["member"]
    BY <1>0, <1>1, <2>2, <2>3, <2>4, PersistRole
  <2>5. CASE ~memFresh["member"]
    BY <1>0, <2>3, <2>5, RefusedRole DEF Persist
  <2> QED BY <2>4, <2>5
<1> QED BY <1>2, <1>3, <1>4, <1>5

LEMMA ListProjectMembersRole ==
  ASSUME IInv, RoleInv, ListProjectMembers PROVE RoleInv'
<1>0. /\ pc["member"] = "list" /\ pc["member"] # "idle"
      /\ UNCHANGED <<cache, membership, made>> /\ WorkerHarbor
      /\ cur["member"] \in Members /\ M.inc \in Nat /\ M.inc # 0
      /\ M.creationPolicy \in {"Create", "Adopt", "CreateOrAdopt"}
  BY QuietHarbor, MemberFacts DEF ListProjectMembers, harborVars, Resource
<1>1. ASSUME NEW reason \in {"AlreadyExists", "CreationDenied"}, Fail("member", reason)
      PROVE  RoleInv'
  BY <1>0, <1>1, FailRole, ErrorReasons
<1>2. CASE CallFailed("member", "HarborError") /\ UNCHANGED <<cr, cacheFresh>>
  BY <1>0, <1>2, CallFailedRole, ErrorReasons
<1>3. CASE Goto("member", "create", M, 0) /\ UNCHANGED <<cr, cacheFresh>>
  BY <1>0, <1>3, OtherCalls, GotoRole
<1>4. ASSUME NEW p \in {"ready", "update"}, p = "ready" => MyBinding.role = M.role,
             MyBinding.id # 0, Owned(MyBinding), Goto("member", p, M, MyBinding.id),
             UNCHANGED <<cr, cacheFresh>>
      PROVE  RoleInv'
  <2>1. ASSUME M.creationPolicy = "Create" PROVE Me \in made
    <3>1. Recorded(M)
      BY <1>4, <2>1 DEF Owned, AllowsAdoption, Recorded
    <3> QED BY <1>0, <2>1, <3>1 DEF RoleInv, WorkOK, MadeOK, M, Me
  <2>2. ASSUME p = "ready" PROVE RoleIn(cur["member"], MyBinding.id, M, membership)
    <3> SUFFICES ASSUME NEW e \in Entities, membership[e].writer = <<cur["member"], M.inc>>
                 PROVE  membership[e].role = M.role
      BY DEF RoleIn
    <3>1. e = MyEntity
      BY <1>0 DEF RoleInv, WritersOK, MyEntity
    <3> QED BY <1>4, <2>2, <3>1 DEF MyBinding
  <2>3. CallOK(p, cur["member"], M, MyBinding.id, membership', made')
    BY <1>0, <2>1, <2>2 DEF CallOK, Me
  <2> QED BY <1>0, <1>4, <2>3, GotoRole
<1> QED BY <1>1, <1>2, <1>3, <1>4 DEF ListProjectMembers

LEMMA CreateProjectMemberRole ==
  ASSUME IInv, RoleInv, CreateProjectMember PROVE RoleInv'
<1>0. /\ pc["member"] # "idle" /\ UNCHANGED <<cr, cache>>
      /\ cur["member"] \in Members /\ M.inc \in Nat /\ MyEntity \in Entities
      /\ membership \in [Entities -> Binding]
  BY MemberFacts DEF CreateProjectMember, apiVars, Resource, IInv, Types, HarborOK
<1>1. CASE UNCHANGED harborVars /\ CallFailed("member", "HarborError")
  BY <1>0, <1>1, CallFailedRole, ErrorReasons, QuietHarbor DEF harborVars
<1>2. CASE /\ membership' = [membership EXCEPT ![MyEntity] =
                [id |-> lastId + 1, role |-> M.role, maker |-> Me, writer |-> Me]]
           /\ made' = made \cup {Me}
           /\ \/ Goto("member", "ready", M, lastId + 1)
              \/ CallFailed("member", "HarborError")
  <2>1. /\ membership'[MyEntity].role = M.role /\ membership'[MyEntity].writer = Me
        /\ \A e \in Entities \ {MyEntity} : membership'[e] = membership[e]
        /\ Me \in made'
    BY <1>0, <1>2
  <2>2. WorkerHarbor
    BY <1>2, <2>1 DEF WorkerHarbor
  <2>3. WritersOK(membership')
    BY <1>0, <2>2, WorkerWriters
  <2>4. CallOK("ready", cur["member"], M, lastId + 1, membership', made')
    <3>1. \A e \in Entities : membership'[e].writer = <<cur["member"], M.inc>> => e = MyEntity
      BY <1>0, <2>3 DEF WritersOK, MyEntity
    <3> QED BY <2>1, <3>1 DEF CallOK, RoleIn, Me
  <2>5. CASE Goto("member", "ready", M, lastId + 1)
    BY <1>0, <2>2, <2>4, <2>5, GotoRole
  <2>6. CASE CallFailed("member", "HarborError")
    BY <1>0, <2>2, <2>6, CallFailedRole, ErrorReasons
  <2> QED BY <1>2, <2>5, <2>6
<1> QED BY <1>1, <1>2 DEF CreateProjectMember

LEMMA UpdateProjectMemberRoleRole ==
  ASSUME IInv, RoleInv, UpdateProjectMemberRole PROVE RoleInv'
<1>0. /\ pc["member"] = "update" /\ pc["member"] # "idle" /\ UNCHANGED <<cr, cache, made>>
      /\ cur["member"] \in Members /\ M.inc \in Nat /\ MyEntity \in Entities
      /\ membership \in [Entities -> Binding]
  BY MemberFacts
  DEF UpdateProjectMemberRole, apiVars, Resource, IInv, Types, HarborOK
<1>1. CASE UNCHANGED membership /\ CallFailed("member", "HarborError")
  BY <1>0, <1>1, CallFailedRole, ErrorReasons, QuietHarbor
<1>2. CASE /\ membership' = [membership EXCEPT ![MyEntity].role = M.role,
                                               ![MyEntity].writer = Me]
           /\ \/ Goto("member", "ready", M, seen["member"])
              \/ CallFailed("member", "HarborError")
  <2>1. /\ membership'[MyEntity].role = M.role /\ membership'[MyEntity].writer = Me
        /\ \A e \in Entities \ {MyEntity} : membership'[e] = membership[e]
    BY <1>0, <1>2 DEF Binding
  <2>2. WorkerHarbor
    BY <1>0, <2>1 DEF WorkerHarbor
  <2>3. WritersOK(membership')
    BY <1>0, <2>2, WorkerWriters
  <2>4. CallOK("ready", cur["member"], M, seen["member"], membership', made')
    <3>1. \A e \in Entities : membership'[e].writer = <<cur["member"], M.inc>> => e = MyEntity
      BY <1>0, <2>3 DEF WritersOK, MyEntity
    <3>2. M.creationPolicy = "Create" => <<cur["member"], M.inc>> \in made'
      BY <1>0 DEF RoleInv, WorkOK, CallOK, M
    <3> QED BY <2>1, <3>1, <3>2 DEF CallOK, RoleIn
  <2>5. CASE Goto("member", "ready", M, seen["member"])
    BY <1>0, <2>2, <2>4, <2>5, GotoRole
  <2>6. CASE CallFailed("member", "HarborError")
    BY <1>0, <2>2, <2>6, CallFailedRole, ErrorReasons
  <2> QED BY <1>2, <2>5, <2>6
<1> QED BY <1>1, <1>2 DEF UpdateProjectMemberRole

LEMMA SetMemberReadyRole ==
  ASSUME IInv, RoleInv, SetMemberReady PROVE RoleInv'
<1>0. /\ pc["member"] = "ready" /\ pc["member"] # "idle"
      /\ UNCHANGED <<cache, membership, made>> /\ M \in Resource
      /\ seen["member"] \in Nat
  BY MemberFacts, MemberLocalTypes DEF SetMemberReady, harborVars
<1> DEFINE rec == Marked([M EXCEPT !.id = seen["member"]], "Reconciled")
<1>1. /\ SameSpec(M, rec) /\ rec.obsGen = M.gen /\ rec.id = seen["member"]
  BY <1>0 DEF Marked, SameSpec, Resource
<1>2. CallOK("ready", cur["member"], M, seen["member"], membership, made)
  BY <1>0 DEF RoleInv, WorkOK, M
<1> HIDE DEF rec
<1>3. MadeOK(cur["member"], rec, made') /\ ReadyOK(cur["member"], rec, membership')
  BY <1>0, <1>1, <1>2 DEF CallOK, MadeOK, ReadyOK, RoleIn, SameSpec
<1>4. Writable(rec)
  BY <1>1, <1>3 DEF Writable
<1>5. SetStatusAndReturn("member", [M EXCEPT !.id = seen["member"]], "Reconciled", FALSE, TRUE)
  BY DEF SetMemberReady
<1> QED BY <1>0, <1>4, <1>5, SetStatusRole DEF rec

LEMMA DeleteProjectMemberRole ==
  ASSUME IInv, RoleInv, pc["member"] # "idle", NEW id \in Nat, DeleteProjectMember(id),
         UNCHANGED <<cr, cache, made>>
  PROVE  RoleInv'
<1>1. WorkerHarbor
  <2>1. NoBinding.writer = <<Env, 0>>
    BY DEF NoBinding
  <2>2. CASE membership' = Without(id)
    <3>1. \A e \in Entities :
            membership'[e] = membership[e] \/ membership'[e] = NoBinding
      BY <2>2 DEF Without
    <3> QED BY <2>1, <3>1 DEF WorkerHarbor
  <2> QED BY <2>2, QuietHarbor DEF DeleteProjectMember
<1>2. CASE Goto("member", "unfinalize", M, 0)
  BY <1>1, <1>2, OtherCalls, GotoRole
<1>3. CASE Return("member", TRUE, FALSE)
  BY <1>1, <1>3, ReturnRole
<1> QED BY <1>2, <1>3 DEF DeleteProjectMember

LEMMA FinalizeRole ==
  ASSUME IInv, RoleInv,
         EnsureMemberAbsent \/ DeleteListedMember \/ FinalizeAfterCleanup("member")
  PROVE  RoleInv'
<1>0. /\ pc["member"] # "idle" /\ UNCHANGED <<cache, made>>
      /\ M.id \in Nat /\ seen["member"] \in Nat
  BY MemberFacts, MemberLocalTypes
  DEF EnsureMemberAbsent, DeleteListedMember, FinalizeAfterCleanup, apiVars, harborVars,
      Resource
<1>1. CASE RemoveFinalizer("member") /\ UNCHANGED membership
  BY <1>0, <1>1, RemoveFinalizerRole
<1>2. CASE \E id \in {M.id, seen["member"]} :
             DeleteProjectMember(id) /\ UNCHANGED <<cr, cacheFresh>>
  BY <1>0, <1>2, DeleteProjectMemberRole
<1>3. CASE /\ UNCHANGED <<cr, cacheFresh, membership>>
           /\ \/ Return("member", TRUE, FALSE)
              \/ \E p \in {"purge", "unfinalize"}, id \in {0, MyBinding.id} :
                   Goto("member", p, M, id)
  BY <1>0, <1>3, QuietHarbor, OtherCalls, GotoRole, ReturnRole
<1> QED BY <1>1, <1>2, <1>3
    DEF EnsureMemberAbsent, DeleteListedMember, FinalizeAfterCleanup, apiVars, harborVars

LEMMA ReconcileMemberRole ==
  ASSUME IInv, RoleInv, ReconcileMember PROVE RoleInv'
<1>1. CASE DesiredEntityUnresolved
  <2>1. pc["member"] # "idle" /\ UNCHANGED <<cache, membership, made>>
    BY <1>1 DEF DesiredEntityUnresolved, harborVars
  <2>2. Fail("member", "ReferenceError") \/ Fail("member", "ClaimNotReady")
    BY <1>1 DEF DesiredEntityUnresolved
  <2> QED BY <2>1, <2>2, FailRole, ErrorReasons
<1>2. CASE SetErrorStatus("member")
  <2>1. pc["member"] # "idle" /\ UNCHANGED <<cache, membership, made>>
    BY <1>2 DEF SetErrorStatus, harborVars
  <2> QED BY <1>2, <2>1, FailRole DEF SetErrorStatus, RoleInv
<1> QED BY <1>1, <1>2, ReconcileStartRole, ListProjectMembersRole, CreateProjectMemberRole,
           UpdateProjectMemberRoleRole, SetMemberReadyRole, FinalizeRole
    DEF ReconcileMember

-----------------------------------------------------------------------------
(* Everyone else *)

\* The worker of the claims leaves the Members and their worker alone.
ClaimsOnly == UNCHANGED MemberLocals /\ \A m \in Members : cr'[m] = cr[m]

LEMMA ClaimWorkerApart ==
  ASSUME IInv, pc["claim"] # "idle", ReconcileClaim PROVE ClaimsOnly
<1>0. cr \in [Objects -> Resource] /\ \A m \in Members : m \in Objects /\ m # cur["claim"]
  BY ClaimFacts, ConstantsAssumption DEF IInv, Types, ApiTypes, Objects
<1>1. ASSUME NEW r, NEW d, Return("claim", r, d) PROVE UNCHANGED MemberLocals
  BY <1>1, MemberLocalTypes DEF Return, MemberLocals
<1>2. ASSUME NEW p, NEW rec, NEW id, Goto("claim", p, rec, id)
      PROVE  UNCHANGED MemberLocals
  BY <1>2, MemberLocalTypes DEF Goto, MemberLocals
<1>3. ASSUME NEW reason, CallFailed("claim", reason) PROVE UNCHANGED MemberLocals
  BY <1>3, MemberLocalTypes DEF CallFailed, MemberLocals
<1>4. ASSUME NEW rec, Store("claim", rec) PROVE \A m \in Members : cr'[m] = cr[m]
  BY <1>0, <1>4 DEF Store
<1>5. ASSUME NEW p, NEW rec, Persist("claim", rec, p) PROVE ClaimsOnly
  BY <1>1, <1>2, <1>4, <1>5 DEF Persist, Refused, ClaimsOnly
<1>6. ASSUME NEW rec, NEW r, NEW d, PersistAndReturn("claim", rec, r, d) PROVE ClaimsOnly
  BY <1>1, <1>4, <1>6 DEF PersistAndReturn, Refused, ClaimsOnly
<1>7. ASSUME NEW r, NEW d, Return("claim", r, d), UNCHANGED <<cr, cacheFresh>>
      PROVE  ClaimsOnly
  BY <1>1, <1>7 DEF ClaimsOnly
<1>8. ASSUME NEW reason, Fail("claim", reason) PROVE ClaimsOnly
  BY <1>6, <1>7, <1>8 DEF Fail, SetStatusAndReturn
<1>9. ASSUME RemoveFinalizer("claim") PROVE ClaimsOnly
  BY <1>6, <1>7, <1>9 DEF RemoveFinalizer
<1>10. ASSUME NEW reason, NEW nf, WithoutConnection("claim", reason, nf) PROVE ClaimsOnly
  BY <1>8, <1>9, <1>10 DEF WithoutConnection
<1>11. ASSUME NEW p, NEW rec, NEW id, Goto("claim", p, rec, id), UNCHANGED <<cr, cacheFresh>>
       PROVE  ClaimsOnly
  BY <1>2, <1>11 DEF ClaimsOnly
<1>12. ASSUME NEW reason, CallFailed("claim", reason), UNCHANGED <<cr, cacheFresh>>
       PROVE  ClaimsOnly
  BY <1>3, <1>12 DEF ClaimsOnly
<1>13. CASE MarkReconcilingIfNeeded("claim") \/ EnsureFinalizer("claim")
  BY <1>5, <1>13 DEF MarkReconcilingIfNeeded, EnsureFinalizer
<1>14. CASE GetHarborClientForObject("claim") \/ BuildHarborClientFails("claim")
  BY <1>5, <1>10, <1>11, <1>14 DEF GetHarborClientForObject, BuildHarborClientFails
<1>15. CASE FinalizeClaim
  BY <1>8, <1>11, <1>15 DEF FinalizeClaim
<1>16. CASE FindUserGroup
  BY <1>8, <1>11, <1>12, <1>16 DEF FindUserGroup
<1>17. CASE CreateUserGroup
  BY <1>11, <1>12, <1>17 DEF CreateUserGroup, apiVars
<1>18. CASE SetClaimReady
  BY <1>6, <1>7, <1>18 DEF SetClaimReady
<1>19. CASE FinalizeAfterCleanup("claim") \/ SetErrorStatus("claim")
  BY <1>8, <1>9, <1>19 DEF FinalizeAfterCleanup, SetErrorStatus
<1> QED BY <1>13, <1>14, <1>15, <1>16, <1>17, <1>18, <1>19 DEF ReconcileClaim

LEMMA ReconcileClaimRole ==
  ASSUME IInv, RoleInv, ReconcileClaim PROVE RoleInv'
<1>1. UNCHANGED <<cache, membership, made>> /\ pc["claim"] # "idle"
  BY DEF ReconcileClaim, MarkReconcilingIfNeeded, GetHarborClientForObject,
         BuildHarborClientFails, EnsureFinalizer, FinalizeClaim, FindUserGroup,
         CreateUserGroup, SetClaimReady, FinalizeAfterCleanup, SetErrorStatus,
         harborVars, apiVars
<1>2. OthersHarbor /\ ClaimsOnly
  BY <1>1, ClaimWorkerApart DEF OthersHarbor
<1> QED BY <1>1, <1>2, RoleStays DEF ClaimsOnly

\* A Member is loaded as the cache has it.
LEMMA LoadResourceRole ==
  ASSUME IInv, RoleInv, NEW o \in Objects, LoadResource(o) PROVE RoleInv'
<1>0. /\ UNCHANGED <<cr, cache, membership, made>> /\ OthersHarbor
      /\ o \in Claims => WorkerOf(o) = "claim"
      /\ o \in Members => WorkerOf(o) = "member"
  BY ConstantsAssumption DEF LoadResource, apiVars, harborVars, OthersHarbor, WorkerOf
<1>1. CASE o \in Claims \/ cache[o].inc = 0
  <2>1. UNCHANGED MemberLocals
    BY <1>0, <1>1, MemberLocalTypes DEF LoadResource, localVars, MemberLocals
  <2> QED BY <1>0, <2>1, RoleStays
<1>2. CASE o \in Members /\ cache[o].inc # 0
  <2> DEFINE p == IF cache[o].obsGen = cache[o].gen THEN StartPC("member", cache[o])
                                                   ELSE "mark"
  <2>1. /\ pc'["member"] = p /\ cur'["member"] = o /\ mem'["member"] = cache[o]
        /\ err'["member"] = err["member"] /\ seen'["member"] = seen["member"]
    BY <1>0, <1>2, MemberLocalTypes DEF LoadResource
  <2>2. CallOK(p, o, cache[o], seen["member"], membership', made')
    BY DEF StartPC, CallOK
  <2>3. CopiesOK(o, cr[o], cache[o], membership, made)
    BY <1>2 DEF RoleInv
  <2>4. cache[o].gen \in Nat
    BY RoleTypes
  <2>5. WorkOK(p, o, cache[o], seen["member"], cr[o], cache[o], membership', made')
    BY <1>0, <2>2, <2>3, <2>4 DEF WorkOK, CopiesOK
  <2> QED BY <1>0, <2>1, <2>5, OthersWriters DEF RoleInv
<1> QED BY <1>1, <1>2 DEF Objects

LEMMA SyncCacheRole ==
  ASSUME IInv, RoleInv, NEW o \in Objects, SyncCache(o) PROVE RoleInv'
<1>0. /\ UNCHANGED <<cr, membership, made>> /\ OthersHarbor /\ UNCHANGED MemberLocals
      /\ \A p \in Objects : cache'[p] = IF p = o THEN cr[p] ELSE cache[p]
  BY DEF SyncCache, harborVars, OthersHarbor, localVars, MemberLocals, IInv, Types, ApiTypes
<1>1. \A m \in Members : CopiesOK(m, cr[m], cache[m], membership, made)'
  BY <1>0 DEF RoleInv, CopiesOK, Objects
<1>2. pc["member"] # "idle" =>
        /\ GenOK(mem["member"], cr'[cur["member"]])
        /\ mem["member"].inc = cache'[cur["member"]].inc
           => mem["member"].gen <= cache'[cur["member"]].gen
  <2> SUFFICES ASSUME pc["member"] # "idle"
               PROVE  /\ GenOK(mem["member"], cr[cur["member"]])
                      /\ mem["member"].inc = cache'[cur["member"]].inc
                         => mem["member"].gen <= cache'[cur["member"]].gen
    BY <1>0
  <2>1. cur["member"] \in Objects /\ mem["member"].inc # 0
    BY MemberFacts DEF Objects, M
  <2> QED BY <1>0, <2>1 DEF RoleInv, WorkOK, GenOK
<1> QED BY <1>0, <1>1, <1>2, WorkStays, OthersWriters DEF RoleInv

LEMMA CrashRole == ASSUME IInv, RoleInv, Crash PROVE RoleInv'
<1>1. /\ pc'["member"] = "idle" /\ err'["member"] = "" /\ cache' = cr
      /\ UNCHANGED <<cr, membership, made>>
  BY MemberLocalTypes DEF Crash, harborVars
<1>2. \A m \in Members : CopiesOK(m, cr[m], cache[m], membership, made)'
  BY <1>1 DEF RoleInv, CopiesOK
<1>3. err'["member"] # "Reconciled"
  BY <1>1, EmptyReason
<1> QED BY <1>1, <1>2, <1>3 DEF RoleInv, WorkOK

-----------------------------------------------------------------------------
(* Users *)

\* What a user's write may make of a Member of which there is r.
UserMade(m, r, rec) ==
  \/ rec.inc = 0
  \/ rec.inc > lastInc[m] /\ rec.obsGen = 0 /\ rec.gen = 1 /\ ~Recorded(rec)
  \/ /\ rec.inc = r.inc /\ rec.gen = r.gen + 1 /\ rec.obsGen = r.obsGen
     /\ rec.creationPolicy = r.creationPolicy /\ rec.id = r.id /\ rec.reason = r.reason

LEMMA UserWritesRole ==
  ASSUME IInv, RoleInv, NEW m \in Members, NEW rec \in Resource, UserWrites(m, rec),
         UserMade(m, cr[m], rec)
  PROVE  RoleInv'
<1>0. /\ UNCHANGED <<cache, membership, made>> /\ UNCHANGED MemberLocals /\ OthersHarbor
      /\ m \in Objects /\ \A p \in Objects : cr'[p] = IF p = m THEN rec ELSE cr[p]
  BY DEF UserWrites, harborVars, MemberLocals, OthersHarbor, IInv, Types, ApiTypes, Objects
<1>1. /\ cr[m].gen \in Nat /\ cr[m].obsGen \in Nat /\ cr[m].inc \in Nat
      /\ rec.gen \in Nat /\ rec.obsGen \in Nat /\ rec.inc \in Nat /\ lastInc[m] \in Nat
  BY <1>0, RoleTypes, UserFacts DEF Resource
<1>2. CopiesOK(m, cr[m], cache[m], membership, made)
  BY DEF RoleInv
<1>3. ASSUME NEW c \in Resource, KnownCopy(m, c), GenOK(c, cr[m]) PROVE GenOK(c, rec)
  <2>1. c.inc # 0 => c.inc <= lastInc[m]
    BY <1>3 DEF KnownCopy, CopyOK
  <2>2. c.gen \in Nat /\ c.inc \in Nat
    BY DEF Resource
  <2> QED BY <1>1, <1>3, <2>1, <2>2 DEF GenOK, UserMade
<1>4. CopiesOK(m, rec, cache[m], membership, made)
  <2>1. cache[m] \in Resource /\ KnownCopy(m, cache[m])
    BY <1>0 DEF IInv, Types, ApiTypes, ApiOK
  <2>2. GenOK(cache[m], rec)
    BY <1>2, <1>3, <2>1 DEF CopiesOK
  <2>3. GenOK(rec, rec) /\ ReadyOK(m, rec, membership) /\ MadeOK(m, rec, made)
    BY <1>1, <1>2 DEF CopiesOK, GenOK, ReadyOK, MadeOK, Recorded, UserMade
  <2> QED BY <1>2, <2>2, <2>3 DEF CopiesOK
<1>5. \A n \in Members : CopiesOK(n, cr[n], cache[n], membership, made)'
  BY <1>0, <1>4 DEF RoleInv, Objects
<1>6. pc["member"] # "idle" =>
        /\ GenOK(mem["member"], cr'[cur["member"]])
        /\ mem["member"].inc = cache'[cur["member"]].inc
           => mem["member"].gen <= cache'[cur["member"]].gen
  <2> SUFFICES ASSUME pc["member"] # "idle"
               PROVE  /\ GenOK(mem["member"], cr'[cur["member"]])
                      /\ mem["member"].inc = cache'[cur["member"]].inc
                         => mem["member"].gen <= cache'[cur["member"]].gen
    OBVIOUS
  <2>1. /\ cur["member"] \in Objects /\ mem["member"] \in Resource
        /\ KnownCopy(cur["member"], mem["member"])
    BY MemberFacts DEF Objects, M
  <2>2. /\ GenOK(mem["member"], cr[cur["member"]])
        /\ mem["member"].inc = cache[cur["member"]].inc
           => mem["member"].gen <= cache[cur["member"]].gen
    BY DEF RoleInv, WorkOK
  <2> QED BY <1>0, <1>3, <2>1, <2>2
<1> QED BY <1>0, <1>5, <1>6, WorkStays, OthersWriters DEF RoleInv

\* What users do to the claims does not concern the Members.
LEMMA ClaimWrittenRole ==
  ASSUME IInv, RoleInv, NEW o \in Claims, NEW rec, UserWrites(o, rec)
  PROVE  RoleInv'
<1>1. /\ UNCHANGED MemberLocals /\ OthersHarbor /\ UNCHANGED cache
      /\ \A m \in Members : cr'[m] = cr[m]
  BY ConstantsAssumption
  DEF UserWrites, harborVars, MemberLocals, OthersHarbor, IInv, Types, ApiTypes, Objects
<1> QED BY <1>1, RoleStays

LEMMA UserCreateRole ==
  ASSUME IInv, RoleInv, NEW o \in Objects, UserCreate(o) PROVE RoleInv'
<1>1. CASE o \in Claims /\ UserWrites(o, [NewClaim EXCEPT !.inc = lastInc[o] + 1])
  BY <1>1, ClaimWrittenRole
<1>2. ASSUME o \in Members, NEW r \in Roles, NEW cp \in CreationPolicies,
             NEW dp \in DeletionPolicies,
             UserWrites(o, [NewMember(r, cp, dp) EXCEPT !.inc = lastInc[o] + 1])
      PROVE  RoleInv'
  <2> DEFINE rec == [NewMember(r, cp, dp) EXCEPT !.inc = lastInc[o] + 1]
  <2>1. cp \in {"Create", "Adopt", "CreateOrAdopt"} /\ dp \in {"Delete", "Orphan"}
    BY ConstantsAssumption
  <2>2. lastInc[o] + 1 \in Nat /\ lastInc[o] + 1 > lastInc[o]
    BY UserFacts
  <2>3. /\ NewMember(r, cp, dp) \in Resource /\ NewMember(r, cp, dp).gen = 1
        /\ NewMember(r, cp, dp).obsGen = NoResource.obsGen
        /\ NewMember(r, cp, dp).id = NoResource.id
        /\ NewMember(r, cp, dp).reason = NoResource.reason
    BY <2>1, NoResourceType DEF NewMember, Resource
  <2>4. /\ rec \in Resource /\ rec.inc = lastInc[o] + 1 /\ rec.gen = 1
        /\ rec.obsGen = NoResource.obsGen /\ rec.id = NoResource.id
        /\ rec.reason = NoResource.reason
    BY <2>2, <2>3 DEF Resource
  <2>5. NoResource.obsGen = 0
    BY DEF NoResource
  <2> HIDE DEF rec
  <2>6. ~Recorded(rec)
    BY <2>4, FreshResource DEF Recorded
  <2>7. UserMade(o, cr[o], rec)
    BY <2>2, <2>4, <2>5, <2>6 DEF UserMade
  <2>8. UserWrites(o, rec)
    BY <1>2 DEF rec
  <2> QED BY <1>2, <2>4, <2>7, <2>8, UserWritesRole
<1> QED BY <1>1, <1>2 DEF UserCreate

LEMMA UserEditRole ==
  ASSUME IInv, RoleInv, NEW m \in Objects, UserEdit(m) PROVE RoleInv'
<1>1. PICK r \in Roles, dp \in DeletionPolicies :
        UserWrites(m, [cr[m] EXCEPT !.gen = @ + 1, !.role = r, !.deletionPolicy = dp])
  BY DEF UserEdit
<1> DEFINE rec == [cr[m] EXCEPT !.gen = @ + 1, !.role = r, !.deletionPolicy = dp]
<1>2. cr[m] \in Resource /\ dp \in {"Delete", "Orphan"} /\ cr[m].gen + 1 \in Nat
  BY UserFacts, ConstantsAssumption DEF Objects, Resource
<1>3. rec = [cr[m] EXCEPT !.gen = cr[m].gen + 1, !.role = r, !.deletionPolicy = dp]
  BY <1>2 DEF Resource
<1>4. rec \in Resource /\ UserMade(m, cr[m], rec)
  BY <1>2, <1>3 DEF Resource, UserMade
<1>5. m \in Members \/ m \in Claims
  BY DEF Objects
<1> QED BY <1>1, <1>4, <1>5, UserWritesRole, ClaimWrittenRole

LEMMA UserDeleteRole ==
  ASSUME IInv, RoleInv, NEW o \in Objects, UserDelete(o) PROVE RoleInv'
<1> DEFINE marked == [cr[o] EXCEPT !.deleting = TRUE, !.gen = @ + 1]
<1>1. UserWrites(o, marked) \/ UserWrites(o, NoResource)
  BY DEF UserDelete
<1>2. CASE o \in Claims
  BY <1>1, <1>2, ClaimWrittenRole
<1>3. CASE o \in Members
  <2>1. cr[o] \in Resource /\ cr[o].gen + 1 \in Nat
    BY UserFacts DEF Resource
  <2>2. marked = [cr[o] EXCEPT !.deleting = TRUE, !.gen = cr[o].gen + 1]
    BY <2>1 DEF Resource
  <2>3. marked \in Resource /\ UserMade(o, cr[o], marked)
    BY <2>1, <2>2 DEF Resource, UserMade
  <2>4. NoResource \in Resource /\ UserMade(o, cr[o], NoResource)
    BY NoResourceType DEF UserMade
  <2> HIDE DEF marked
  <2> QED BY <1>1, <1>3, <2>3, <2>4, UserWritesRole
<1> QED BY <1>2, <1>3 DEF Objects

-----------------------------------------------------------------------------
(* The invariant *)

LEMMA WorldRole ==
  ASSUME IInv, RoleInv, UNCHANGED <<apiVars, localVars>>, OthersHarbor
  PROVE  RoleInv'
BY RoleStays DEF apiVars, localVars, MemberLocals

LEMMA ForeignRole ==
  ASSUME IInv, RoleInv,
         \/ \E g \in Groups : ForeignGroup(g)
         \/ \E e \in Entities : ForeignMembership(e)
  PROVE  RoleInv'
<1>1. UNCHANGED <<apiVars, localVars>> /\ made' = made
  BY DEF ForeignGroup, ForeignMembership, workerVars
<1>2. NoBinding.writer = <<Env, 0>> /\ membership \in [Entities -> Binding]
  BY HarborFacts DEF NoBinding
<1>3. OthersHarbor
  <2>1. ASSUME NEW e \in Entities, NEW b, b.writer = <<Env, 0>>,
               membership' = [membership EXCEPT ![e] = b]
        PROVE  OthersHarbor
    BY <1>1, <1>2, <2>1 DEF OthersHarbor
  <2>2. CASE membership' = membership
    BY <1>1, <2>2 DEF OthersHarbor
  <2>3. ASSUME NEW g \in Groups, ForeignGroup(g) PROVE OthersHarbor
    BY <1>2, <2>1, <2>2, <2>3 DEF ForeignGroup, Entities
  <2>4. ASSUME NEW e \in Entities, ForeignMembership(e) PROVE OthersHarbor
    <3>1. CASE \E r \in Roles :
                 membership' = [membership EXCEPT ![e] =
                   [id |-> lastId + 1, role |-> r,
                    maker |-> <<Env, 0>>, writer |-> <<Env, 0>>]]
      BY <2>1, <3>1
    <3>2. CASE membership' = [membership EXCEPT ![e] = NoBinding]
      BY <1>2, <2>1, <3>2
    <3>3. CASE \E r \in Roles :
                 membership' = [membership EXCEPT ![e].role = r, ![e].writer = <<Env, 0>>]
      <4>1. PICK r \in Roles :
                 membership' = [membership EXCEPT ![e].role = r, ![e].writer = <<Env, 0>>]
        BY <3>3
      <4>2. /\ membership'[e].writer = <<Env, 0>>
            /\ \A x \in Entities \ {e} : membership'[x] = membership[x]
        BY <1>2, <4>1 DEF Binding
      <4> QED BY <1>1, <4>2 DEF OthersHarbor
    <3> QED BY <2>4, <3>1, <3>2, <3>3 DEF ForeignMembership
  <2> QED BY <2>3, <2>4
<1> QED BY <1>1, <1>3, WorldRole

LEMMA RoleInitially == Init => RoleInv
<1> SUFFICES ASSUME Init PROVE RoleInv
  OBVIOUS
<1>1. "member" \in Workers
  BY DEF Workers
<1>2. \A m \in Members : CopiesOK(m, cr[m], cache[m], membership, made)
  <2> TAKE m \in Members
  <2>1. cr[m] = NoResource /\ cache[m] = NoResource
    BY DEF Init, Objects
  <2> QED BY <2>1, FreshResource, NothingRecorded DEF CopiesOK
<1>3. pc["member"] = "idle" /\ err["member"] = ""
  BY <1>1 DEF Init
<1>4. WritersOK(membership)
  <2>1. \A e \in Entities : membership[e].writer = <<Env, 0>>
    BY DEF Init, NoBinding
  <2>2. \A m \in Members, i \in Nat : <<m, i>> # <<Env, 0>>
    BY ConstantsAssumption DEF Objects
  <2> QED BY <2>1, <2>2 DEF WritersOK
<1>5. err["member"] # "Reconciled"
  BY <1>3, EmptyReason
<1> QED BY <1>2, <1>3, <1>4, <1>5 DEF RoleInv, WorkOK

LEMMA RoleStep == ASSUME IInv, RoleInv, [Next]_vars PROVE RoleInv'
<1>1. ASSUME NEW o \in Objects, LoadResource(o) \/ SyncCache(o) \/ DriftTimer(o)
      PROVE  RoleInv'
  <2>1. CASE DriftTimer(o)
    BY <2>1, WorldRole DEF DriftTimer, harborVars, OthersHarbor
  <2> QED BY <1>1, <2>1, LoadResourceRole, SyncCacheRole
<1>2. CASE ReconcileMember \/ ReconcileClaim
  BY <1>2, ReconcileMemberRole, ReconcileClaimRole
<1>3. ASSUME NEW o \in Objects, UserCreate(o) \/ UserDelete(o) PROVE RoleInv'
  BY <1>3, UserCreateRole, UserDeleteRole
<1>4. ASSUME NEW o \in Objects, UserEdit(o) PROVE RoleInv'
  BY <1>4, UserEditRole
<1>5. CASE Crash
  BY <1>5, CrashRole
<1>6. CASE DeleteConnection \/ CreateConnection
  BY <1>6, WorldRole DEF DeleteConnection, CreateConnection, harborVars, OthersHarbor
<1>7. ASSUME NEW r \in References, LoseReference(r) \/ ReferenceResolves(r) PROVE RoleInv'
  BY <1>7, WorldRole DEF LoseReference, ReferenceResolves, harborVars, workerVars, OthersHarbor
<1>8. CASE UNCHANGED vars
  BY <1>8, WorldRole DEF vars, harborVars, workerVars, OthersHarbor
<1> QED BY <1>1, <1>2, <1>3, <1>4, <1>5, <1>6, <1>7, <1>8, ForeignRole DEF Next

LEMMA RoleInductive == Spec => []RoleInv
<1>1. IInv /\ RoleInv /\ [Next]_vars => RoleInv'
  BY RoleStep
<1> QED BY RoleInitially, Inductive, <1>1, PTL DEF Spec

-----------------------------------------------------------------------------
(* Theorems on roles *)

\* A Member that is Ready vouches for the role of its current spec, however old
\* the copy was that its worker wrote the status from (SetMemberReady).
THEOREM ReadyIsRole == Spec => []ReadyMeansRole
<1>1. RoleInv => ReadyMeansRole
  BY DEF RoleInv, CopiesOK, ReadyOK, RoleIn, ReadyMeansRole, Ready, Exists
<1> QED BY RoleInductive, <1>1, PTL

\* Under creationPolicy Create only a Member that made a membership takes one for
\* its own, by a recorded id or by being Ready (requireCreationAllowed).
THEOREM RolesAreLeftToOthers == Spec => RolesLeftToOthers
<1>1. ASSUME IInv, RoleInv
      PROVE  \A e \in Entities :
               /\ UpdateProjectMemberRole /\ membership'[e] # membership[e]
               /\ M.creationPolicy = "Create"
               => Me \in made
  BY <1>1 DEF UpdateProjectMemberRole, RoleInv, WorkOK, CallOK, M, Me
<1>2. IInv /\ RoleInv
      => [\A e \in Entities :
            /\ UpdateProjectMemberRole /\ membership'[e] # membership[e]
            /\ M.creationPolicy = "Create"
            => Me \in made]_vars
  BY <1>1
<1> QED BY Inductive, RoleInductive, <1>2, PTL DEF RolesLeftToOthers

=============================================================================
