# A TLA+ development of harbor-operator

harbor-operator is a Kubernetes operator: users write custom resources (a Label, a
Project, a Robot, ...) and the operator makes a Harbor registry look like them. This
directory models its reconcilers, checks them with TLC on small instances and proves
the properties that matter most with TLAPS for all instances.

## 1. Inventory of the system

| Component | Code | State it keeps | Operations | Interacts with |
|---|---|---|---|---|
| Owning reconcilers: Label, Project, Registry, User, ReplicationPolicy, ScannerRegistration, WebhookPolicy, ImmutableTagRule, RetentionPolicy | `internal/controller/*_controller.go` | none of their own: the Harbor id, the connection binding, conditions and observedGeneration in the resource's status, the finalizer in its metadata | `Reconcile`, `adoptExisting`, build and compare payloads | API server (reads through a cache, writes with a resourceVersion), Harbor (REST), Secrets, each other's status through references |
| Shared helpers | `common.go`, `conditions.go`, `options.go` | - | binding to a connection, finalizers, status writes, drift detection, connection watches | all reconcilers |
| Singletons: Configuration, GCSchedule, PurgeAuditSchedule, ScanAllSchedule | `singletons.go` and one controller each | the binding and conditions in status, and for two kinds the hash of what was last applied | elect the owner of a Harbor-wide setting, apply it | peers of the same kind, by list |
| Robot | `robot_controller.go`, `secrets.go` | robot id, expiry and rotation time in status; an owned Secret with the only copy of the credential | create, adopt, store the credential, rotate it on expiry | Secrets, through a cache |
| Member, UserGroupClaim | `member_controller.go`, `usergroup_controller.go` | member, project and group ids in status | register a group, bind a user or a group to a project | each other, through the cache: Members read claims, a claim lists its Members |
| Quota | `quota_controller.go` | the id of its project's quota in status | find the quota, set a project's storage limit | Project |
| Connections | `harborconnection_controller.go`, `clusterharborconnection_controller.go` | conditions | check reachability and login | every other kind watches them |
| Harbor client | `internal/harborclient` | - | one HTTP call each; lists page by page | Harbor |
| Manager | `cmd/main.go` | - | flags, registration of the reconcilers, leader election | |

What is hard here. There is one worker per kind, so two reconciles of a kind never
overlap; but everything else does. A reconcile works on a *cached copy* that may be
old, even of an earlier incarnation of the name; users edit and delete at any time;
the operator may stop between any two calls; a Harbor call may fail after it took
effect; other clients change Harbor; connections, Secrets and referenced resources
come and go. Between those, optimistic concurrency on the status writes, the
finalizer and the recorded connection are all the protection the code has. What makes
it correct:

- a reconcile of an old copy never changes Harbor for a resource that is gone,
  recreated, or bound to another connection;
- the finalizer goes only when the Harbor object is gone (policy Delete);
- under `creationPolicy: Create` an owning reconciler records, and so overwrites and
  deletes, only what it made itself;
- Ready means the payload of this generation is in Harbor;
- of several resources for one Harbor-wide setting the oldest owns it, and the others
  say so;
- a robot's credential reaches its Secret, and nobody else's Secret is overwritten;
- a claim outlives the Members that use it, and a recorded membership goes before its
  Member;
- deletions complete and live resources converge once disturbances end.

Members promise less than the owning reconcilers here: under Create a Ready Member takes
over a membership another client made (finding 5), and a deleted one without recorded
ids removes whatever membership matches its spec.

`PROJECT.json` lists every hazard at its line.

## 2. Modules

| Module | Role |
|---|---|
| `KindTraits` | One record per reconciler of an owning kind: the decisions in which the nine reconcilers differ (adopt before, or on conflict; go on after adoption or requeue; when references are resolved; how an object is identified; where a new id comes from; whether a failed deletion reaches status). |
| `ManagedResource` | The owning reconcilers: API server, informer cache, work queue, one worker, Harbor instances, connection, Secret, references, users, other clients. |
| `Custody` | The abstract specification of an owning reconciler: claims that are bound, taken, served, cleaned up after and released; no caches, copies, calls or crashes. |
| `ManagedResourceCustody` | The refinement mapping: `ManagedResource` implements `Custody`. |
| `Singleton` | The kinds that stand for a setting Harbor has once, per instance (Configuration and the three schedules) or per project (Quota): election of the owner from a lagging cache, several connection objects to one instance, writes decided by a hash or by reading Harbor. |
| `Robot` | Robot accounts and their credentials: Harbor, the Secret and the status as three writes, a second cache for Secrets, lifetimes that pass. |
| `Membership` | Member and UserGroupClaim composed: two workers over one cache, references between the kinds, groups and memberships in Harbor. |
| `MCManagedResource`, `MCSingleton`, `MCRobot`, `MCMembership` | Values of the constants for TLC. |
| `ManagedResource_proofs` | Types. |
| `ManagedResourceSafety_proofs` | The inductive invariant and the two action properties. |
| `ManagedResourceOwner_proofs` | Whose object a record under creationPolicy Create names, and what Ready says of Harbor. |
| `ManagedResourceCustody_proofs` | The refinement. |
| `Singleton_proofs`, `SingletonOwner_proofs` | Types, the guarded writes, the election of the oldest resource, and what Ready says of Harbor. |
| `Membership_proofs` | Types, the four action properties of `Membership`, and what Ready says of the role. |
| `Robot_proofs` | Types and the two safety properties of `Robot`. |

### ManagedResource

State. `cr` is the API server's resource per name: incarnation (UID), generation,
deletionTimestamp, finalizer, payload, policies, and status (observedGeneration,
reason of the Ready condition, connection binding, Harbor id). `cache` is the
informer's copy. `pc`, `cur`, `mem` are the worker: the call it makes next, the
resource it works on, its in-memory copy. `harbor` is the set of live objects, each at
the Harbor instance of one connection UID; an id is given out once per instance, as
Harbor's database sequences do. `maker` and `writer` of an object are history
variables: no action reads them.

One action is one call to the API server or to Harbor plus the local code up to the
next call, in the order of the code: `LoadResource` (common.go `loadResource`),
`MarkReconcilingIfNeeded`, `GetHarborClientForObject` (resolve the connection, persist
the binding), `BuildHarborClient` (credentials), then either `DeleteRemote` /
`FinalizeIfDeleting` / `FinalizeAfterCleanup` or `EnsureFinalizer`,
`ResolveReferences`, `AdoptExisting` / `PersistAdoption`, `RequireCreationAllowed`,
`CreateRemote` / `LookupRemote` / `SetCreatedStatus`, or `GetRemote` /
`RequeueOnRemoteNotFound` / `UpdateRemote` / `SetReadyStatus`; `SetErrorStatus` after
any failed Harbor call. A `Fault` disjunct of a Harbor call is a call that fails, with
and without effect. `SetStatusAndReturn` models that `setReadyStatus`,
`setReconcilingStatus` and `setErrorStatus` write only if a condition or
observedGeneration changes, and that whatever else was changed in memory is then lost.

Abstractions, and why they are sound for the properties:

- resourceVersions are two freshness flags, `cacheFresh` and `memFresh`: a write is
  accepted exactly when nothing was written since the copy's version;
- a cache refresh jumps to the newest version; the versions in between are reached by
  refreshing earlier;
- a payload is one value, and stands for the part of the spec the kind's `NeedsUpdate`
  compares. Fields it does not compare (a user's password, a project's storage limit)
  and the hashes of write-only credentials are left out, and so is the system-default
  flag of ScannerRegistration;
- error messages are reasons: two errors of one reason write the same condition;
- the connection is one name; pointing a resource at another connection object is, for
  the binding check, the same as replacing the object under the name (kind, namespace,
  name and UID are compared). A connection's `baseURL` is immutable, so a UID stands
  for a Harbor instance;
- connection, Secret and references are read as they are, not from a cache;
- other failures of the API server than a conflict are covered by `Crash`, which loses
  at least as much of the worker's state;
- creationPolicy is not edited after creation;
- one operator process at a time (leader election hands over after a stop).

Bounds, all in guards: `MaxInc` incarnations of a name, `MaxGen` generations made by
edits, `MaxUid` connection objects, `MaxDisturb` faults, crashes, losses and changes
by other clients together. `RestoreSecret`, `ReferenceResolves` and
`CreateConnection` cost nothing.

### Custody

What a user may rely on, in terms of the resource and Harbor alone: a claim is bound to
one Harbor instance for good (`Bind`), taken (`Take`), and only then are things made,
overwritten and recorded for it (`Make`, `Overwrite`, `Record`); when it is leaving,
the thing on record, and no other, is removed (`Clean`), and the claim is released when
that thing is gone or to be kept (`Release`). The mapping of `ManagedResourceCustody`:
`life` is the incarnation, `at` the recorded connection, `held` the finalizer, `id` the
recorded Harbor id, `keep` is deletionPolicy Orphan, `leaving` the deletionTimestamp,
`things` the Harbor objects. `focus` is the worker's position. It is there because a
step of the operator and one of a user could not be told apart by the claims and Harbor
only: a user may mark a claim as leaving, the operator may not; steps of users and
other clients leave `focus` alone, so a step that changes it must be one of
`Operator`'s. What `Custody` leaves open: `Make` may happen although a thing is on
record. A worker with an old copy of an ImmutableTagRule, whose rule another client
has changed meanwhile, makes a second one.

### Singleton

The skeleton is that of `ManagedResource` (load, mark, bind, credentials, finalizer,
status); what differs is modelled in full. `cr` is the API server, `cache` the
informer's copy, and `watch` the events between them in the order of the writes: the
election reads *several* cached resources, so it matters that the cache is some earlier
state of all of them and not a mixture. `conn` is a set of connection objects, each
with a UID and the instance its `baseURL` names. `harbor[i]` is the setting of an
instance and who wrote it last (a history variable).

`EnsureSingletonOwner` resolves the own connection again, lists the peers in the cache,
resolves the connection of each, and compares creation time, then namespace/name
(`singletonOwnerConflict`); the creation time has the resolution of a second (`now`).
Then the kinds part: GCSchedule and PurgeAuditSchedule compare a hash of the spec with
the one in status (`CompareHash`) and POST or PUT; ScanAllSchedule and Configuration
GET first and write what differs; Configuration resolves Secret references before and
rejects settings that are not editable (`BuildDesiredSettings`). A deletion never calls
Harbor (`FinalizeIfDeleting`).

Quota has the same skeleton without the election. Its reconcile resolves the Project
first, looks for the project's quota if it has no id recorded and records it
(`FindQuotaID`, `RecordQuotaID`), reads the quota by that id, clears the id in memory when
it is NotFound, and writes what differs. `RecreateProject` is a project that is deleted
and created again by others, and so has another quota.

Abstractions: a payload is one value and its hash is injective; a POST overwrites, like
the PUT; what a Manual schedule *starts* is not modelled, only the value it leaves; a
resource keeps its `harborConnectionRef`; local steps that decide nothing are merged into
the next call. The schedules' own spec validation before the write (`gc_controller.go`,
lines 64 to 76, and its siblings) is left out: what it rejects, a
missing cron or parameters that are not JSON, does not get past the API server
(`schedule_types.go`, line 14; the parameters are stored as JSON), so `BreakSettings` is
for Configuration and Quota only. A
refused resource has one reason for every owner; in the code the message names the owner,
so a change of the owner writes the condition again, which no property tells apart. A
project that has no quota at all is a failed lookup (a `Fault`), not a lasting state.

### Membership

One worker per kind (`Workers`), one action per call, as above; `cache` is shared.
`ReconcileMember` is the Member's whole reconcile: project and entity are resolved, the
entity of a group through the *cached* claim, which must be Ready, on the same
connection and have an id (`ClaimReady`); the memberships are listed; a membership that
is found is taken if the policy allows it, its id is on record or the Member was Ready
before (`Owned`), and its role is put right; otherwise one is made. A deletion goes by
the recorded ids, and without them by what the spec resolves to (`EnsureMemberAbsent`,
`DeleteListedMember`). `ReconcileClaim` registers the group or finds it, again if
Harbor refuses the creation; a deletion waits until the cache shows no Member that
refers to the claim (`FinalizeClaim`) and never removes the group. An event of a Member
queues its claim and an event of a claim its Members (`EnqueuedBy`).

Abstractions: one project; memberships are a function of the entity, as Harbor keeps
one per user or group; the project's and the member's id are one, as they are recorded
together; a list may miss an object while others change it (`NotListed`, a
disturbance), since the client reads page by page; a claim's group is registered
`compatible` or not, which stands for its type and LDAP DN; the second list after a
creation (`member_controller.go`, lines 159 to 174) is left out, because the client
fails when Harbor's answer has no Location and so never hands out the id 0 that would
lead there. An edit may leave all modelled fields as they were (the others are one
value), and gives a generation to claims too, whose group is immutable. The project
itself is always there for the lists: that a list answers 404 (`member_controller.go`,
lines 253 to 257), after which a deletion completes as with an empty list, is left out. `made` (the Members that ever made a membership) and `pinned` (the Members
at work with a claim when it was deleted) are history variables.

### Robot

`sec` and `secCache` are the Secrets at the API server and in the client's cache; a
Secret is who its ownership labels and annotations name, and the credential it holds.
Credentials of a robot are numbered: `<<id, n>>` opens Harbor while the robot's `cred`
is `n`. `cred` is the credential in the worker's hands between Harbor's answer and the
write of the Secret; `now` counts lifetimes, and a robot whose `exp` is reached is
rotated. `stored` is a history variable.

`CreateRobot`, `RotateRobotSecret`, `UpsertRobotSecret` and `SetCreatedStatus` /
`SetReadyStatus` are separate actions, so a crash, a fault, an edit or another client
may come between any two. `UpsertRobotSecret` decides on the cached Secret and writes
against the API server's: a create fails if there is one, an update fails if the
version is old (`SecretWritable`). `GetRobot` has the check of
`syncRobotUsernameSecret`, which passes over a Secret that is missing.

Abstractions: the username never changes and is left out, so that step only checks the
ownership; level and spec validation are left out (they end in an error status, as an
unresolved project does, which is a fault here); the connection leads to one Harbor;
that its own Secret is missing is a fault; the two list calls of an adoption are one;
a refresh starts a new lifetime and an update does not change it (Harbor's doing);
lifetimes are days, so `Tick` waits for the worker to be idle and the Secrets' cache to
have caught up.

## 3. Runs

`tlc -workers 2 -config <cfg> <MC module>` in this directory. Deadlock is not
checked in any of them: when every resource is settled and nobody acts, the operator
rightly does nothing.

| Run | Instance | Checks |
|---|---|---|
| `kinds` (`MR_kinds.cfg`) | one resource; one kind per distinct trait record; two payloads; all policies; edits; two connections; one disturbance | `TypeOK`, `ReadyMeansApplied`, `CreatePolicyOwnsItsObject`, `GuardedMutation`, `CleanedBeforeFinalized` |
| `liveness` (`MR_liveness.cfg`) | one resource, two disturbances, drift detection on | `DeletionCompletes`, `Converges`, and the refinement `ImplementsCustody` |
| `leak` (`MR_leak.cfg`) | no disturbance at all | finding: `NothingLeftBehind` is violated |
| `orphan` (`MR_orphan.cfg`) | the connection is deleted and created again | finding: `OrphanDeletionCompletes` is violated |
| `singleton_converges` (`SG_converges.cfg`) | one GCSchedule, ScanAllSchedule, Configuration or Quota, two edits of a GCSchedule or ScanAllSchedule, one of the others; two disturbances for GCSchedule, whose reconciles are the shortest, one for the others | `ReadyMeansApplied`, `OwnerConverges`, `DeletionCompletes` |
| `singleton_rivals` (`SG_rivals.cfg`) | two GCSchedules, two connections to one Harbor that appear in any order, a clock tick, a lagging cache, drift detection on | `TypeOK`, `NoTakeover`, `GuardedWrite`, `OwnerConverges`, `OthersReportConflict` |
| `robot` (`RB_robot.cfg`) | one Robot under Adopt or CreateOrAdopt, one Secret, an edit, an expiry, two connections, one disturbance at any time with no edit or expiry after it, drift detection on | `TypeOK`, `AnnouncedAfterStored`, `UnrelatedSecretsKept`, `CredentialArrives`, `DeletionCompletes` |
| `robot_lost` (`RB_lost.cfg`) | one edit of `spec.secretRef`, no disturbance | finding: `CredentialIsWritten` is violated |
| `members` (`MB_members.cfg`) | one Member of a user, all policies, edits of role and policy, two connections, one disturbance, drift detection on | `TypeOK`, `ReadyMeansRole`, `GuardedMembership`, `MembershipGoneFirst`, `RolesLeftToOthers`, `MemberDeletionCompletes`, `MembersConverge` |
| `claims` (`MB_claims.cfg`) | one claim and one Member of its group, each created and deleted at any time; a failed call, an incomplete list or a change of the group | `ClaimOutlivesItsMembers`, `ClaimDeletionCompletes`, `ResourcesGetReady` |
| `member_deadlock` (`MB_deadlock.cfg`) | the same two resources, no disturbance | finding: `DeletionNeedsNoClaim` is violated |
| `member_adopted` (`MB_adopted.cfg`) | one Member of a user under Create, two changes by another client | finding: `UnknownMembershipNeedsAdoption` is violated |

Why the bounds are enough to be interesting: one disturbance at any point of a
reconcile already separates a call's effect from its answer and from the record of it;
two generations pair an old copy with a newer spec; two resources suffice to contend
for a setting. What one resource and one incarnation leave out (an old copy of an
earlier incarnation, several resources asking Harbor for one name) is covered by the
proofs, which have no bounds (section 4). The liveness runs of `ManagedResource` and, for
GCSchedule, of `Singleton` have two disturbances so that a fault can hit the recovery
from another. Three generations, which `singleton_converges` has for the schedules, are what
an edit that is put back needs. In `robot` a user's edit and the end of a lifetime come
before the disturbance (`LateEvents`), which itself may come at any time; its safety
theorems have no such bound. No run has edits of a claim, a robot's second Secret
together with faults, or a Robot under Orphan: the safety theorems of `Membership` and
`Robot` cover them, the
liveness properties are not checked there. (With edits of `spec.secretRef`,
`CredentialArrives` fails: finding 3.)

Fairness (`FairSpec`): weak for the workers and the informers (goroutines that are
never blocked by the others); strong for `LoadResource` of each resource, because the
work queue is first-in first-out, so a queued resource is taken before the worker
returns to others for ever; weak for the drift timer, which also stands for the
informer's periodic resync. A lost Secret, an unresolved reference, unresolved settings
and a foreign Secret in a robot's way are assumed to be put right by users or by the
reconciler of the referenced kind; a deleted connection is not, and the liveness
properties exempt what cannot be done without it.

What the properties leave out, because the code does not promise it:

- `Converges` exempts `StaleIdentity`. `requeueOnRemoteNotFound` clears the id in
  memory and writes it only if a condition changes; an object adopted after a NotFound
  (adoption leaves conditions alone) that vanishes again is never cleared, although
  `docs/technical-architecture.md` says that a stale identity is. It takes three
  changes by another client.
- `ReadyMeansApplied` of `Singleton` is about the kinds that read Harbor before they
  decide. It is false for GCSchedule and PurgeAuditSchedule, which compare the spec with
  the hash in their own status: an edit that is put back while its PUT is under way
  leaves the resource Ready and Harbor with the other payload, because the new hash is
  lost with the refused status write and the old hash fits the old spec. Without `~ByHash`
  TLC finds this in three generations. The documentation disagrees
  (`docs/reference/status-and-conditions.md`, line 7: "`Ready=True` means the latest
  desired state was applied successfully.").
- `OwnerConverges` exempts two states in which Harbor stays different and the resource
  Ready. `StaleHash`: the hash of a GCSchedule or PurgeAuditSchedule fits its spec while
  Harbor has other data. The edit that is put back, above, ends there for ever; so does a
  schedule somebody changes in Harbor, which no reconcile looks at, drift detection
  included, although `docs/introduction/concepts.md` line 19 has "Harbor-side drift is
  corrected on reconcile". What is left for these kinds is that a hash which does not fit
  (a lost answer, a crash between the PUT and the status write, an edit) is followed by a
  write. `StaleQuota`: a Quota whose project was created again clears the old quota's id
  in memory, and writes that only if a condition changes; when status says NotFound
  already, it keeps the old id for ever.
- `NoTakeover` is about the four kinds with an election. Two Quotas of one project
  overwrite each other: the code has nothing against it.
- `GuardedMembership` exempts `DeleteListedMember`. A Member without recorded ids is
  deleted by a search, and a worker that finalizes an old copy searches again after the
  Member is gone, and removes what others have bound meanwhile.
- `RolesLeftToOthers` is what `Create` promises of roles: the operator changes one only
  for a Member whose incarnation has made a membership before, not necessarily this one
  (finding 5).
- `ReadyMeansRole` speaks of a Member that wrote the membership last, and
  `MembersConverge` of CreateOrAdopt: under Create a creation whose answer was lost
  leaves a membership the Member does not know for its own, and an error for ever.
- `OthersReportConflict` is checked with drift detection on. Without it nothing queues
  the younger resource when an older one gets its connection, until the informer's
  resync (ten hours by default): it stays Ready while its setting is overwritten.
- `NoTakeover` is checked with connections that stay on one Harbor. The ownership check
  resolves the connection a second time; if it was recreated for another Harbor since
  the client was built, the check speaks of the new instance and the write goes to the
  old one.
- `CredentialArrives` is for `CreateOrAdopt` Robots that nobody disturbs and whose
  destination stays; finding 3 says why.

### Findings

1. **Leak** (`leak`). The id of a new Harbor object is recorded by the status write
   after the create. If a user deletes the resource in between, that write conflicts,
   the next reconcile sees a resource being deleted with id 0, removes the finalizer,
   and the Harbor object stays, against "Delete removes the corresponding Harbor
   resource before removing the finalizer" (`api/v1alpha1/common.go`). No fault is
   needed. `CleanedBeforeFinalized` is the weaker promise that does hold: a *recorded*
   object is gone.
2. **Orphan deletion stuck** (`orphan`). When the connection was recreated under its
   name, the binding check fails with an error that is not NotFound, and
   `finalizeWithoutHarborConnection` lets go only on NotFound: the resource stays
   Terminating under Orphan too.
3. **Credential never written** (`robot_lost`). For a robot that exists, a missing
   destination Secret is passed over, and the credential is written only on expiry.
   After a change of `spec.secretRef` the Robot is Ready and the Secret it names never
   appears, against "The operator writes the generated robot secret to this location"
   (`api/v1alpha1/robot_types.go`). An adopted robot, a Secret that was deleted, a
   failed Secret write after the POST, and a stop between a rotation and the write of
   the Secret end in the same state.
4. **A Member and its claim wait for each other** (`member_deadlock`). A Member that
   recorded no ids resolves its UserGroupClaim to be deleted, and the claim must be
   Ready; a claim being deleted is marked not Ready and waits for its Members. Deleted
   together before the membership is recorded, both stay for ever, against "it uses
   those IDs to remove the corresponding member without depending on referenced
   `Project`, `User`, or `UserGroupClaim` resources still existing"
   (`docs/crds/member.md`). No fault is needed. `MemberDeletionCompletes` is the weaker
   promise that does hold.
5. **A Ready Member takes over an unknown membership** (`member_adopted`).
   `ensureMemberPresent` counts a membership as the Member's own if its id is on record,
   or if the Member is Ready. When another client replaces the membership a Create Member
   made, the new one has another id, but the Member is still Ready and changes its role,
   against the comment right above: "A different or previously unknown membership still
   requires an adoption policy." (`member_controller.go`, lines 187-188).
   `RolesLeftToOthers` is the weaker promise that does hold.

## 4. Proofs

### ManagedResource

For every set of resources, set of kinds and policies, every payload set and every
bound, from the assumptions `ConstantsAssumption` and `BoundsAssumption` only:

- `TypeCorrect`: `Spec => []TypeOK`. The strengthening is that a worker past the
  binding step holds a binding; without it the id of a new object is not a number.
- `CopiesSound`: `Spec => []IInv`, the inductive invariant:
  - `PositionOK`: what the worker's position says about its copy (it holds the
    finalizer of a live resource from `EnsureFinalizer` on; at the removal of the
    finalizer after a cleanup the recorded object is gone);
  - `CopyOK`, for the API server's own resource, the cached and the in-memory copy:
    of the *same* incarnation, a copy that has a finalizer, a binding or a deletion
    mark implies the API server has it too; of an *earlier* incarnation, the copy has
    no finalizer or is being deleted, and then nothing it would delete is left. This
    is why acting on an old copy is harmless, and it needs the ids of Harbor to be
    fresh (`IdOK`, `IdKnown`), or a dead object could come back under the old id;
  - `MemFreshOK`, `MemCacheOK`: when a write is accepted, the copy written agrees with
    the API server, and the cache differs only by what the worker itself wrote. They
    carry "the finalizer was removed rightly" over to the cached copy, which is loaded
    again later.
- `MutationsAreGuarded`: `Spec => GuardedMutation`, and `ResourcesAreCleaned`:
  `Spec => CleanedBeforeFinalized`, both from `IInv`.

Layout: facts about copies are constant-level lemmas (no primes). `ReconcileShape`
shows that each of the nineteen reconcile actions has one of four shapes (ended,
moved, wrote, removed), and the invariant is proved once per shape (`StepEndedInv`,
...). TLC checked `IInv` on the instance of `kinds` first.

- `RecordsAreOwn` (`ManagedResourceOwner_proofs`): `Spec => []CreatePolicyOwnsItsObject`.
  An id travels from Harbor's answer through the in-memory copy to status and from there
  through the cache back to a worker, so the invariant (`OwnOK`) speaks of every copy: a
  copy under Create that names an object names one its own incarnation made. `IdKnown`
  keeps an old copy from naming an object made later. The property, and with it the
  theorem, is about the kinds that learn a new object's id from the answer to its
  creation and adopt only under a policy that allows it: an ImmutableTagRule is found by
  its content, and a RetentionPolicy takes over what refuses its creation.
- `ReadyIsApplied` (`ManagedResourceOwner_proofs`): `Spec => []ReadyMeansApplied`. The
  property relates the status to Harbor, and between the two lie the copies: a worker
  writes a payload from its copy, and a status for the generation of that copy. So the
  invariant `AppliedInv`, on top of `IInv`, has
  - the generations of all copies in order, and copies of one generation with one
    payload (`GenOK`, `CacheGenOK`): a status that reports the *current* generation was
    written from a copy that has the current payload;
  - no Ready status without a record of an object, the search of an ImmutableTagRule
    excepted (`RecordsOK`, `HasRecord`): else an adoption could give an old Ready status
    an object that has never been compared;
  - of a worker about to report Ready, that the object it records, if this incarnation
    wrote it last, has the payload of its copy (`HeldOK`); of a worker whose write would
    be accepted, that its copy has the generation and conditions that are stored
    (`FreshOK`), so that an adoption, which writes the id and leaves the conditions
    alone, cannot make them speak of another object;
  - ids that are unique in each Harbor (`UniqueIds`).
- `CustodyKept` (`ManagedResourceCustody_proofs`): `Spec => ImplementsCustody`. Its
  invariant `CInv` adds to `IInv` that a copy's id whose object is in Harbor is the id
  on record (`StandsOK`, `MemStandsOK`): this is why `Overwrite` and `Clean` of an old
  copy touch only the object on record, and why a status write that changes the id
  finds the old one settled. `ReconcileStep` reduces every reconcile action to the
  kinds of steps `Custody` has, and there is one step of the proof per action of users
  and others. TLC checked `CInv` and the refinement on the instance of `kinds`, and on
  one with two incarnations and two disturbances, first.

### Robot

For every set of resources and Secrets, every assignment of names and destinations,
every payload and policy set and every bound, from the module's two assumptions:
`Invariant`: `Spec => []IInv`, and from it `TypeCorrect`, `Announcements`
(`Spec => []AnnouncedAfterStored`) and `SecretsKept` (`Spec => UnrelatedSecretsKept`).

`IInv` says of the API server's resources, of the cached copies and of the worker's
copy that they announce only credentials in `stored` (set `Known`): a copy may be
written back long after it was read, so it is not enough to speak of the API server.
It says that a worker about to write a Secret holds a credential, and that a cached
Secret whose version is current *is* the API server's, which turns the ownership check
on the cached Secret into one of the real Secret whenever the update is accepted. As
for `ManagedResource`, there is one lemma per way a step of the worker ends
(`ReturnOK`, `MoveOK`, `PersistOK`, ...), and one step of the proof per action. TLC
checked `IInv` on a small instance first.

### Membership

For all sets of Members, claims, users and groups, all references between them, all
policies and bounds, from the module's two assumptions: `TypeCorrect`, `ClaimsWait`
(`Spec => ClaimOutlivesItsMembers`), `MembershipsAreRemoved`
(`Spec => MembershipGoneFirst`) and `MembershipsAreGuarded`
(`Spec => GuardedMembership`), from one invariant `IInv`. It compares the cached copies
and the two workers' copies with the API server (`CopyOK`), and says that a worker's
copy whose version is current agrees with the cache in what the worker did not change
itself (`WorkerOK`). For the claims it says that a pinned Member that is still there
holds its finalizer (`PinOK`), and that the cache shows every resource that holds one
(`ApiOK`): so `HasActiveMembers` finds it however far the cache is behind, and a claim's
worker whose write would be accepted knows that all of them are gone.

`ReadyIsRole` (`Spec => []ReadyMeansRole`) and `RolesAreLeftToOthers`
(`Spec => RolesLeftToOthers`) come from a second invariant on top of it, `RoleInv`. The
generations of all copies are in order (`GenOK`), so a Ready status of the current
generation was written from a copy with the current role, and a worker about to write
it has found or set that role in what it wrote last (`CallOK`, `WritersOK`). That a
Member under `Create` changes a role only if it has made a membership needs more than
the call: a recorded id and a Ready status are both taken for ownership on a later
reconcile, from any copy. So `MadeOK` says of *every* copy under `Create` that has one
of the two that its incarnation made a membership. TLC checked `RoleInv` on the
instance of `members`, and on part of a larger one with claims, first.

### Singleton

For every set of resources, names, connections and instances, every kind, all payloads
and bounds, from the module's three assumptions: `TypeCorrect` and `WritesAreGuarded`
(`Spec => GuardedWrite`). Four places hold a version of a resource: the API server, the
events on their way to the informer, the cache, and the worker. `IInv` says

- of each copy how it compares with the API server (`CopyOK`: one of the same
  incarnation has no finalizer, deletion mark or binding the API server lacks, and the
  same creation second; one of an earlier incarnation that has a finalizer is being
  deleted);
- that the events of a resource end with what the API server has (`LatestOK`), and once
  they show its incarnation show no other (`ShownOK`). This is what makes a version
  check against the cache decide: if no event is on its way, the cache is the truth;
- of a worker whose write would be accepted, that the cache and all events are of its
  incarnation (`FreshOK`), so that the removal of the finalizer leaves no copy behind
  that still holds it;
- that the incarnation which wrote to Harbor last was shown to the informer
  (`WritersOK`), that UIDs of connections are new (`ConnOK`), and that the worker's
  client talks to the instance its resource is bound to (`TargetOK`).

`OldestKeepsItsSetting` (`SingletonOwner_proofs`) is `Spec => NoTakeover` under
`ConnectionsStay`, each connection being for one Harbor however often it is created;
section 3 says what happens otherwise. A resource that holds a setting has written it,
so the cache, however old, has it among the peers with its creation second (`Elected`);
and between the election and the write nobody comes to hold the setting, whatever users
do to resources and connections (`ElectionOK`, `NoNewHolder`). TLC checked `IInv` and
`ElectionOK` on small instances first.

`ReadyIsApplied` (`SingletonOwner_proofs`) is `Spec => []ReadyMeansApplied`, which is about
Configuration, ScanAllSchedule and Quota, the kinds that read Harbor before they decide. Its invariant `AppliedInv` says of each copy that it is of no later generation
than the API server's, and of equal generation only with equal data (`SeenOK`, for the
cache, the events on their way and the worker); that a status is about a generation the
informer was shown, so that no copy older than the status reaches a worker any more; that
a write which would be accepted comes from a copy with the stored generation and
conditions (`FreshSameOK`); and that a worker about to report Ready has found or written
the data of its copy (`HeldOK`). Section 3 says why the other two kinds are not in it. TLC checked
`AppliedInv` first, on one resource with an edit and a disturbance and on parts of larger
instances (two incarnations, three generations, two connections; two resources).

### What is only model-checked

Every invariant and every safety property of actions that a passing run checks is stated
by a theorem, with one restriction: `NoTakeover` is proved under `ConnectionsStay`. The liveness properties of all modules need fairness and ENABLED and
are beyond the prover.

## 5. What is not modelled, and what is left to do

Not modelled, and why:

- The connection reconcilers: they check reachability and login and write their own
  status, on which no other reconciler depends. The connection object is modelled as
  the others read it.
- The page loop of the Harbor client as an algorithm of its own. Its effect on the
  reconcilers, a list that misses an object, is a disturbance of `Membership`; elsewhere
  a list is one read, and a call that fails on a missed object covers most of it.
- The credential hashes (Registry, User, ScannerRegistration, WebhookPolicy), by which a
  rotated password is pushed again, and the system-default flag of ScannerRegistration:
  payloads are one value.
- What a Manual schedule starts: the POST is a trigger, and a lost answer starts a
  second run; the model sees only the value it leaves.
- Two Robots of one name in two namespaces, which can adopt the same robot account and
  rotate each other's credential. `Robot` takes several resources, and its theorems
  hold for them; no run has two.
- A Project and the WebhookPolicy or ImmutableTagRule that refers to it, deleted
  together, as a composition. In `ManagedResource` the Project is a reference that may
  fail to resolve when the policy is deleted, at any time.
- Generated deep copies, metrics, flag parsing, TLS, packaging and test support hold no
  state the resources depend on.

Left to do, in this order: a register with one owner at a time that `Singleton` refines;
the composition of a Project with what
refers to it; the credential hashes; the page loop against a list that does not change.
