---------------------- MODULE ManagedResourceCustody ----------------------
(* An owning reconciler keeps custody: ManagedResource implements Custody. *)
EXTENDS ManagedResource

\* What a custom resource is to its user: its spec's deletion policy, the
\* connection and the Harbor id in its status, its finalizer and its deletion.
ClaimOf(r) ==
  [life |-> r.inc, at |-> r.bound, held |-> r.fin, id |-> r.id,
   keep |-> r.deletionPolicy = "Orphan", leaving |-> r.deleting]

Claims == [o \in Objects |-> ClaimOf(cr[o])]

Custody == INSTANCE Custody WITH
  Names <- Objects,
  claim <- Claims,
  lives <- lastInc,
  things <- harbor,
  focus <- pc

\* Whatever copies the worker acts on, however its calls fail and whenever it
\* crashes, what users and Harbor see of it is an operator that binds a resource
\* once, takes it before it touches Harbor for it, overwrites and removes only
\* the object the resource has on record, never undoes a user's edit or deletion,
\* and releases a resource only when its object is gone or is to be kept
\* (the whole of an owning reconciler over common.go and finalizer.go).
ImplementsCustody == Custody!Spec

=============================================================================
