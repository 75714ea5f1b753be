----------------------------- MODULE KindTraits -----------------------------
(***************************************************************************)
(* The reconcilers of the kinds that own one Harbor object share one       *)
(* control skeleton (ManagedResource).  They differ in a handful of        *)
(* decisions, recorded here, one definition per reconciler:                *)
(*                                                                         *)
(*   adopt      when an existing Harbor object is taken over:              *)
(*              "requeue"    looked up first, adopted, reconcile ends and  *)
(*                           is requeued                                   *)
(*              "continue"   looked up first, adopted, reconcile goes on   *)
(*              "onConflict" never looked up first; adopted when Harbor    *)
(*                           refuses the creation, whatever creationPolicy *)
(*   refs       referenced resources and secrets are resolved "first" or   *)
(*              after the adoption ("later")                               *)
(*   cleanupRef deletion in Harbor resolves the reference again            *)
(*   identity   Harbor objects are matched by "name" or by "content"       *)
(*   createdId  the id of a new object comes from the "location" header or *)
(*              from a "search" after the creation                         *)
(*   cleanupErr a failed deletion is written to status                     *)
(***************************************************************************)

LabelTraits ==
  [adopt |-> "requeue", refs |-> "first", cleanupRef |-> FALSE,
   identity |-> "name", createdId |-> "location", cleanupErr |-> FALSE]

ProjectTraits ==
  [adopt |-> "continue", refs |-> "later", cleanupRef |-> FALSE,
   identity |-> "name", createdId |-> "location", cleanupErr |-> FALSE]

RegistryTraits ==
  [adopt |-> "continue", refs |-> "later", cleanupRef |-> FALSE,
   identity |-> "name", createdId |-> "location", cleanupErr |-> FALSE]

UserTraits ==
  [adopt |-> "continue", refs |-> "later", cleanupRef |-> FALSE,
   identity |-> "name", createdId |-> "location", cleanupErr |-> FALSE]

ReplicationPolicyTraits ==
  [adopt |-> "requeue", refs |-> "first", cleanupRef |-> FALSE,
   identity |-> "name", createdId |-> "location", cleanupErr |-> FALSE]

ScannerRegistrationTraits ==
  [adopt |-> "requeue", refs |-> "first", cleanupRef |-> FALSE,
   identity |-> "name", createdId |-> "location", cleanupErr |-> FALSE]

WebhookPolicyTraits ==
  [adopt |-> "requeue", refs |-> "first", cleanupRef |-> TRUE,
   identity |-> "name", createdId |-> "location", cleanupErr |-> FALSE]

ImmutableTagRuleTraits ==
  [adopt |-> "requeue", refs |-> "first", cleanupRef |-> TRUE,
   identity |-> "content", createdId |-> "search", cleanupErr |-> FALSE]

RetentionPolicyTraits ==
  [adopt |-> "onConflict", refs |-> "first", cleanupRef |-> FALSE,
   identity |-> "name", createdId |-> "location", cleanupErr |-> TRUE]

\* The reconcilers SetupWithManager registers for these kinds.
AllKinds ==
  {"Label", "Project", "Registry", "User", "ReplicationPolicy",
   "ScannerRegistration", "WebhookPolicy", "ImmutableTagRule",
   "RetentionPolicy"}

Traits ==
  [Label |-> LabelTraits, Project |-> ProjectTraits,
   Registry |-> RegistryTraits, User |-> UserTraits,
   ReplicationPolicy |-> ReplicationPolicyTraits,
   ScannerRegistration |-> ScannerRegistrationTraits,
   WebhookPolicy |-> WebhookPolicyTraits,
   ImmutableTagRule |-> ImmutableTagRuleTraits,
   RetentionPolicy |-> RetentionPolicyTraits]

=============================================================================
