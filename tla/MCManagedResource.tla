------------------------- MODULE MCManagedResource -------------------------
(* Instances of ManagedResource for TLC. *)
EXTENDS ManagedResourceCustody

CONSTANTS o1, o2

\* All resources ask for one Harbor name: a second one competes for it.
MCHarborName == [o \in Objects |-> "name"]

\* One kind per distinct set of traits.
MCKinds ==
  {"Label", "Project", "WebhookPolicy", "ImmutableTagRule", "RetentionPolicy"}

=============================================================================
