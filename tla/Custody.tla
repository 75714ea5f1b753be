------------------------------ MODULE Custody ------------------------------
(***************************************************************************)
(* What a reconciler that owns Harbor objects promises its users, with no  *)
(* caches, copies, queues, calls or crashes in it: each custom resource is *)
(* a claim, and a claim goes through stages.  It begins as a user makes    *)
(* it, is bound to one Harbor instance for good, is taken (the finalizer), *)
(* and only then are things in Harbor made, overwritten and recorded for   *)
(* it; a user's wish that it leave stands, its recorded thing is removed,  *)
(* and it is released.  Whatever else the operator does shows in neither   *)
(* the claims nor Harbor.                                                  *)
(***************************************************************************)
EXTENDS Naturals

CONSTANTS
  Names,  \* of custom resources
  Env     \* a client of Harbor other than the operator

VARIABLES
  claim,   \* each name's claim
  lives,   \* claims each name has had
  things,  \* what is in Harbor
  focus    \* what the operator is about, which only the operator changes

vars == <<claim, lives, things, focus>>

\* life: which claim of the name this is, 0 for none; at: the Harbor instance it
\* is bound to; held: the operator has taken it; id: the thing on record; keep:
\* the thing is to outlive the claim; leaving: the user wants the claim gone.
NewClaim(n, k) ==
  [life |-> n, at |-> 0, held |-> FALSE, id |-> 0, keep |-> k, leaving |-> FALSE]

NoClaim == NewClaim(0, FALSE)

Init ==
  /\ claim = [n \in Names |-> NoClaim]
  /\ lives = [n \in Names |-> 0]
  /\ things = {}

Owner(n) == <<n, claim[n].life>>
OnRecord(n) == {x \in things : x.at = claim[n].at /\ x.id = claim[n].id}

Become(n, c) == claim' = [claim EXCEPT ![n] = c] /\ UNCHANGED <<lives, things>>

InCustody(n) == claim[n].held /\ ~claim[n].leaving

-----------------------------------------------------------------------------
(* The operator *)

Bind(n) ==
  /\ claim[n].life # 0 /\ claim[n].at = 0
  /\ \E u \in {claim'[n].at} \ {0} : Become(n, [claim[n] EXCEPT !.at = u])

Take(n) ==
  /\ claim[n].life # 0 /\ claim[n].at # 0 /\ ~claim[n].leaving
  /\ Become(n, [claim[n] EXCEPT !.held = TRUE])

Settled(n) == claim[n].id = 0 \/ OnRecord(n) = {}

\* A thing made or found is put on record, one that is gone is struck off; a thing
\* on record is never forgotten while it is in Harbor.
Record(n) ==
  /\ InCustody(n) /\ Settled(n)
  /\ \E i \in {claim'[n].id} : Become(n, [claim[n] EXCEPT !.id = i])

\* The claim may be leaving by the time the operator acts for it.
Make(n) ==
  /\ claim[n].held
  /\ \E x \in things' \ things :
       /\ x.at = claim[n].at /\ x.maker = Owner(n) /\ x.writer = Owner(n)
       /\ things' = things \cup {x}
  /\ UNCHANGED <<claim, lives>>

\* Nothing but the thing on record is ever overwritten.
Overwrite(n) ==
  /\ claim[n].held
  /\ \E x \in OnRecord(n), y \in things' :
       /\ y.at = x.at /\ y.id = x.id /\ y.maker = x.maker /\ y.writer = Owner(n)
       /\ things' = (things \ {x}) \cup {y}
  /\ UNCHANGED <<claim, lives>>

\* Nothing but the thing on record of a claim that is leaving is ever removed.
Clean(n) ==
  /\ claim[n].held /\ claim[n].leaving
  /\ things' = things \ OnRecord(n)
  /\ UNCHANGED <<claim, lives>>

Release(n) ==
  /\ claim[n].held /\ claim[n].leaving
  /\ claim[n].keep \/ Settled(n)
  /\ Become(n, NoClaim)

Think == UNCHANGED <<claim, lives, things>>

Operator ==
  \/ Think
  \/ \E n \in Names : \/ Bind(n) \/ Take(n) \/ Record(n) \/ Make(n)
                      \/ Overwrite(n) \/ Clean(n) \/ Release(n)

-----------------------------------------------------------------------------
(* Users, and the other clients of Harbor *)

Begin(n) ==
  /\ claim[n].life = 0
  /\ lives' = [lives EXCEPT ![n] = @ + 1]
  /\ \E k \in BOOLEAN : claim' = [claim EXCEPT ![n] = NewClaim(lives[n] + 1, k)]
  /\ UNCHANGED things

Edit(n) ==
  /\ claim[n].life # 0
  /\ \E k \in BOOLEAN : Become(n, [claim[n] EXCEPT !.keep = k])

Leave(n) ==
  /\ claim[n].held
  /\ Become(n, [claim[n] EXCEPT !.leaving = TRUE])

\* A claim not yet taken has nothing in Harbor and goes at once.
Abandon(n) == ~claim[n].held /\ Become(n, NoClaim)

Foreign ==
  /\ \A x \in things' \ things : x.writer = <<Env, 0>>
  /\ UNCHANGED <<claim, lives>>

Others ==
  /\ Foreign \/ \E n \in Names : Begin(n) \/ Edit(n) \/ Leave(n) \/ Abandon(n)
  /\ UNCHANGED focus

Next == Operator \/ Others

Spec == Init /\ [][Next]_vars

=============================================================================
