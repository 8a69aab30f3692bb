------------------------------- MODULE MCVoice -------------------------------
(***************************************************************************)
(* Voice on two instances: one in which rings overlap with each other, with *)
(* answers and with a call that ends (the constants of the configuration), *)
(* and one without rings, in which both clients follow a call whose states *)
(* have flags.  Either has one message handled at a time.                  *)
(***************************************************************************)
EXTENDS Voice

CONSTANTS muted, deafened

VARIABLE instance  \* "rings" or "call"

allVars == <<vars, instance>>

Call == INSTANCE Voice WITH
    Watchers <- Users, Flags <- {muted, deafened}, Callers <- {}, MaxRings <- 0

MCInit ==
    \/ instance = "rings" /\ Init
    \/ instance = "call" /\ Call!Init

RingsNext == instance = "rings" /\ Next /\ UNCHANGED instance

CallNext == instance = "call" /\ Call!Next /\ UNCHANGED instance

MCNext == RingsNext \/ CallNext

WhenRinging(Step) == instance = "rings" /\ Step /\ UNCHANGED instance

\* Voice's fairness; no property of the call without rings needs any.
MCFairness ==
    /\ \A u \in Users : WF_allVars(WhenRinging(Timeout(u)))
    /\ \A t \in Tasks : WF_allVars(WhenRinging(DismissStep(t)))
    /\ \A q \in Requests : WF_allVars(WhenRinging(CallStep(q)))
    /\ \A w \in Watchers : WF_allVars(WhenRinging(\E i \in 1..Len(inbox[w]) : Receive(w, i)))

MCSpec == MCInit /\ [][MCNext]_allVars /\ MCFairness

=============================================================================
