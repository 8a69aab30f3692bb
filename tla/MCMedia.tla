------------------------------- MODULE MCMedia -------------------------------
(***************************************************************************)
(* Media on small instances, each a scenario of its own: what each user    *)
(* clicks on in turn, how often each mutes or deafens, whether they share, *)
(* and whether a begins before b is in the call.                           *)
(***************************************************************************)
EXTENDS Media, TLC

CONSTANTS a, b, x, y

VARIABLE scenario

MCClicks == a :> 3 @@ b :> 3
MCToggles == a :> 3 @@ b :> 3

Scenario(scriptA, scriptB, togglesA, togglesB, shares, after) ==
    [script |-> a :> scriptA @@ b :> scriptB, toggles |-> a :> togglesA @@ b :> togglesB,
     shares |-> shares, after |-> after]

Join(c) == [type |-> "join", channel |-> c]
Leave(c) == [type |-> "leave", channel |-> c]

Scenarios == {
    Scenario(<<Join(x)>>, <<Join(x)>>, 1, 0, FALSE, FALSE),
    Scenario(<<Join(x), Leave(x)>>, <<Join(x)>>, 0, 0, FALSE, FALSE),
    Scenario(<<Join(x), Join(x), Leave(x)>>, << >>, 0, 0, FALSE, FALSE),
    Scenario(<<Join(x), Join(x)>>, << >>, 1, 0, FALSE, FALSE),
    Scenario(<<Join(x), Join(y)>>, <<Join(x)>>, 0, 0, FALSE, TRUE),
    Scenario(<<Join(x)>>, <<Join(x), Leave(x)>>, 3, 0, FALSE, TRUE),
    Scenario(<<Join(x)>>, <<Join(x)>>, 1, 0, TRUE, TRUE) }

MCInit == Init /\ scenario \in Scenarios

\* A click of u is the next of its script.
FollowsScript(u) ==
    clicks'[u] # clicks[u] =>
        /\ clicks[u] < Len(scenario.script[u])
        /\ Last(voice'[u]) = scenario.script[u][clicks'[u]]

Begins(u) == clicks[u] + toggles[u] = 0 /\ clicks'[u] + toggles'[u] > 0

Shares(s) == sending[s].mic # "none" /\ sending[s].share

MCNext ==
    /\ Next /\ UNCHANGED scenario
    /\ (\E s \in Sockets : Shares(s)') => scenario.shares
    /\ \A u \in Users :
          /\ FollowsScript(u)
          /\ toggles'[u] <= scenario.toggles[u]
    /\ scenario.after /\ Begins(a) => Quiet /\ clicks[b] = 1

MCSpec == MCInit /\ [][MCNext]_<<vars, scenario>>
=============================================================================
