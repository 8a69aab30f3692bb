------------------------------ MODULE MCEditors ------------------------------
(***************************************************************************)
(* Editors on small instances, each a scenario of its own: what the owner  *)
(* o and the member p ask for and how often, and whose settings they open. *)
(***************************************************************************)
EXTENDS Editors

CONSTANTS o, p, everyone, mod, new, cat, txt, added, group

VARIABLE scenario

const_Users == {o, p}
const_Roles == {everyone, mod, new}
const_Channels == {cat, txt, added, group}
const_Categories == {cat, group}
const_Permissions == {VIEW_CHANNELS, MANAGE_CHANNELS, MANAGE_ROLES, MANAGE_SERVERS}
const_Targets == {mod}
const_Clicks == [u \in {o, p} |-> 2]

Does(requests, pages, n) == [requests |-> requests, pages |-> pages, clicks |-> n]

Scenarios == {
    o :> Does({"overwrites", "edits"}, {txt}, 1) @@ p :> Does({"overwrites", "edits"}, {txt}, 1),
    o :> Does({"overwrites", "edits"}, {txt}, 1) @@ p :> Does({"overwrites", "edits"}, {cat}, 1),
    o :> Does({"overwrites", "edits"}, {txt}, 1) @@ p :> Does({"channels"}, {}, 2),
    o :> Does({"overwrites", "edits"}, {txt}, 2) @@ p :> Does({}, {}, 0),
    o :> Does({"roles", "edits"}, {mod, new}, 1) @@ p :> Does({"members"}, {mod}, 1),
    o :> Does({"roles", "members"}, {mod}, 1) @@ p :> Does({"roles", "members"}, {mod}, 2),
    o :> Does({"channels", "members"}, {}, 1) @@ p :> Does({"channels", "members"}, {}, 2),
    o :> Does({"overwrites", "edits", "private"}, {txt, cat}, 1) @@ p :> Does({}, {}, 0) }

MCInit == Init /\ scenario \in Scenarios

Keeps(u) ==
    LET s == screen'[u] IN
    /\ clicks'[u] <= scenario[u].clicks
    /\ s # NoScreen => s.id \in scenario[u].pages
    /\ s # NoScreen /\ s.touched # {} => "edits" \in scenario[u].requests
    /\ private'[u] # {} => "private" \in scenario[u].requests

MCNext ==
    /\ UNCHANGED scenario
    /\ \E u \in Users :
          LET does(kind) == kind \in scenario[u].requests IN
          \/ Browse(u) \/ Edit(u)
          \/ does("overwrites") /\ OverwriteRequest(u)
          \/ does("channels") /\ ChannelRequest(u)
          \/ does("roles") /\ RoleRequest(u)
          \/ does("members") /\ MemberRequest(u)
          \/ \E i \in DOMAIN inbox[u] : Take(u, i)
    /\ \A u \in Users : Keeps(u)

MCSpec == MCInit /\ [][MCNext]_<<vars, scenario>>
=============================================================================
