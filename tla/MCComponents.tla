---------------------------- MODULE MCComponents ----------------------------
(***************************************************************************)
(* Components on small instances in one run.  A behaviour is of one        *)
(* scenario: one component at work, of which the scenario can leave out    *)
(* what it does not ask for.                                               *)
(***************************************************************************)
EXTENDS Components, TLC

VARIABLE scenario

-----------------------------------------------------------------------------
(* Accounts: two people who register and log in while user-service fails; one who logs in   *)
(* to what another registers; and a browser that does everything there is to do with a      *)
(* session, and loads pages or loses answers.                                               *)

const_toLower == "e1" :> "e1" @@ "E1" :> "e1"

Register(emails) == [kind : {"register"}, email : emails, username : {"n1"}, password : {"p"}]
LogIn(emails) == [kind : {"login"}, email : emails, password : {"p"}]
Change == [kind : {"password"}, old : {"p", "q"}, new : {"p", "q"}]
Session ==
    Register({"e1"}) \cup [kind : {"login"}, email : {"e1"}, password : {"p", "q"}]
    \cup Change \cup [kind : {"fetch", "logout"}]

const_Operations ==
    "a" :> Register({"e1", "E1"}) \cup LogIn({"e1", "E1"})
    @@ "b" :> Register({"e1", "E1"}) \cup LogIn({"e1", "E1"})
    @@ "host" :> Register({"e1"}) @@ "guest" :> LogIn({"e1"}) \cup Change
    @@ "session" :> Session @@ "lossy" :> Session

const_MaxCalls ==
    "a" :> 2 @@ "b" :> 1 @@ "host" :> 2 @@ "guest" :> 2 @@ "session" :> 3 @@ "lossy" :> 3
const_MaxPages == [b \in Browsers |-> IF b = "session" THEN 1 ELSE 0]
const_AccountFaults ==
    [b \in Browsers |-> CASE b = "session" -> {} [] b = "lossy" -> {"profile", "answer"}
                         [] OTHER -> {"profile"}]

Active == [people |-> {"a", "b"}, visit |-> {"host", "guest"}, session |-> {"session"},
           lossy |-> {"lossy"}]

OnlyActive ==
    \A b \in Browsers \ Active[scenario] :
        UNCHANGED <<page[b], asked[b], loads[b]>>

-----------------------------------------------------------------------------
(* The constants of the others.  What a link is asked for is divided among two scenarios: *)
(* the owner a and a member b who invite others to a channel; and b, who comes and goes   *)
(* through the links while these are revoked and the channel is deleted.                  *)

const_Allowed == "c1" :> {"b"}
const_MaxMade == "a" :> 2 @@ "b" :> 3
const_Does == "a" :> {"create", "list", "delete", "channel"} @@ "b" :> {"create", "join", "leave"}

Asks == [links |-> "a" :> {"create", "list", "delete"} @@ "b" :> {"create"},
         membership |-> "a" :> {"create", "delete"} @@ "b" :> {"join", "leave"}]

AsScenario ==
    /\ \A r \in requests' : r.kind \in Asks[scenario][r.by]
    /\ scenario = "links" => made'["b"] <= 1 /\ stored' = stored
    /\ scenario = "membership" =>
          \A u \in Users : dialog'[u] # None => dialog'[u].settings = Default

const_MaxOrders == "a" :> 2 @@ "b" :> 1
const_MaxDirectLoads == "a" :> 0 @@ "b" :> 1
const_MaxProfileLoads == "me" :> 1 @@ "peer" :> 1
const_Takes == 1 .. 3

-----------------------------------------------------------------------------
MCInit ==
    /\ scenario \in DOMAIN Active \cup
           {"links", "membership", "direct", "profile", "typing", "mic"}
    /\ Init

MCNext ==
    /\ \/ scenario \in DOMAIN Active /\ AccountNext /\ OnlyActive
       \/ scenario \in {"links", "membership"} /\ InviteNext /\ AsScenario
       \/ scenario = "direct" /\ DirectNext
       \/ scenario = "profile" /\ ProfileNext
       \/ scenario = "typing" /\ TypingNext
       \/ scenario = "mic" /\ MicNext
    /\ UNCHANGED scenario

MCSpec == MCInit /\ [][MCNext]_<<scenario, vars>>
=============================================================================
