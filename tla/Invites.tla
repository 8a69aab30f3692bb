------------------------------ MODULE Invites -------------------------------
(***************************************************************************)
(* The invites of one guild: InvitesService of guild-service, joining and  *)
(* leaving through it, and the dialog, the lists and the pages of the web  *)
(* client.                                                                 *)
(*                                                                         *)
(* Requests interleave: every write of a handler is a step, and so is what *)
(* it reads before it.  The database answers; user-service, which is asked *)
(* for profiles, may not.                                                  *)
(* A link is the invite it was shown for; once shown it can be passed on   *)
(* to anybody.  The code of an invite stands for its id: codes are drawn   *)
(* at random, and unique by a constraint.                                  *)
(***************************************************************************)
EXTENDS Naturals, FiniteSets

CONSTANTS
    Users,
    Owner,
    Guests,     \* the users who have left the guild, or never joined it
    Channels,   \* the text and voice channels of the guild
    Allowed,    \* Allowed[c]: the users whose roles let them create invites to c
    Managers,   \* the users whose roles let them manage the server
    MaxAges,    \* the choices for "Expire After"
    Default,    \* the first of them, "7 days"
    Never,      \* the choice of an invite that does not expire
    Does,       \* bound: Does[u], the kinds of requests u makes
    MaxAsked,   \* bound: MaxAsked[u], how many
    None

VARIABLES
    members,    \* the rows of guild_members
    stored,     \* the channels that are not deleted
    invites,    \* the rows of invite
    expired,    \* the invites whose expiresAt has passed
    requests,   \* requests that are not yet answered, each with its step
    dialog,     \* dialog[u]: what u's invite dialog shows, or None
    listing,    \* listing[u]: the invites u's settings page lists, or None
    shown,      \* the users whose client shows the guild
    links,      \* the invites whose links were shown to someone
    made,       \* made[u]: how many requests u has made
    together,   \* history: the pairs of requests for an invite that were handled at once
    crossed,    \* history: the users who joined and left at once
    unheard     \* history: the users who became members by a request that was answered with a
                \* failure, until another is answered with a success

inviteVars == <<members, stored, invites, expired, requests, dialog, listing, shown, links, made,
                together, crossed, unheard>>

serverVars == <<members, stored, invites, expired>>
clientVars == <<dialog, listing, shown, links>>
historyVars == <<made, together, crossed, unheard>>

Invite == [id : Users \X Nat, channel : Channels, maxAge : MaxAges]

TypeOK ==
    /\ members \subseteq Users /\ stored \subseteq Channels
    /\ \A i \in invites : i \in Invite /\ i.channel \in stored
    /\ \A i \in expired : i \in Invite /\ i.maxAge # Never
    /\ \A r \in requests : r.by \in Users
    /\ \A u \in Users :
         /\ dialog[u] # None =>
              /\ dialog[u].screen \in {"create-invite", "edit-invite"}
              /\ dialog[u].settings \in MaxAges
              /\ dialog[u].invite = None \/ dialog[u].invite \in Invite
         /\ listing[u] # None => \A i \in listing[u] : i \in Invite
    /\ shown \subseteq Users /\ \A i \in links : i \in Invite

-----------------------------------------------------------------------------
(* Requests.  One for an invite names the dialog that waits for the answer. *)

Under(u, kind) == {r \in requests : r.by = u /\ r.kind = kind}

\* What u asks for, numbered; and the pairs it makes with what is under way.
Ask(u, kind, channel, maxAge, invite) ==
    LET id == <<u, made[u] + 1>>
        creating == {r \in requests : r.kind = "create" /\ r.step # "answered"} IN
    /\ kind \in Does[u] /\ made[u] < MaxAsked[u]
    /\ made' = [made EXCEPT ![u] = @ + 1]
    /\ requests' = requests \cup
           {[by |-> u, kind |-> kind, step |-> "sent", id |-> id, channel |-> channel,
             maxAge |-> maxAge, invite |-> invite, answer |-> None,
             dialog |-> IF dialog[u] = None THEN id ELSE dialog[u].id]}
    /\ together' = IF kind = "create" THEN together \cup {{id, r.id} : r \in creating}
                   ELSE together
    /\ crossed' = IF \/ kind = "join" /\ Under(u, "leave") # {}
                     \/ kind = "leave" /\ Under(u, "join") # {}
                  THEN crossed \cup {u} ELSE crossed
    /\ UNCHANGED unheard

Moves(r, step) == requests' = (requests \ {r}) \cup {[r EXCEPT !.step = step]}

Answers(r, answer) ==
    requests' = (requests \ {r}) \cup {[r EXCEPT !.step = "answered", !.answer = answer]}

Ok(data) == [success |-> TRUE, data |-> data]

Failed == [success |-> FALSE]

Handles(r, kind, step) == r.kind = kind /\ r.step = step

MayCreate(u, c) == u = Owner \/ u \in Allowed[c]

MayManage(u) == u = Owner \/ u \in Managers

-----------------------------------------------------------------------------
(* InvitesService. *)

Alike(i, r) == i.channel = r.channel /\ i.maxAge = r.maxAge

Finds(r) == {i \in invites : Alike(i, r)}

\* An operator whose name ends in _Mutant is a plausible mistake in the one it is named
\* for, and part of no behaviour.
CreateFind_Mutant(r) ==
    /\ Handles(r, "create", "sent")
    /\ IF ~(r.channel \in stored /\ MayCreate(r.by, r.channel)) THEN Answers(r, Failed)
       ELSE \/ \E i \in Finds(r) : Answers(r, Ok(i))
            \/ Moves(r, "save")
    /\ UNCHANGED <<serverVars, clientVars, historyVars>>

\* The permission does not ask whether the user is a member.  An invite to the channel with
\* the same age is answered, whether it has expired or not.
CreateFind(r) ==
    /\ Handles(r, "create", "sent")
    /\ IF ~(r.channel \in stored /\ MayCreate(r.by, r.channel)) THEN Answers(r, Failed)
       ELSE \/ \E i \in Finds(r) : Answers(r, Ok(i))
            \/ Finds(r) = {} /\ Moves(r, "save")
    /\ UNCHANGED <<serverVars, clientVars, historyVars>>

\* The row refers to its channel, and fails without it.
CreateSave(r) ==
    LET new == [id |-> r.id, channel |-> r.channel, maxAge |-> r.maxAge] IN
    /\ Handles(r, "create", "save")
    /\ IF r.channel \in stored
       THEN invites' = invites \cup {new} /\ Answers(r, Ok(new))
       ELSE UNCHANGED invites /\ Answers(r, Failed)
    /\ UNCHANGED <<members, stored, expired, clientVars, historyVars>>

\* A channel's invites are for the owner, a guild's for those who manage it.
List(r) ==
    LET mayList == IF r.channel = None THEN MayManage(r.by) ELSE r.by = Owner IN
    /\ Handles(r, "list", "sent")
    /\ IF mayList
       THEN Answers(r, Ok({i \in invites \ expired : r.channel \in {None, i.channel}}))
       ELSE Answers(r, Failed)
    /\ UNCHANGED <<serverVars, clientVars, historyVars>>

DeleteFind(r) ==
    /\ Handles(r, "delete", "sent")
    /\ IF r.invite \in invites /\ MayManage(r.by) THEN Moves(r, "save") ELSE Answers(r, Failed)
    /\ UNCHANGED <<serverVars, clientVars, historyVars>>

DeleteSave(r) ==
    /\ Handles(r, "delete", "save")
    /\ invites' = invites \ {r.invite}
    /\ Answers(r, Ok(None))
    /\ UNCHANGED <<members, stored, expired, clientVars, historyVars>>

\* Whether the invite has expired is not asked.
JoinFind(r) ==
    /\ Handles(r, "join", "sent")
    /\ IF r.invite \in invites /\ r.by \notin members THEN Moves(r, "save")
       ELSE Answers(r, Failed)
    /\ UNCHANGED <<serverVars, clientVars, historyVars>>

\* The new member's profile is fetched first, which can fail.
JoinSave(r) ==
    /\ Handles(r, "join", "save")
    /\ \/ members' = members \cup {r.by} /\ Moves(r, "load")
       \/ UNCHANGED members /\ Answers(r, Failed)
    /\ UNCHANGED <<stored, invites, expired, clientVars, historyVars>>

\* The answer is the guild as GuildsService.findOne shows it to a member, with the members'
\* profiles.  When they cannot be fetched, who has become a member is told of a failure.
JoinLoad(r) ==
    /\ Handles(r, "join", "load")
    /\ \/ r.by \in members /\ Answers(r, Ok(None)) /\ UNCHANGED unheard
       \/ Answers(r, Failed) /\ unheard' = unheard \cup ({r.by} \cap members)
    /\ UNCHANGED <<serverVars, clientVars, made, together, crossed>>

Leave(r) ==
    /\ Handles(r, "leave", "sent")
    /\ IF r.by \in members /\ r.by # Owner
       THEN members' = members \ {r.by} /\ Answers(r, Ok(None))
       ELSE UNCHANGED members /\ Answers(r, Failed)
    /\ UNCHANGED <<stored, invites, expired, clientVars, historyVars>>

DeleteChannel_Mutant(c) ==
    /\ "channel" \in Does[Owner] /\ c \in stored
    /\ stored' = stored \ {c}
    /\ UNCHANGED <<members, invites, expired, requests, clientVars, historyVars>>

\* The rows of invites go with their channel.
DeleteChannel(c) ==
    /\ "channel" \in Does[Owner] /\ c \in stored
    /\ stored' = stored \ {c}
    /\ invites' = {i \in invites : i.channel # c}
    /\ UNCHANGED <<members, expired, requests, clientVars, historyVars>>

\* Time passes; nothing runs.
Expire(i) ==
    /\ i \in invites \ expired /\ i.maxAge # Never
    /\ expired' = expired \cup {i}
    /\ UNCHANGED <<members, stored, invites, requests, clientVars, historyVars>>

-----------------------------------------------------------------------------
(* The web client. *)

\* The button is there for whom the client finds to be allowed.  The dialog asks for a link
\* with the default age at once.
OpenDialog(u, c) ==
    /\ u \in shown /\ dialog[u] = None /\ listing[u] = None
    /\ c \in stored /\ MayCreate(u, c)
    /\ Ask(u, "create", c, Default, None)
    /\ dialog' = [dialog EXCEPT ![u] =
           [id |-> <<u, made[u] + 1>>, channel |-> c, screen |-> "create-invite",
            settings |-> Default, invite |-> None]]
    /\ UNCHANGED <<serverVars, listing, shown, links>>

\* "Edit Invite Link", the choice of an age, and "Cancel".
EditLink(u) ==
    /\ dialog[u] # None
    /\ \/ /\ dialog[u].screen = "create-invite"
          /\ dialog' = [dialog EXCEPT ![u].screen = "edit-invite"]
       \/ /\ dialog[u].screen = "edit-invite"
          /\ \/ \E age \in MaxAges : dialog' = [dialog EXCEPT ![u].settings = age]
             \/ dialog' = [dialog EXCEPT ![u].screen = "create-invite"]
    /\ UNCHANGED <<serverVars, requests, listing, shown, links, historyVars>>

\* "Generate a New Link", which can find the link there is.
GenerateLink(u) ==
    /\ dialog[u] # None /\ dialog[u].screen = "edit-invite"
    /\ Ask(u, "create", dialog[u].channel, dialog[u].settings, None)
    /\ UNCHANGED <<serverVars, clientVars>>

CloseDialog(u) ==
    /\ dialog[u] # None
    /\ dialog' = [dialog EXCEPT ![u] = None]
    /\ UNCHANGED <<serverVars, requests, listing, shown, links, historyVars>>

\* The invites of the guild (None) or of a channel, in its settings.
OpenList(u, c) ==
    /\ u \in shown /\ dialog[u] = None /\ listing[u] = None /\ c \in stored \cup {None}
    /\ Ask(u, "list", c, None, None)
    /\ listing' = [listing EXCEPT ![u] = {}]
    /\ UNCHANGED <<serverVars, dialog, shown, links>>

CloseList(u) ==
    /\ listing[u] # None
    /\ listing' = [listing EXCEPT ![u] = None]
    /\ UNCHANGED <<serverVars, requests, dialog, shown, links, historyVars>>

\* The list is not fetched again: it goes on showing the invite.
Revoke(u) ==
    /\ listing[u] # None
    /\ \E i \in listing[u] : Ask(u, "delete", None, None, i)
    /\ UNCHANGED <<serverVars, clientVars>>

\* Whoever has a link can open its page, members too.
FollowLink(u) ==
    /\ dialog[u] = None /\ listing[u] = None
    /\ \E i \in links : Ask(u, "join", None, None, i)
    /\ UNCHANGED <<serverVars, clientVars>>

LeaveGuild(u) ==
    /\ u \in shown /\ dialog[u] = None /\ listing[u] = None /\ Under(u, "leave") = {}
    /\ Ask(u, "leave", None, None, None)
    /\ UNCHANGED <<serverVars, clientVars>>

\* An answer for a dialog that was closed changes nothing.  The first answer of a dialog
\* sets the link even if it is none; and every later one brings the link's screen back.
TakeInvite(r) ==
    LET u == r.by IN
    /\ Handles(r, "create", "answered")
    /\ requests' = requests \ {r}
    /\ IF dialog[u] # None /\ dialog[u].id = r.dialog
       THEN dialog' = [dialog EXCEPT
                ![u].invite = IF r.answer.success THEN r.answer.data
                              ELSE IF r.id = r.dialog THEN None ELSE @,
                ![u].screen = IF r.id = r.dialog THEN @ ELSE "create-invite"]
       ELSE UNCHANGED dialog
    /\ links' = IF r.answer.success THEN links \cup {r.answer.data} ELSE links
    /\ UNCHANGED <<serverVars, listing, shown, historyVars>>

TakeList(r) ==
    LET u == r.by IN
    /\ Handles(r, "list", "answered")
    /\ requests' = requests \ {r}
    /\ listing' = IF r.answer.success /\ listing[u] # None
                  THEN [listing EXCEPT ![u] = r.answer.data] ELSE listing
    /\ links' = IF r.answer.success THEN links \cup r.answer.data ELSE links
    /\ UNCHANGED <<serverVars, dialog, shown, historyVars>>

TakeMembership_Mutant(r) ==
    LET u == r.by IN
    /\ r.kind \in {"join", "leave"} /\ r.step = "answered"
    /\ requests' = requests \ {r}
    /\ shown' = IF r.kind = "join" THEN shown \cup {u} ELSE shown \ {u}
    /\ dialog' = IF u \in shown' THEN dialog ELSE [dialog EXCEPT ![u] = None]
    /\ listing' = IF u \in shown' THEN listing ELSE [listing EXCEPT ![u] = None]
    /\ unheard' = IF r.answer.success THEN unheard \ {u} ELSE unheard
    /\ UNCHANGED <<serverVars, links, made, together, crossed>>

TakeMembership(r) ==
    LET u == r.by IN
    /\ r.kind \in {"join", "leave"} /\ r.step = "answered"
    /\ requests' = requests \ {r}
    /\ shown' = IF ~r.answer.success THEN shown
                ELSE IF r.kind = "join" THEN shown \cup {u} ELSE shown \ {u}
    /\ dialog' = IF u \in shown' THEN dialog ELSE [dialog EXCEPT ![u] = None]
    /\ listing' = IF u \in shown' THEN listing ELSE [listing EXCEPT ![u] = None]
    /\ unheard' = IF r.answer.success THEN unheard \ {u} ELSE unheard
    /\ UNCHANGED <<serverVars, links, made, together, crossed>>

\* What deleteInvite answers is not looked at.
TakeDeletion(r) ==
    /\ Handles(r, "delete", "answered")
    /\ requests' = requests \ {r}
    /\ UNCHANGED <<serverVars, clientVars, historyVars>>

-----------------------------------------------------------------------------
Init ==
    /\ members = Users \ Guests /\ shown = Users \ Guests
    /\ stored = Channels
    /\ invites = {} /\ expired = {} /\ requests = {} /\ links = {}
    /\ dialog = [u \in Users |-> None]
    /\ listing = [u \in Users |-> None]
    /\ made = [u \in Users |-> 0]
    /\ together = {} /\ crossed = {} /\ unheard = {}

Serve(r) ==
    \/ CreateFind(r) \/ CreateSave(r) \/ List(r) \/ DeleteFind(r)
    \/ DeleteSave(r) \/ JoinFind(r) \/ JoinSave(r) \/ JoinLoad(r) \/ Leave(r)

Receive(r) == TakeInvite(r) \/ TakeList(r) \/ TakeMembership(r) \/ TakeDeletion(r)

Click(u) ==
    \/ \E c \in Channels : OpenDialog(u, c)
    \/ EditLink(u) \/ GenerateLink(u) \/ CloseDialog(u)
    \/ \E c \in Channels \cup {None} : OpenList(u, c)
    \/ CloseList(u) \/ Revoke(u) \/ FollowLink(u) \/ LeaveGuild(u)

Next ==
    \/ \E r \in requests : Serve(r) \/ Receive(r)
    \/ \E u \in Users : Click(u)
    \/ \E c \in Channels : DeleteChannel(c)
    \/ \E i \in invites : Expire(i)

Spec == Init /\ [][Next]_inviteVars

-----------------------------------------------------------------------------
(* Properties. *)

\* A channel has two invites of one age only if they were asked for at once
\* (invites.service.ts:73-98): the constraint is on the code, which differs.
InvitesAreUnique ==
    \A i, j \in invites : i # j /\ i.channel = j.channel /\ i.maxAge = j.maxAge =>
        {i.id, j.id} \in together

\* When nothing a user asked for is under way, the user's client shows the guild exactly if
\* the user is a member (page.tsx:16-27, mutations.ts:329-340): through whichever links and
\* however often the user joined, while others joined, left and revoked the links.  Who
\* joined and left at once is exempt: the answers can arrive in the other order.  And a
\* member is not shown the guild after a request to join that failed when the row was saved
\* and the members' profiles could not be fetched (guilds.service.ts:312, 323, 259): the
\* page goes back, and the link is refused to who is a member.
MembershipIsShown ==
    \A u \in Users \ crossed :
        (\A r \in requests : r.by = u => r.kind \notin {"join", "leave"}) =>
            /\ u \in shown => u \in members
            /\ u \in members => u \in shown \cup unheard

=============================================================================
