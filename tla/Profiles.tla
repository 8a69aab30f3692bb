------------------------------ MODULE Profiles ------------------------------
(***************************************************************************)
(* The profile of one user: UserProfilesService, the event it sends to     *)
(* whoever subscribed, the profile form and the status menu of the user's  *)
(* own client, and what the clients show.                                  *)
(*                                                                         *)
(* Both handlers read the row, await, and save all of it.  An answer and   *)
(* an event travel on different connections: either can come first.  The   *)
(* events of one client arrive in order.  A profile's picture and its      *)
(* user name do not change.                                                *)
(***************************************************************************)
EXTENDS Naturals, Sequences

CONSTANTS
    Clients,
    Me,         \* the client of the user whose profile it is
    Names,      \* display names, with "" for an empty one
    UserName,   \* what an empty display name is replaced by
    Texts,      \* what can be typed as bio and as pronouns
    Statuses,
    MaxAsked,   \* bound: how many changes are asked for
    MaxLoads,   \* bound: MaxLoads[c], how often c loads
    None

VARIABLES
    row,        \* the row of user_profile
    requests,   \* the changes that are not answered, each with its step
    queue,      \* USER_PROFILE_UPDATE_EVENTs on their way to the gateway
    mail,       \* mail[c]: the events sent to c
    subscribed, \* the clients that are subscribed to the profile
    snapshot,   \* snapshot[c]: the profile in the answer to c's CLIENT_READY_EVENT, or None
    shown,      \* shown[c]: the profile in c's store; None while c loads
    status,     \* the status in the current-user store of Me
    asked,      \* asked, loads[c]: how many changes and loads there were
    loads,
    wanted,     \* history: the row as the requests want it that were answered
    mixed,      \* history: two changes were under way at once, or one while Me loaded
    missed      \* history: the clients that an event passed by while they loaded

profileVars == <<row, requests, queue, mail, subscribed, snapshot, shown, status, asked, loads,
                 wanted, mixed, missed>>

serverVars == <<row, queue, mail, subscribed>>
clientVars == <<snapshot, shown, status>>
boundVars == <<asked, loads>>

Profile == [name : Names \cup {UserName}, bio : Texts, pronouns : Texts, status : Statuses]

TypeOK ==
    /\ row \in Profile /\ wanted \in Profile
    /\ queue \in Seq(Profile) /\ \A c \in Clients : mail[c] \in Seq(Profile)
    /\ subscribed \subseteq Clients /\ missed \subseteq Clients
    /\ \A c \in Clients : {snapshot[c], shown[c]} \subseteq Profile \cup {None}
    /\ status \in Statuses \cup {None}
    /\ \A r \in requests : r.copy \in Profile

-----------------------------------------------------------------------------
(* UserProfilesService. *)

\* What a request makes of a profile.
ApplyStatus(r, p) == [p EXCEPT !.status = r.status]

ApplyProfile(r, p) ==
    [p EXCEPT !.name = IF r.name = "" THEN UserName ELSE r.name, !.bio = r.bio,
              !.pronouns = r.pronouns]

Apply(r, p) == IF r.kind = "status" THEN ApplyStatus(r, p) ELSE ApplyProfile(r, p)

Moves(r, next) == requests' = (requests \ {r}) \cup {next}

\* The row is read; or it cannot be, and the request is refused.
Find(r) ==
    /\ r.step = "sent"
    /\ \/ Moves(r, [r EXCEPT !.step = "save", !.copy = Apply(r, row)])
       \/ Moves(r, [r EXCEPT !.step = "answered"])
    /\ UNCHANGED <<serverVars, clientVars, boundVars, wanted, mixed, missed>>

\* Every column is written back as it was read.
Save(r) ==
    /\ r.step = "save"
    /\ row' = r.copy
    /\ wanted' = Apply(r, wanted)
    /\ Moves(r, [r EXCEPT !.step = "emit"])
    /\ UNCHANGED <<queue, mail, subscribed, clientVars, boundVars, mixed, missed>>

\* The event carries all of the profile, and so does the answer to the form.
Emit(r) ==
    /\ r.step = "emit"
    /\ queue' = Append(queue, r.copy)
    /\ Moves(r, [r EXCEPT !.step = "answered", !.ok = TRUE])
    /\ UNCHANGED <<row, mail, subscribed, clientVars, boundVars, wanted, mixed, missed>>

\* handleUserProfileUpdate of the gateway.
Deliver ==
    /\ queue # <<>>
    /\ queue' = Tail(queue)
    /\ mail' = [c \in Clients |->
                   IF c \in subscribed THEN Append(mail[c], Head(queue)) ELSE mail[c]]
    /\ missed' = missed \cup {c \in Clients \ subscribed : snapshot[c] # None}
    /\ UNCHANGED <<row, subscribed, requests, clientVars, boundVars, wanted, mixed>>

-----------------------------------------------------------------------------
(* The web client. *)

Replace(c, p) == shown' = [shown EXCEPT ![c] = IF @ = None THEN None ELSE p]

\* A page is loaded: its socket is new, and the stores are empty.
Load(c) ==
    /\ loads[c] < MaxLoads[c] /\ snapshot[c] = None
    /\ loads' = [loads EXCEPT ![c] = @ + 1]
    /\ subscribed' = subscribed \ {c}
    /\ mail' = [mail EXCEPT ![c] = <<>>]
    /\ snapshot' = [snapshot EXCEPT ![c] = row]      \* handleClientReady reads it
    /\ shown' = [shown EXCEPT ![c] = None]
    /\ missed' = missed \ {c}
    /\ IF c = Me
       THEN /\ status' = None
            /\ requests' = {[r EXCEPT !.heard = FALSE] : r \in requests}
            /\ mixed' = (mixed \/ requests # {})
       ELSE UNCHANGED <<status, requests, mixed>>
    /\ UNCHANGED <<row, queue, asked, wanted>>

\* Me asks for nothing before this.  The subscription follows the answer.
Show(c) ==
    /\ snapshot[c] # None /\ shown[c] = None
    /\ shown' = [shown EXCEPT ![c] = snapshot[c]]
    /\ status' = IF c = Me THEN snapshot[c].status ELSE status
    /\ UNCHANGED <<serverVars, requests, snapshot, boundVars, wanted, mixed, missed>>

SubscribeEvents(c) ==
    /\ snapshot[c] # None /\ shown[c] # None
    /\ subscribed' = subscribed \cup {c}
    /\ snapshot' = [snapshot EXCEPT ![c] = None]
    /\ UNCHANGED <<row, queue, mail, requests, shown, status, boundVars, wanted, mixed,
                   missed>>

\* USER_PROFILE_UPDATE_EVENT: the profile store takes it, the current-user store does not.
\* An operator whose name ends in _Mutant is a plausible mistake in the one it is named
\* for, and part of no behaviour.
HandleUserStatusUpdate_Mutant(c) ==
    /\ mail[c] # <<>>
    /\ mail' = [mail EXCEPT ![c] = Tail(@)]
    /\ Replace(c, [Head(mail[c]) EXCEPT !.status = shown[c].status])
    /\ UNCHANGED <<row, queue, subscribed, requests, snapshot, status, boundVars, wanted,
                   mixed, missed>>

HandleUserStatusUpdate(c) ==
    /\ mail[c] # <<>>
    /\ mail' = [mail EXCEPT ![c] = Tail(@)]
    /\ Replace(c, Head(mail[c]))
    /\ UNCHANGED <<row, queue, subscribed, requests, snapshot, status, boundVars, wanted,
                   mixed, missed>>

Ask(request) ==
    /\ asked < MaxAsked
    /\ asked' = asked + 1
    /\ requests' = requests \cup {request}
    /\ mixed' = (mixed \/ requests # {})

Request(kind) ==
    [kind |-> kind, id |-> asked + 1, step |-> "sent", copy |-> row, ok |-> FALSE,
     heard |-> TRUE, status |-> None, before |-> None, name |-> "", bio |-> "", pronouns |-> ""]

\* The status menu shows the new status at once, and remembers the old one.
HandleUpdateStatus(s) ==
    /\ shown[Me] # None /\ s # status
    /\ Ask([Request("status") EXCEPT !.status = s, !.before = status])
    /\ status' = s
    /\ UNCHANGED <<serverVars, snapshot, shown, loads, wanted, missed>>

Saving == \E r \in requests : r.kind = "profile" /\ r.heard

HaveChanges(draft) ==
    \/ draft.name # shown[Me].name
    \/ draft.pronouns # shown[Me].pronouns
    \/ draft.bio # shown[Me].bio

\* Whatever was typed into the form, which starts with the profile in the store.  What is
\* sent as pronouns is the bio.
OnSaveChanges(draft) ==
    /\ shown[Me] # None /\ ~Saving /\ HaveChanges(draft)
    /\ Ask([Request("profile") EXCEPT !.name = draft.name, !.bio = draft.bio,
                                      !.pronouns = draft.bio])
    /\ UNCHANGED <<serverVars, clientVars, loads, wanted, missed>>

\* The answer to the form replaces the profile in the store, the status included.
TakeAnswer(r) ==
    /\ r.step = "answered"
    /\ requests' = requests \ {r}
    /\ IF r.heard /\ r.kind = "profile" /\ r.ok THEN Replace(Me, r.copy) ELSE UNCHANGED shown
    /\ status' = IF r.heard /\ r.kind = "status" /\ ~r.ok THEN r.before ELSE status
    /\ UNCHANGED <<serverVars, snapshot, boundVars, wanted, mixed, missed>>

-----------------------------------------------------------------------------
Init ==
    /\ row \in {[name |-> UserName, bio |-> t, pronouns |-> t, status |-> s] :
                   t \in {CHOOSE t \in Texts : TRUE}, s \in {CHOOSE s \in Statuses : TRUE}}
    /\ wanted = row
    /\ requests = {} /\ queue = <<>>
    /\ mail = [c \in Clients |-> <<>>]
    /\ subscribed = Clients
    /\ snapshot = [c \in Clients |-> None]
    /\ shown = [c \in Clients |-> row]
    /\ status = row.status
    /\ asked = 0 /\ loads = [c \in Clients |-> 0]
    /\ mixed = FALSE /\ missed = {}

Next ==
    \/ \E r \in requests : Find(r) \/ Save(r) \/ Emit(r) \/ TakeAnswer(r)
    \/ Deliver
    \/ \E c \in Clients : Load(c) \/ Show(c) \/ SubscribeEvents(c) \/ HandleUserStatusUpdate(c)
    \/ \E s \in Statuses : HandleUpdateStatus(s)
    \/ \E draft \in [name : Names, bio : Texts, pronouns : Texts] : OnSaveChanges(draft)

Spec == Init /\ [][Next]_profileVars

-----------------------------------------------------------------------------
(* Properties. *)

\* If the changes of a profile never overlapped, then when none is under way the row holds
\* what they asked for (user-profiles.service.ts:110-180, 238-280), and every client shows
\* the row, except one that loaded while a change was announced and nobody tells again
\* (layout.tsx:372-378): however the answers and the events overtook each other.
ProfileIsShown ==
    (~mixed /\ requests = {}) =>
        /\ row = wanted
        /\ queue = <<>> => \A c \in Clients \ missed :
              shown[c] # None /\ mail[c] = <<>> => shown[c] = row
        /\ status \in {row.status, None}

=============================================================================
