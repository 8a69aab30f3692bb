----------------------------- MODULE Components -----------------------------
(***************************************************************************)
(* The components that need no other, side by side: accounts, invites,     *)
(* direct channels, profiles, the typing indicator and the microphone      *)
(* test.  A step is of one of them, and leaves the others' variables alone. *)
(***************************************************************************)
EXTENDS Naturals, FiniteSets, Sequences

CONSTANTS
    None,
    \* accounts
    Browsers, Typed, toLower, Logins, Passwords, Operations, MaxCalls, MaxPages, AccountFaults,
    \* invites
    Users, Owner, Guests, TextChannels, Allowed, Managers, MaxAges, Default, Never,
    Does, MaxMade,
    \* direct channels
    MaxOrders, MaxDirectLoads, DirectFaults,
    \* profiles
    Clients, Me, Names, UserName, Texts, Statuses, MaxChanges, MaxProfileLoads,
    \* the typing indicator
    Typist, Viewers, Cooldown, Timeout, Delay, MaxMoves,
    \* the microphone test
    Takes

\* Who goes on typing announces it again (page.tsx:164-175, 8 seconds) after the announcement
\* before has arrived, and so early that the new one arrives before the timer of the old one
\* is over (user-typing-store.ts:36-76, 10 seconds).
ASSUME ComponentsAssumption ==
    /\ MaxCalls \in [Browsers -> Nat] /\ None \notin Browsers \X Nat
    /\ Owner \in Users \ Guests /\ Default \in MaxAges /\ None \notin TextChannels
    /\ MaxMade \in [Users -> Nat] /\ MaxOrders \in [Users -> Nat]
    /\ Me \in Clients /\ Texts # {} /\ Statuses # {} /\ None \notin Statuses
    /\ None \notin [name : Names \cup {UserName}, bio : Texts, pronouns : Texts, status : Statuses]
    /\ Typist \notin Viewers /\ "service" \notin Viewers
    /\ {Cooldown, Timeout, Delay} \subseteq Nat
    /\ Delay < Cooldown /\ Cooldown + Delay < Timeout
    /\ None \notin Takes

VARIABLES
    identities, profiles, cookie, authorized, page, calls, asked, loads, met, early, lost,
    members, stored, invites, expired, requests, dialog, listing, shown, links, made, together,
    crossed, unheard,
    channels, recipients, orders, known, queried, ordered, directLoads, directTogether,
    row, changes, queue, mail, subscribed, snapshot, profile, status, changed, profileLoads,
    wanted, mixed, missed,
    allowed, cooling, wire, typing, timers, moves, quiet, keyed, steady,
    recorder, live, stream, timeouts, recording, audio, urls, mounted, paired, cut

accountVars == <<identities, profiles, cookie, authorized, page, calls, asked, loads, met, early,
                 lost>>
inviteVars == <<members, stored, invites, expired, requests, dialog, listing, shown, links, made,
                together, crossed, unheard>>
directVars == <<channels, recipients, orders, known, queried, ordered, directLoads, directTogether>>
profileVars == <<row, changes, queue, mail, subscribed, snapshot, profile, status, changed,
                 profileLoads, wanted, mixed, missed>>
typingVars == <<allowed, cooling, wire, typing, timers, moves, quiet, keyed, steady>>
micVars == <<recorder, live, stream, timeouts, recording, audio, urls, mounted, paired, cut>>

vars == <<accountVars, inviteVars, directVars, profileVars, typingVars, micVars>>

-----------------------------------------------------------------------------
Account == INSTANCE Accounts WITH
    Names <- Logins, MaxAsked <- MaxCalls, MaxLoads <- MaxPages, Faults <- AccountFaults

Invite == INSTANCE Invites WITH Channels <- TextChannels, MaxAsked <- MaxMade

Direct == INSTANCE DirectChannels WITH
    MaxAsked <- MaxOrders, MaxLoads <- MaxDirectLoads, Faults <- DirectFaults,
    requests <- orders, asked <- ordered, loads <- directLoads, together <- directTogether

Profile == INSTANCE Profiles WITH
    MaxAsked <- MaxChanges, MaxLoads <- MaxProfileLoads,
    requests <- changes, shown <- profile, asked <- changed, loads <- profileLoads

Indicator == INSTANCE Typing WITH MaxChanges <- MaxMoves, changes <- moves

Mic == INSTANCE MicTest

-----------------------------------------------------------------------------
Init ==
    Account!Init /\ Invite!Init /\ Direct!Init /\ Profile!Init /\ Indicator!Init /\ Mic!Init

AccountNext ==
    Account!Next /\ UNCHANGED <<inviteVars, directVars, profileVars, typingVars, micVars>>
InviteNext ==
    Invite!Next /\ UNCHANGED <<accountVars, directVars, profileVars, typingVars, micVars>>
DirectNext ==
    Direct!Next /\ UNCHANGED <<accountVars, inviteVars, profileVars, typingVars, micVars>>
ProfileNext ==
    Profile!Next /\ UNCHANGED <<accountVars, inviteVars, directVars, typingVars, micVars>>
TypingNext ==
    Indicator!Next /\ UNCHANGED <<accountVars, inviteVars, directVars, profileVars, micVars>>
MicNext == Mic!Next /\ UNCHANGED <<accountVars, inviteVars, directVars, profileVars, typingVars>>

Next ==
    AccountNext \/ InviteNext \/ DirectNext \/ ProfileNext \/ TypingNext \/ MicNext

Spec == Init /\ [][Next]_vars

-----------------------------------------------------------------------------
(* Properties *)

\* Every variable has its type.
TypeOK ==
    /\ Account!TypeOK /\ Invite!TypeOK /\ Direct!TypeOK /\ Profile!TypeOK
    /\ Indicator!TypeOK /\ Mic!TypeOK

\* There are two accounts of one address or user name, two invites to a channel with one age,
\* or two direct channels of a pair, only if they were asked for at once (auth.service.ts:55-74,
\* invites.service.ts:73-98, channels.service.ts:251-286): each is looked for and then
\* inserted, and no constraint of a database stops the second.
Unique == Account!AccountsAreUnique /\ Invite!InvitesAreUnique /\ Direct!DMChannelsAreUnique

\* When no registration is being handled, every account and every session is of a user who
\* has a profile, whatever failed on the way (auth.service.ts:76-113).
AccountsAreWhole == Account!AccountsAreWhole

\* A user's client shows the guild exactly if the user is a member, through whichever links
\* and however often the user joined, while these were revoked (page.tsx:16-27,
\* mutations.ts:329-340), unless the user joined and left at once, or the answer to who became
\* a member was a failure (guilds.service.ts:259).
MembershipIsShown == Invite!MembershipIsShown

\* If the changes of a profile never overlapped, then when none is under way the row holds what
\* they asked for, and every client shows it that did not load while one was announced
\* (user-profiles.service.ts:110-180, 238-280).
ProfileIsShown == Profile!ProfileIsShown

\* Nobody is shown as typing long after the last key; and who goes on typing is shown without
\* a break (page.tsx:164-175, user-typing-store.ts:36-76).
IndicatorIsTimely == Indicator!IndicatorIsTimely

\* The microphone is off and the button enabled when no recording is under way, unless two were
\* asked for at once (media-settings-section.tsx:149-214).
MicrophoneIsReleased == Mic!MicrophoneIsReleased
=============================================================================
