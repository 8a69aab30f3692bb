# Viscord: specifications, model checks and proofs

This directory holds TLA+ specifications of Viscord (`src/`), a Discord clone made of NestJS
microservices and a Next.js client. The modules are written from the source; `PROJECT.json` maps
every definition to the lines it stands for, lists the runs, the mutants that show that each
property can fail, the hazards of the code and the theorems.

* `tlc -workers 2 -config <run>.cfg <module>` checks a run (the module of each run is below);
* `tlapm <module>.tla` checks the proofs of `GuildProofs`, `VoiceProofs`, `RelationshipsProofs`,
  `PresenceProofs`, `MessagesProofs`, `MediaProofs`, `EditorsProofs` and `ComponentsProofs`.

## 1. The system

### How it executes

Every service is a Node.js process. A handler is an async function: it runs undisturbed up to the
next `await`, and the handlers of different requests interleave there. Queue consumers set no
prefetch and acknowledge on receipt, so messages of one queue are *taken* in order, handled
concurrently, and delivered at most once. No handler opens a database transaction. TypeORM's
`save(entity)` writes the loaded entity back, and inserts it when its row is gone. Redis values are
read and written by separate commands. Each of these is a step in the modules. The web client is
single-threaded too: what it does between two awaits is one step.

### Components

| component | state it keeps | operations | talks to |
|---|---|---|---|
| guild-service, guilds and channels (`guilds.service.ts`, `channels.service.ts`) | members, roles, channels, overwrites, read states (Postgres) | join, leave, roles, channels, overwrites, sync, permission checks | ws-gateway (events), message-service (gRPC) |
| guild-service, calls and rings (`channels.service.ts:638-961`) | voice states, call members, rings (Redis), ring timers (process) | ring, dismiss, join, leave, update, snapshots | ws-gateway, both ways, by queue |
| guild-service, invites | invites | create or find, list, revoke, follow | |
| guild-service, direct-message channels | channels, recipients | find, create | |
| user-service, relationships | relationships | ask, accept, block, remove, list | ws-gateway |
| user-service, profiles | profiles, status | create, update, status changes | ws-gateway, auth-service |
| message-service | messages, mentions, attachments | create, list, acknowledge | guild-service (gRPC to check, queue to announce) |
| auth-service | identities, tokens (cookies) | register, verify, login, refresh, logout, password | user-service (HTTP) |
| ws-gateway | sockets of a user, presence, subscriptions (Redis) | connect, disconnect, fan-out of events | every service, by queue |
| sfu-service | rooms, peers, transports, producers, consumers (process) | join, produce, consume, pause, close | client, mediasoup |
| web client | stores and query caches derived from replies and events; drafts; peer connections | | API gateway, ws-gateway, sfu |

Events go service -> queue -> ws-gateway -> socket. The queue and each socket keep their order; the
gateway looks up the sockets of the recipients of an event one recipient after another, and does not
wait for one event before it takes the next. Events for a single recipient therefore keep their
order, and events with several can be overtaken on the way to those who are not named first
(`ws.gateway.ts:242-257, 340-372`). The modules rely on exactly this: one FIFO for each client where
a notice has one recipient (relationships, messages of a direct-message channel), overtaking where
it has several (calls, messages of a guild). The answer to an HTTP request travels on another
connection than the events: either can come first.

### What is hard, and what makes each component correct

* **Permissions and channels.** Three copies of the evaluation must agree; the layers of overwrites
  must resolve to the most specific one; a channel that follows its category and one that does not
  must be told apart through every sequence of updates, syncs and deletions; stale rows are written
  back after awaits; updates are several writes without a transaction.
* **Editors.** Two users edit one guild: each client patches its copy from its own answers and from
  the other's events, which hold different parts of a row; drafts and stale rows outlive both.
* **Relationships.** Check-then-insert, a stale save racing a removal, and lists that clients patch
  from their own replies and from notices about the other party.
* **Calls and rings.** Two Redis keys for one fact, timers that are never cancelled and act on
  whatever ring they find, several dismissals of one ring, events that overtake each other.
* **Messages.** A count that is read and written by two commands, an acknowledgement that nobody
  waits for, a message that is deleted after it could be read, a list that is fetched, patched by
  events, patched by replies through provisional ids, invalidated and collected.
* **Presence.** Snapshot, then subscription, then merge; connections of one user that open and close
  in any order; going on- and offline handled concurrently.
* **Accounts.** A registration over two services, compensated by hand; a session whose renewal is
  refused, succeeds or is lost while the user logs in or out.
* **Invites, direct channels, profiles.** Check-then-insert again; whole rows saved; clients that are
  told of some changes and not of others.
* **Typing, microphone test.** Timers that race: with announcements, with clicks, with leaving.
* **Media.** Handlers that await mediasoup between reading and registering; a client that reads the
  user's settings before an await and uses them after.

`PROJECT.json` "hazards" names them at their lines, with the properties that cover them.

## 2. Modules

| module | models | state corresponds to |
|---|---|---|
| `Permissions` | the layering of overwrites (`permission.helper.ts`) | none: operators on sets of permissions for the bigint masks |
| `Guild` | one guild: members, roles, channels, overwrites, the three evaluations | rows of the tables, and `requests[q]`, what the handler in slot q has read and has still to write |
| `Editors` | two users who edit that guild at once | `server` (the tables), `view` (guilds store), `inbox` (events and answers under way), `screen` (the open settings page and its draft) |
| `FriendGraph` | abstract: one bond for each pair of users | |
| `Relationships` | the handlers of `relationships.service.ts`, notices, client lists | `rows`, `requests`, `inbox` (notices under way), `lists` (the client's query cache) |
| `Voice` | the call and the rings of one direct-message channel | four Redis keys, `timers`, `tasks` (handlers under way), `inbox`, `shown` and `ringing` (client stores) |
| `Media` | rooms of the media server and the clients that join them | `rooms`, `peers`, `listed`, `owned`, `served`, `paused`, `running` (sfu-service), `store`, `settings`, `loading`, `sending`, `receiving` (client) |
| `Messages` | the messages of one channel, of two users or of a guild | `saved`, `lastMessage`, `lastRead` (tables), `unread` (Redis), `sending`, `counting`, `acks` (handlers under way), `inbox`, `load`, `view` (channel store), `list`, `stale` and `fetch` (query cache) |
| `Presence` | one user's connections, status and presence key, and the viewers' clients | `registered`, `presence`, `subscribed` (Redis), `status` (profile), `opening`, `closing`, `change`, `jobs` (handlers under way), `load`, `inbox`, `shown` (client) |
| `Accounts` | identities, profiles and sessions | `identities`, `profiles` (tables), `cookie`, `authorized`, `page` (browser), `calls` (requests under way) |
| `Invites` | the invites of a guild, joining and leaving | `members`, `stored`, `invites` (tables), `requests`, `dialog`, `listing`, `shown` (client) |
| `DirectChannels` | creating the channel of a pair | `channels`, `recipients` (tables), `requests`, `known` (store), `queried` (query cache) |
| `Profiles` | changes of one profile and who shows it | `row` (table), `requests`, `queue`, `mail`, `subscribed`, `snapshot`, `shown`, `status` (stores) |
| `Typing` | the typing indicator of one user | `cooling`, `typing`, `timers` (client), `wire`, in seconds |
| `MicTest` | the microphone test of the media settings | `recorder`, `stream`, `timeouts`, `recording`, `audio`, `urls` (component state and refs) |
| `Components` | the six modules before, side by side: a step is of one and leaves the others alone | the variables of all of them |
| `MCGuild`, `MCRelationships`, `MCVoice`, `MCMessages`, `MCMessageCases`, `MCMedia`, `MCEditors`, `MCComponents` | instances for TLC, below | |
| `GuildProofs`, `VoiceProofs`, `RelationshipsProofs`, `PresenceProofs`, `MessagesProofs`, `MediaProofs`, `EditorsProofs`, `ComponentsProofs` | theorems | |

Conventions. A handler's reads up to its first write are one step, each write or Redis command is a
step of its own, and what runs on the reply to the last one (an emission, the HTTP reply) belongs to
that step unless something else can come between. A handler that only writes what its caller passed
is one step. A request that is refused changes nothing and is no step, unless the client does
something with the refusal. Ids are uuids: they are taken from a finite set and not reused
(`issued`), or named after who asked. Operators whose names end in `_Mutant` are mistakes in the
definitions they are named for; they are part of no behaviour. History variables only restrict
properties; each is named in a comment.

**Guild.** Creating, renaming, deleting and syncing channels, setting and deleting overwrites, roles and
their assignment, joining and leaving; a message in the channel, for the row it writes back. The
requests on roles and members are one step each. Any channel can be the parent of any other, because
`create` checks neither's type (`channels.service.ts:80-136`); the pages offer categories only, and
`Editors` has those. `bare` is a history variable: the channels that lost @everyone's row when they
were unsynced. With
`Faults` a handler can stop half way (a failed write or a crash leaves the same tables). The three
evaluations are operators: `EffectivePermission` (API), `MembersWithChannelPermission` (recipients
of events) and `ClientEffectivePermission` (web client). The masks are sets of permissions, with
their bitwise operations as set operations; four permissions stand for all, those the code names.

**Editors** takes up what `Guild` leaves out: what the clients are told. A request is handled in one
step, at the click; its answer and the events for the other members go into `inbox`, from which an
answer can be taken early or late and events in order. Every handler of the guilds store, of
`mutations.ts` and of the settings pages is an operator on a client's copy of the guild; the
permission arithmetic is an `INSTANCE` of `Guild` on either copy. `raced` names the users whose
client took in two changes to one row in the wrong order, `private` the channels whose "Private
Channel" box a user has ticked.

**Relationships** has one action for each endpoint, each continued by `Update`, `Write`, `Emit` and
`Replied` in its slot. Blocking sends no notice, accepting sends one to the other party, removal sends
one to the other party and the remover's client acts on the reply. `Clients` are the users who act
through the web client, which offers only actions on entries it lists; the others call the API with
any id. `KeepsFriendGraph` is the refinement, `INSTANCE FriendGraph WITH bond <- Bonds`, where `Bonds`
reads the rows. The refinement, and `NoPhantomEntry`, are claimed of one slot (`OneAtATime`); with more,
`Bonds` reads as no bonds, so that the property can be stated of both instances.

**Voice** follows every Redis command of `ring`, `dismiss`, `join`, `leave`, `clear`, `update` and
the two snapshots. A ring starts a timer (`timers[u]` counts those pending for u) whose dismissal
runs as the task of that user. `Receive(w, i)` takes the i-th event of w's inbox if no earlier one
must come first (`Overtakes`).

**Media** gives each session of a client a socket of its own, with a FIFO in each direction. A
handler of sfu-service that awaits mediasoup is two actions, one that reads and one that registers;
what the client awaits (the device, the microphone) likewise. A producer is named after its
transport, a room after the socket that made it. `hasty`, `raced` and `late` are history variables:
who clicked while a socket was set up, who muted while the producer was made, and producers that
were made when their peer was gone.

**Messages** follows one message through `create` (save, mentions, upload, announcement, unawaited
acknowledgement), `onMessageCreated` (get, set, save of the row, emission), and the client: optimistic
entry, reply, event, fetch, acknowledgement on leaving the page, garbage collection of the cache.
With `InGuild` the recipients are the members who can view the channel, in the order the query
gives, and events overtake each other. Users in `Late` load while messages are sent: the gateway
gathers their snapshot by several reads. `Inviters` send from the invite dialog, which has no
list to put the message in, and invalidates the list afterwards. With `Faults` a save, an upload, a fetch
or the save of the channel's row (`CountFails`) can fail; after the last the message is counted, and nobody is told of it.
`sender[m]`, a constant, says who would send m. An entry that is not confirmed has `slot > 0`, the
number in its id `pending-<n>`, because the reply finds its entry by that number. `reused` is a history
variable: the messages whose number went to a later one while a fetch already showed them.

**Presence** follows a connection through `handleConnection` (key, registration, event), the event through
user-service, which asks whether the user is invisible, and back to the gateway, which writes the key,
reads the subscribers and tells them one after another (`jobs`). A viewer's client asks for a snapshot, replaces
what it shows with it, then subscribes and asks a second time; `Receive` is what it does with each answer and
event. A viewer that leaves connects again with a new socket: the subscriptions of the old one stay
in Redis and reach nobody, so `Depart` takes the viewer out of `subscribed`. `missed` is a history variable.

**Accounts** has a request (`calls`) for each thing a browser asks for. It reads the cookies when it
is sent; `Serve` moves it through the handlers of auth-service and, for a registration, of
user-service, `Receive` is what the page or the interceptor does with the answer. A request that is
refused makes the interceptor renew the token and send it again. A token is the id of the user it was
signed for; `Expire` drops the access cookie.

**Invites, DirectChannels** have a set of requests, each with its step, and histories of the pairs
of requests that were handled at once (`together`). The database answers the requests on invites;
user-service, which `join` asks for profiles before and after it saves the row, may not. `unheard` is a
history variable: the members whose join failed after the row was saved. **Profiles** follows a change from the form or the
status menu through the row, the event, the gateway's subscribers and the stores of the clients.
**Typing** counts seconds (`Tick`); an event takes at most `Delay`. **MicTest** has an action for each
callback of the page: click, the browser's answer, the timer, the recorder's end, unmounting.

## 3. Runs

A run's module often joins several instances of one module, each behaviour being of one of them. The
properties read users, slots and messages off the state (`DOMAIN requests` for the slots), so that the
definition the runs check is the one the theorems are about, whatever the instance. `MCComponents`
does not join instances: it runs `Components`, of which a behaviour does one scenario.

| run | module | question | states |
|---|---|---|---|
| `guild` | MCGuild | one request at a time without faults, with a role, or with three channels: what can a sequence of calls lead to? Two that interleave at every write and stop half way: are references kept? | 305 086 |
| `guild_orphan` | MCGuild | violation: a synced channel that loses its category | |
| `editors` | MCEditors | two users edit at once, in eight scenarios: do their clients show the database? | 264 986 |
| `friends` | MCRelationships | one request at a time, both with clients: refinement of FriendGraph, client lists. Two requests that interleave, stop half way and carry any id | 357 705 |
| `voice` | MCVoice | rings, answers, timers and the end of the call overlap; liveness. Joins, leaves, updates and snapshots, with reordered events | 244 442 |
| `media` | MCMedia | two clients join, leave, switch, mute, deafen and share, in seven scenarios | 579 855 |
| `messages_dialog` | MCMessages | each user sends a message; provisional ids, delivery; liveness | 386 457 |
| `messages` | MCMessageCases | four messages of one member of a guild; two of one user, with failures; a guild; a client that loads; the invite dialog: counts, pointers, lists | 1 783 654 |
| `message_list` | MCMessages | violation: an open channel that does not show what is stored | |
| `presence` | Presence | one user, two viewers: do key, connection and what is shown agree? liveness | 125 182 |
| `presence_invisible` | Presence | violation: an invisible user who connects again | |
| `components` | MCComponents | ten scenarios: accounts (two people while user-service fails; one who logs in to what another registers; a session; one that loses answers), invites (links; membership), direct channels, a profile, the typing indicator, the microphone test | 1 265 705 |

### What they show

**Guild.**

* `OverwritesAreInOrder`: the masks of an overwrite are clean, and a channel has the overwrites
  its mode requires, whenever no request about it runs. This holds for one request at a time and
  **fails with two, or with a fault**: a stale row saved over a sync leaves an unsynced channel
  without a row for @everyone; a category deleted during an update leaves the raw masks in the
  table; a crash between the clones and the row leaves overwrites on a channel that is still synced.
  One exception needs neither (`bare`): a channel is unsynced by copying its parent's *own* overwrites
  (`channels.service.ts:1319-1350`), and a parent that is synced itself has none, so that what is below a synced
  channel loses the row for @everyone. Evaluation looks one level up only, in the same way (`1224`).
* `OverwriteUpdateIsLocal`, of one request at a time: an update of one overwrite, with the unsyncing, cloning and cleaning
  it implies, changes the permissions of nobody but those it is about.
* `EvaluatorsAgree`, `MostSpecificWins`: exceptions are part of the statements. The guild's owner is bound by
  overwrites for API calls and spared in the two other evaluations; a channel's creator is
  spared by the first alone; the listing throws on a synced channel without a parent.
* `NoDanglingReference` holds whatever interleaves, because every reference is a foreign key
  that cascades or is set to null, and a stale save that would name a deleted category
  fails on the key. What a stale save after a deletion *can* do is insert the channel again.
* `SerialSyncedHasParent` is **violated** (`guild_orphan`): `syncChannel` refuses a channel without a
  parent in so many words (`channels.service.ts:1437`), deleting a category produces one, and the
  listing of its recipients throws.

**Editors.**

* `Converged`: whoever edits what at the same time, a client that has taken in everything shows the
  guild as the database has it: although an answer and the event of one change hold different parts
  of the row (`mutations.ts:404`), and an answer can overtake events. Not claimed, because it fails:
  for a client that took in two changes to *one row* in the other order (`raced`), for positions of
  roles (creating one shifts the others and tells nobody), and for the overwrites of a synced
  channel, which its clients keep from before the sync and see again when the category is deleted.
* `DraftFollowsView`: a draft differs from what the client shows only in what its user clicked on, so
  that saving it undoes nothing the user was shown.
* Both exempt a user who ticks "Private Channel" (`channel-permissions-section.tsx:558-562`): the box
  changes the client's copy of the overwrite of @everyone only, and saves it nowhere.

**Relationships.**

* `BoundedDuplicates`: a pair has at most as many relationships as there are requests at once;
  `PartiesAreFixed`: no interleaving moves a relationship to other users. `NoPhantomEntry` and
  `KeepsFriendGraph` need requests one at a time: two requests that cross create two rows, the save of
  a stale acceptance brings back a removed row, a list fetched during a removal keeps the entry.

**Calls.**

* `RingHasTimer`, `ListedRingIsStored`: no ring without something that will end it; `NoClientLeftRinging`
  and `RingEnds` follow the argument to the client and to the end of the ring. A restart
  of guild-service is not modelled; it loses the timers, and ring keys have no expiry.
* `CallIsConsistent`, `ClientsShowTheCall`: one message at a time. With two at once they fail:
  a join and a leave of one user can leave a member without a state, and an update can write back
  the state it read before a leave.

**Media.** All but one property speak of the moments when nothing is under way (`Quiet`).

* `EveryoneIsHeard`: a client whose transports are of its room plays every producer the room lists for
  another user, though `GET_PRODUCERS` and `PRODUCER_JOINED` race, and two first joins replace each
  other's room (`index.ts:60-63`). A client whose room was replaced under it is exempt (`Attends`):
  it is heard by nobody, and hears those who are as unlucky.
* `ListedHasPeer`: what a room lists is on record with a peer, so that it goes with its client, except
  a producer that was being made when its peer went (`index.ts:126`), which stays for good (`late`).
* `MuteIsHonoured`: exempt is a user who muted or unmuted while the producer was made, which is
  created with the older setting (`peer-connection-manager.tsx:250-270`), and one who has joined again
  the call they are in: the client opens a second socket (`186`), whose producer alone follows the
  switch, while that of the first stays as it is in the same room.
* `MediaFollowsCall`: exempt is a user who joins or leaves while a socket is being set up, which is from
  its opening until its device is loaded, and while a join is under way on it. The leave is then
  ignored (`224`), and a second join opens a second socket (`186`).
* `UndeafenedHears`: who is not deafened hears each microphone the client has a consumer of. The
  converse is not claimed: consumers made later are not paused for a user who is deafened (`349-373`).

**Messages.**

* `UnreadIsBounded`, `PointersAreStored`, `ProvisionalIsRead`, `OwnMessageOnce`, `EveryMessageArrives`:
  what remains true of messages with concurrent handlers. What does not: an acknowledgement of an older
  message sets the count of newer ones to zero; a message counted while it is acknowledged counts
  again; two messages counted at once count as one; `lastMessageId` and `lastReadId` can go back; a
  message fetched before its event arrives is listed twice by its recipient; one fetched before its
  upload fails stays listed; a message that arrives while a client loads is dropped
  (`socket.context.tsx:98`), and so is an invalidation when another message arrives; a message from
  the invite dialog finds no list, so that its reply fails and nothing confirms it.
* `OwnMessageOnce` has one exception (`reused`), which four messages of one member of a guild reach, never more
  than three of them unanswered: two have the number 1 and the third 2, a fetch finds the third alone and so makes
  the list one message long, and the fourth has the number 2 as well; the reply to the third, which the list
  shows already, replaces the fourth.
* `OpenListShowsAll` is **violated** (`message_list`): a message for a channel that was never opened
  stores an empty list under the channel's key (`socket.context.tsx:102-105`), which
  `staleTime: Infinity` keeps from being fetched when the channel is opened.

**Presence.**

* `KeyFollowsConnection`, `ViewersShowTheKey`: for a user with one connection who does one thing at a
  time, also through changes of status, and for viewers who load at any moment. An announcement made between a
  client's snapshot and its subscription is lost to it, and the second answer only adds users who are online:
  the second property says that this is the only gap. With `Overlap` both fail: a connection that is
  closed at once can be announced last, and one of two connections that closes deletes the key.
* `AnnouncementArrives`: whoever is subscribed when an announcement is made is told, or has left.
* `InvisibleAppearsOffline` is **violated** (`presence_invisible`): `handleConnection` sets the key of a user who
  is invisible (`ws.gateway.ts:77`), and the second answer is read from the keys alone.

**The other components.**

* `Unique`: two accounts of one address or name, two invites of one age, two channels of one pair
  exist only if they were asked for at once. For accounts there is one exception, which TLC found: an
  account that is taken back while its owner, who logged in early, changes the password is inserted
  once more by that save (`auth.service.ts:210`), although its address may be another's by then.
* `AccountsAreWhole`: whatever fails, no account and no session is left without a profile, except
  of someone who logged in while the account was being registered (`early`): it can be taken back behind
  the session. A profile is left without an account only if the answer of user-service was lost
  (`lost`): auth-service then removes the account of a profile that was made, whose user name stays
  taken. Seen on the way, with no text to hold against it: login compares the address as it was
  typed with one stored in lower case, and only the address, though the label says "Email or
  username"; a renewal that overlaps a logout leaves the client authorized; one that is refused after
  a login has answered throws the browser back to the login page.
* `MembershipIsShown`: the client shows the guild to members only, and to every member, unless they joined and left at
  once, or a join failed after the row was saved (`unheard`): `join` then asks for the profiles of the members
  (`guilds.service.ts:323, 259`), and when user-service does not answer, it fails for who is a member by now. An expired invite still works and is no longer listed, so that it cannot be revoked; it is
  also what "Generate a New Link" can return; a revoked one stays listed until the page is opened again.
* `ProfileIsShown`: changes that never overlapped are stored and shown, except by a client that was
  loading while one was announced. The form saves the bio as pronouns too
  (`user-profile-section.tsx:243`); the own user area shows the profile of the last load.
* `IndicatorIsTimely`: nobody is shown as typing longer than timeout and delay after the last key,
  and who types on is shown without a break. The input's reset after a message announces typing again.
* `MicrophoneIsReleased`: except after two clicks before the browser answers (the first microphone
  stays on), and for a take whose tracks end early (the button stays at "Recording...").
* Direct channels: only the side that asked learns of a channel; the other is told that it exists
  already, and has no way to it before it loads again.

### Bounds, and why they suffice

* Guild: an owner and a member, one contradictory mask, and three scenarios. With @everyone, a second role and two
  channels, one of which can be the other's parent, syncing and both of its ends occur; with three channels
  and the overwrite of a member, a parent that has a parent, and the third layer. The concurrent one leaves out the
  second role, which no write races with, and names @everyone alone in overwrites.
* Editors: the owner and a member, three roles, four channels, a request or two each; each scenario
  pairs the kinds of requests that touch the same rows. While a rename is unanswered its user asks
  for nothing else.
* Relationships: two users, since every statement is about a pair; a third id in the concurrent
  instance, so that two rows can exist and a third be made. Users, ids and slots are symmetric.
* Voice: a direct-message channel has two recipients (`VoiceAssumption`). `MaxRings = 2` overlapping
  timers, one request slot beside the two timer tasks, `MaxInbox = 2` when a message is taken (the
  inbox can exceed it while the handler runs). Rings are followed at the client that is rung, calls at both.
* Media: two users with two sockets each and two channels: a first join of a room by both, a leave
  during a join, a switch of channels, mute and deafen during each other's join, a screen share. Each is a scenario; in
  half of them a user begins when the other is in the call, the order being explored in the others.
* Messages: two messages, from both users or from one (the order of two messages of one sender is the case
  a dialog lacks); each user opens the channel once (`Visits`); three members where one loads. Four
  messages are what it takes to give a number out twice over a fetched list: they are sent in one order, and only what the
  list depends on happens (`NumbersNext`). With two
  visits the safety properties were searched for five minutes, without a violation and without an end.
* Presence: the announcements of different users share nothing but sockets. Two viewers, so that an announcement
  has one viewer told and one left; one connection, since two are not claimed about; `MaxPending = 2`
  items under way to a viewer when the user acts (a reply and an event, which can be in either order).
* Components: a step is of one component, so that exploring them together would only multiply their
  states: a scenario is one at work. Two browsers for registrations, with two requests and one, or two
  each where one of them logs in to the other's account; one for a session, with three; an owner and a
  member for invites, three requests for links and five for membership; two orders of a direct channel
  from one side and one from the other; two changes of a profile; cooldown and timeout of the indicator are
  half the real ones (4 and 6 seconds for 8 and 10), with a delay of one, and the theorem is for all; three takes of the microphone.

### Fairness

`Voice`: weak fairness of a timer that runs, of each task and of each client's next event, because
the event loop runs a timer or a reply that is ready and sockets deliver. Nothing is assumed of callers
or of arrivals. `Messages`: the same for each message in message-service and in guild-service,
for the delivery of events and for fetches, separately, so that a user who opens and closes a channel
forever cannot hold up delivery. Acknowledgements, which no liveness property needs, have none. `Presence`: weak fairness of the announcements
that are under way and of delivery to each viewer; nobody has to act or to load. All
presuppose that queues, Redis and sockets lose nothing: delivery is at most once, and a lost event is
outside these models. The other modules state no liveness: their properties are about moments when
nothing is under way.

The next-state relation of the dialog run (`DialogNext`) leaves out the actions that cannot happen
there: failures, a guild, loading, the invite dialog. They are in the run `messages`.

`CHECK_DEADLOCK FALSE` stands in the runs on messages, media, editors and components, which stop when
everything that is to be asked for has been asked for. In the others something can always arrive.

## 4. Proofs

Assumptions are the named `ASSUME`s of the modules: sorts that are disjoint, markers such as
`NoRow` outside the sets they are joined with, `Cardinality(Users) = 2` for a call, the order of the
typing indicator's times. A theorem that needs more says so itself: `~Faults` where a write that fails
refutes it, `Requests = {q}` for one message at a time, `~Overlap` for a user who does one thing at a
time. Each is the case the property is claimed for in section 3, and the runs show that it fails
beyond. All theorems hold for any sets of users, channels, roles, permissions, flags, viewers,
sockets, messages and slots within them. The type invariants that no run checks were checked by TLC
before they were proved.

Nearly every property below needed an invariant that says what is *under way*: what a handler has read
and not yet written, what an event or an answer says that a client has not yet taken. That is where
the arguments are, and where a change of the code would break them.

`GuildProofs`
* `TypeCorrect`: `TypeOK` is inductive. A lemma for each group of actions (`ChannelRequestType`,
  `RequestStepType`, `GuildRequestType`) has one step for each action.
* `ReferencesHold`: `Spec => []NoDanglingReference`. Inductive together with `TypeOK`: each write of a
  row checks its keys at the time of the write, and each deletion cascades in the same step; what a
  slot carries needs no invariant.
* `SpecificityDecides`: `Spec => []MostSpecificWins`, from `LayersDecide`, a lemma on the mask arithmetic
  for arbitrary overwrites, and `MergedRolesBits`.
* `EvaluatorsConcur`: `Spec => []EvaluatorsAgree`. It needs the state: the client evaluates the roles of a
  member from the guild's list of roles, so they must be roles that exist (`OwnRolesExist`).
* `OverwritesStayInOrder`: `Spec => []OverwritesAreInOrder` without faults. `Orderly(q)` says of the only
  slot how far the row it carries may differ from the stored one (in `isSynced` alone), and which of the
  channel's overwrites it has still to write: a creation all of its rows, an update its clones and its
  target, while a sync has still to delete them. No channel is its own parent (`ParentIsOther`), so that what a
  request does to a channel leaves its parent's rows alone; and what it clones has @everyone's row unless the
  parent is synced or itself `bare`.
* `OverwriteUpdatesAreLocal`: the same invariant gives the action property. Unsyncing and cloning change no
  member's permissions because the clones are, target by target, what the channel followed before.

`VoiceProofs`
* `TypeCorrect`: `TypeOK`, of handlers at every stage.
* `RingsAreTimed` and `ListMatchesRings`: neither is inductive. `RingInvariant` joins them with
  `TypeOK` and `TimerTaskIsOwn` (the task of user u is a dismissal of u's ring). The argument: a timer that fires
  becomes a dismissal *before* it deletes, so a ring always has a timer or a dismissal ahead of its
  `del`; a dismissal that has passed its `del` has found or left the key empty, and a new ring
  brings a timer of its own. Each dismissal takes its user off the list after it deleted the key, so a
  listed user without a key has a dismissal at `rem`, whichever dismissal deleted it.
* `RingingEnds`: `Spec => []NoClientLeftRinging`. Whatever rings at a client, or will when it takes an event,
  is followed by its end (`RingsAreEnded`): by a dismissal in the inbox that nothing overtakes, or by a
  ring that is still stored or being dismissed.
* `CallStaysConsistent` and `ClientsComeToShowTheCall`, of one message at a time. `CallInvariant` follows
  a user's state from the handler through the inbox to the client: an event of the call is in its place
  in the inbox, a snapshot may overtake events but is not overtaken (`FollowsOrder`), and the last thing a
  client shows or hears of a user is the state that user has last (`CatchesUp`), but for the one the
  handler is changing and has not told.

`RelationshipsProofs`
* `TypeCorrect`, and `CopiesStayAligned`: the row that a request carries has the parties of every row
  stored under the id it names. This is what makes a stale save harmless to others.
* `RelationshipsStay`: `Spec => PartiesAreFixed`, from that.
* `DuplicatesAreBounded`: `Spec => []BoundedDuplicates` for any number of request slots. The invariant
  counts, for a pair, the rows that exist *and* the requests that are about to insert or write back
  one: a request looks before it takes its place among them, so that there are never more than slots.
* `FriendGraphIsKept`: the refinement. With one slot a pair has one row, and what the request is about to
  write is based on it (`OneBond`); so the row that `Bonds` reads by CHOOSE is the only one (`BondsRead`),
  and every step changes at most one bond, along an edge of `FriendGraph`. With more slots `Bonds` never moves.
* `NothingGoneIsListed`: `Spec => []NoPhantomEntry` without faults. `ClientsAreTold`: whatever a client lists, or
  will when it takes what is under way, is a relationship of its user, or is about to be taken off the list
  by a notice, a reply or the request that removes it. It needs that the first thing a client hears of a
  request is that (`ReceivedIsFirst`), so that no late notice lists again what is gone.

`PresenceProofs`
* `TypeCorrect`: not inductive by itself. A second answer can only be merged by a client that has had
  the first (`MergeFollows`), since it is asked for on receipt of it.
* `KeyIsTheConnection`: with `Overlap` false, `Spec => []KeyFollowsConnection`. `OneAtATime` says that
  at most one of four things is under way (a connection that opens, one that closes, a change of
  status, an announcement), and for each what it will leave: in particular `KeyWillFollow`, that an
  announcement which has not written the key yet carries whether the user is connected.
* `ViewersFollowTheKey`: `Spec => []ViewersShowTheKey`. `ViewsInvariant` says, for each stage of a viewer's loading,
  where the viewer stands (`Placed`) and that its items, taken one after the other, leave it with what the
  key says or what the announcement under way has still to tell it (`ComesToShow`): a second answer may only
  add a user who is online.

`MessagesProofs`
* `TypeCorrect`, in dialogs and guilds.
* `ProvisionalIsReadAlways`: needs that a snapshot holds no provisional id (`SnapshotsArePermanent`).
* `NothingNamedIsDeleted`: `Spec => []PointersAreStored`. Stored is not enough, since a stored message may yet be
  deleted: `NamedIsPast` says that what is named by a row, an event, an acknowledgement, a snapshot or a
  client has passed its upload. A client may name its own message earlier, but under a provisional id,
  which is never acknowledged: this is where the theorem before is used.
* `NoMessageCountsTwice`: `Spec => []UnreadIsBounded`. `CountsAreHeld` bounds what is stored *and* what a handler has read
  and is about to raise by the messages whose handlers have written the count (`CountedFor`).
* `OwnMessageIsListedOnce`: `Spec => []OwnMessageOnce`, for any number of messages. In a list a provisional entry has the
  number of its place, so that a reply finds at most one; and what is listed as it was stored, before its reply, has a
  number that no entry has, unless it is in `reused` (`ListsAreNumbered`). `StoredOnce` and `FetchedOnce` say that what is stored,
  and so what a fetch brings, has no message twice; `OthersArrive` that events bring a client only messages
  of others; `NumbersAreGiven` that a message has a number until its reply.

`MediaProofs`
* `TypeCorrect`: requests, replies and rooms name sockets, which have a channel only once they were opened
  (`SocketsInUse`); a socket that closed is still named by what it asked for.
* `ProducersAreOnRecord`: `Spec => []ListedHasPeer`. Two sockets that both find no room each make one, and the second
  replaces the first: so a room is where its maker's channel is, or was (`RoomsAreWhere`), nothing is listed
  or made before there is a room (`RoomsInUse`), a producer is made for a socket of that room's channel
  (`MadeForRoom`), and what the room of a channel lists is on record with a peer of the channel (`OnRecord`).
* `MediaFollowsTheCall`: `Spec => []MediaFollowsCall`. The property is of quiet moments; `CallInvariant` says what
  it comes from while something is under way, for a user who did not click during a set-up (`FollowsCall`): the
  channel in the store is of a call the user is in; of each call the user is in the store has the socket, or
  the leave is on its way to the client; what is being set up is the store's socket, for a call the user
  is in; and once it is set up its channel is in the store. It needs that a farewell under way on a
  socket means that the client has closed it (`ClosesLast`). The attempt corrected the model twice: a
  set-up was read as over when the join was answered, for which join, join, join, leave refutes the
  property; and a client that joins its own call again was claimed to mute both of its producers.

* `MutedIsPaused`: `Spec => []MuteIsHonoured`. The property is of quiet moments; `MuteInvariant` says, for each
  socket, where its microphone is: asked for, being made, announced or in the store, once and one after
  the other (`MadeOnce`, which needs that a socket is set up once: `SetUpOnce`), made as its user was muted when
  it was asked for (`MadeAsMuted`). Once it is in the store, what is under way to the server brings
  it to the setting of its user (`ComesToBe`): the last request to pause or to resume it, if there is one, says
  so, and otherwise the server has it so already. Of a user with two open sockets nothing of this is claimed;
  so a step that leaves a user one socket must not make a promise which nobody kept meanwhile, and
  does not: the one left would be the one in the store before it (`Homeward`, `SwapLeavesOne`). When a
  room is replaced, the new one lists nothing (`RoomsInUse`), so that what it lists was made after.

`EditorsProofs`
* `TypeCorrect`: a store that takes a message keeps its form only because the message says what messages of
  its type say (`MessageTyped`), which holds because the tables are in form when it is sent: what a
  request asks for is put down once (`Asks`: one of nine forms, each with the new tables, its event and its answer),
  shown of every action (`RequestAsks`), and all that follows is shown of the forms.
* `DraftsFollowTheView`: an open page is set again only when an effect of the page runs, and effects run on what
  *changed*. So a draft is the latest row only if whatever changes the row changes what the effects look at.
  `Untouched` says that the draft is what was selected, but for the clicks; `Latest` that what was selected is what
  the store shows, for an overwrite that the channel or its category has. It fails to be inductive where a
  message brings a channel back or renames it to what it was: `InOrder` rules that out. A channel in the queue is not
  brought back, since its deletion comes after everything else about it and is for good (`DeletionsAreLast`, with ids
  that are not used again), and a rename's answer, which writes a whole row back, is alone
  (`RenamesAreAlone`).
* `ConvergedAlways`: `Spec => []Converged`. `Settling` follows each member's client through what is under way: there is
  a `Story`, a sequence of *facts* that begins with what the client shows, goes on by what each message says and ends with
  what the database has. The facts are not the client's copy but a guild in which a row may still name a
  category or a role that is gone, and a copy `Reads` them: whether a name is shown depends on what else is
  there, while a change to the facts touches one row. So messages about different rows commute on the facts
  (they do not on the copies), and a message that overtakes others leaves a story of the rest
  (`TakeSettling`). A story stays one when the server tells a change, for each of the nine forms of a request, because the
  event *and* the answer, which hold different parts of the row, both say what is so (`Answered`, `Truthful`):
  an answer without overwrites is sent only when they did not change, or when the row is
  synced and so reads its category's. It needs that ids are not used again, that categories have no
  parent, that a channel stays in its category. A user who left has no story (`Gone`): the
  answer `LEFT` is under way, or taken, and nothing after it brings the guild back.

`ComponentsProofs`. A step of `Components` is a step of one component and stutters for the others
(`OneMoves`), so each has an invariant of its own.
* `TypeCorrect`, of all six.
* `NothingIsMadeTwice`: `Spec => []Unique`. In each of the three handlers: a request that is about to insert
  knows of whatever like it was inserted, by the pairs that were handled at once (`RegistersKnow`, `SaversKnow`,
  `WritersKnow`), because what it did not find was inserted after it looked.
* `AccountsStayWhole`: `Spec => []AccountsAreWhole`. `AccountsFollow` says what a registration at each step leaves of an
  account and a profile. Sessions need more (`SessionsAreSafe`): a session is of an account that is
  *safe*, with a profile and no registration left that could take it back, or of an early one; and whatever
  may become a session, an answer or a token under way, is of such an account already.
* `MembersSeeTheGuild`: `MembershipFollows` relates the row, the page and the answers under way of a user, the failed ones
  included.
* `ProfilesComeToBeShown`: unless changes overlapped, there is one change, made of the row that is stored
  (`OneChange`); and the last announcement under way, or else the last in a client's mail, or else what it
  shows, is that row (`AllAreTold`).
* `IndicatorTellsTheTruth`, for all `Cooldown`, `Timeout` and `Delay` with `Delay < Cooldown` and
  `Cooldown + Delay < Timeout`. A viewer's timer is bounded from above by the time since the last key
  (`ShownInTime`) and from below by the time since the last announcement (`Announced`, `Due`), or since the one
  before while the last is under way (`Bridged`).
* `MicrophoneOff`: the tracks that are live are those of the recording that `streamRef` names, and
  none are while the browser is asked (`OneMicrophone`).

Only model-checked:
* liveness (`RingEnds`, `EveryMessageArrives`, `AnnouncementArrives`), since the prover handles neither
  liveness under fairness nor `ENABLED`;
* in `Media`, the two properties of what a client hears (`EveryoneIsHeard`, `UndeafenedHears`): each needs, for
  every request and reply on a socket, what both sides will be once the rest of the two queues is taken: an
  argument like that of `MutedIsPaused`, but over two queues, each of which makes the other grow, and for consumers,
  of which a client may have several.

No module uses RECURSIVE operators; results by induction over data, which are out of the prover's reach,
are not needed.

## 5. Not modelled, and why

* Guild: positions of roles (`guilds.service.ts:625`, which also fails when no role is left), icons,
  creating and deleting guilds, the member list. The requests that save a role, assign one and change a member
  (`433-479`, `505-566`, `683-725`) load what they save before an await, and are one step: what two of
  them, or one and a deletion, lose to each other is not followed. In `Editors`: the confirmation dialogs, and colors beyond one.
* Messages: content, mentions and attachments beyond their failures; the unread count that is
  computed when Redis has none; page reloads.
* Calls: a ring by somebody who is no recipient of the direct channel, which the check lets pass
  (`channels.service.ts:654`) and no page offers; two messages of a call at once, of which section 3 says what fails.
* Media: transports and the media itself (mediasoup, WebRTC), devices, volumes, the speaking
  indicator; a client that is cut off without leaving, about which the server does nothing
  (`index.ts:53`); a request that arrives before its socket's `JOIN_ROOM`, which throws, is dropped.
* Accounts: hashing, signing, validation; a crash of auth-service between the two writes of a
  registration (it leaves an account without a profile); changing the user name, which no page offers.
* Microphone test: playing what was recorded, and a recorder the browser cannot make.
* In `Presence`: several gateways (the code has one, with a comment where others would be told), a restart of
  the gateway.
* Pages and components beyond the modules' client parts: layout and presentation. The pop-up of a
  ring emits `VOICE_RING_DISMISS`, for which the gateway has no handler (`voice-ring-manager.tsx:121, 183`).
* Storage, mapping and deployment: adapters.
* Dead code: `sfu-service/src/handlers`, registered nowhere; `ws-gateway/auth-service`, a copy of
  `auth-service`; most of the header of guild channels, a copy of the direct-message one of which
  only `GuildChannelHeader` is used.

## 6. Plan

Done: 1. `Permissions`, `Guild`, `GuildProofs`. 2. `FriendGraph`, `Relationships`, `RelationshipsProofs`.
3. `Voice`, `VoiceProofs`. 4. `Messages`, `MessagesProofs`. 5. `Presence`, `PresenceProofs`. 6. `Media`,
`MediaProofs`. 7. `Editors`, `EditorsProofs`. 8. `Accounts`, `Invites`, `DirectChannels`, `Profiles`, `Typing`, `MicTest`,
`Components`, `ComponentsProofs`.

1. In `MediaProofs`: `UndeafenedHears`, which relates one client's settings to what it plays, before
   `EveryoneIsHeard`, which is about two.
2. Positions of roles in `Guild` (`Editors` has them); creating and deleting guilds.
3. The part of the client's lists of channels and guilds that events patch (`layout.tsx`).
