--------------------------- MODULE DirectChannels ----------------------------
(***************************************************************************)
(* Direct-message channels: ChannelsService.createDMChannel, the channels  *)
(* store of the web client, and the two ways to a conversation, the        *)
(* "Message" button of the friends page and the one of the context menu.   *)
(*                                                                         *)
(* A channel and its recipients are saved one after the other.  Only who   *)
(* asked is told of a new channel; everybody else learns of it by loading. *)
(***************************************************************************)
EXTENDS Naturals

CONSTANTS
    Users,
    MaxAsked,   \* bound: MaxAsked[u], how many channels u asks for
    MaxLoads,   \* bound: MaxLoads[u], how often the client of u loads
    Faults,     \* what can fail: "profiles" or "recipients", the second save
    None

VARIABLES
    channels,   \* the rows of channel with type DM
    recipients, \* the rows of channel_recipient: pairs of a channel and a user
    requests,   \* requests that are not answered, each with its step
    known,      \* known[u]: the channels in u's store
    queried,    \* queried[u]: the channels the context menu knows, or None before it asks
    asked,
    loads,
    together    \* history: the pairs of requests that were handled at once

directVars == <<channels, recipients, requests, known, queried, asked, loads, together>>

dbVars == <<channels, recipients>>
clientVars == <<known, queried>>
boundVars == <<asked, loads>>

Id == UNION {{u} \X (1..MaxAsked[u]) : u \in Users}

TypeOK ==
    /\ channels \subseteq Id /\ recipients \subseteq channels \X Users
    /\ \A u \in Users :
         /\ known[u] \subseteq [id : Id, with : Users \ {u}]
         /\ queried[u] = None \/ queried[u] \subseteq [id : Id, with : Users \ {u}]
    /\ \A r \in requests : r.by \in Users /\ r.with \in Users \ {r.by}

-----------------------------------------------------------------------------
(* ChannelsService. *)

Between(u, v) == {c \in channels : <<c, u>> \in recipients /\ <<c, v>> \in recipients}

Moves(r, step) == requests' = (requests \ {r}) \cup {[r EXCEPT !.step = step]}

Answers(r, ok) == requests' = (requests \ {r}) \cup {[r EXCEPT !.step = "answered", !.ok = ok]}

\* "Channel already exists"; or the profile of the recipient is fetched.
Find(r) ==
    /\ r.step = "sent"
    /\ IF Between(r.by, r.with) # {} THEN Answers(r, FALSE)
       ELSE \/ Moves(r, "channel")
            \/ "profiles" \in Faults /\ Answers(r, FALSE)
    /\ UNCHANGED <<dbVars, clientVars, boundVars, together>>

SaveChannel(r) ==
    /\ r.step = "channel"
    /\ channels' = channels \cup {r.id}
    /\ Moves(r, "recipients")
    /\ UNCHANGED <<recipients, clientVars, boundVars, together>>

\* Nothing removes the channel when its recipients cannot be saved.
SaveRecipients(r) ==
    /\ r.step = "recipients"
    /\ \/ recipients' = recipients \cup {<<r.id, r.by>>, <<r.id, r.with>>} /\ Answers(r, TRUE)
       \/ "recipients" \in Faults /\ UNCHANGED recipients /\ Answers(r, FALSE)
    /\ UNCHANGED <<channels, clientVars, boundVars, together>>

\* getDMChannels: the other recipient of each channel comes with it.
GetDMChannels(u) ==
    {[id |-> row[1], with |-> row[2]] :
        row \in {p \in recipients : p[2] # u /\ <<p[1], u>> \in recipients}}

-----------------------------------------------------------------------------
(* The web client. *)

Ask(u, v, kind) ==
    LET id == <<u, asked[u] + 1>> IN
    /\ asked[u] < MaxAsked[u]
    /\ asked' = [asked EXCEPT ![u] = @ + 1]
    /\ requests' = requests \cup {[by |-> u, with |-> v, kind |-> kind, id |-> id,
                                   step |-> "sent", ok |-> FALSE, heard |-> TRUE]}
    /\ together' = together \cup {{id, r.id} : r \in {q \in requests : q.step # "answered"}}

\* getFriendChannel, and the find of the menu.
Has(list, v) == \E c \in list : c.with = v

\* The button opens the channel in the store, or asks for one.
MessageButton(u, v) ==
    /\ ~Has(known[u], v)
    /\ Ask(u, v, "button")
    /\ UNCHANGED <<dbVars, clientVars, loads>>

\* The menu asks for the channels when it is opened for the first time, and never again.
OpenMenu(u) ==
    /\ queried[u] = None
    /\ queried' = [queried EXCEPT ![u] = GetDMChannels(u)]
    /\ UNCHANGED <<dbVars, requests, known, boundVars, together>>

MessageItem(u, v) ==
    /\ queried[u] # None /\ ~Has(queried[u], v)
    /\ Ask(u, v, "menu")
    /\ UNCHANGED <<dbVars, clientVars, loads>>

\* After a refusal the mutation throws, and the button does nothing.  The menu drops what is
\* answered, and throws.
TakeAnswer(r) ==
    /\ r.step = "answered"
    /\ requests' = requests \ {r}
    /\ known' = IF r.heard /\ r.ok /\ r.kind = "button"
                THEN [known EXCEPT ![r.by] = @ \cup {[id |-> r.id, with |-> r.with]}]
                ELSE known
    /\ UNCHANGED <<dbVars, queried, boundVars, together>>

Load(u) ==
    /\ loads[u] < MaxLoads[u]
    /\ loads' = [loads EXCEPT ![u] = @ + 1]
    /\ known' = [known EXCEPT ![u] = GetDMChannels(u)]
    /\ queried' = [queried EXCEPT ![u] = None]
    /\ requests' = {IF r.by = u THEN [r EXCEPT !.heard = FALSE] ELSE r : r \in requests}
    /\ UNCHANGED <<dbVars, asked, together>>

-----------------------------------------------------------------------------
Init ==
    /\ channels = {} /\ recipients = {} /\ requests = {}
    /\ known = [u \in Users |-> {}]
    /\ queried = [u \in Users |-> None]
    /\ asked = [u \in Users |-> 0] /\ loads = [u \in Users |-> 0]
    /\ together = {}

Next ==
    \/ \E r \in requests : Find(r) \/ SaveChannel(r) \/ SaveRecipients(r) \/ TakeAnswer(r)
    \/ \E u \in Users : OpenMenu(u) \/ Load(u)
    \/ \E u \in Users : \E v \in Users \ {u} : MessageButton(u, v) \/ MessageItem(u, v)

Spec == Init /\ [][Next]_directVars

-----------------------------------------------------------------------------
(* Properties. *)

\* Two users share two channels only if these were asked for at once
\* (channels.service.ts:251-286): through the button or the menu, from either side, and
\* after requests that failed half way.
DMChannelsAreUnique ==
    \A u \in Users : \A v \in Users \ {u} : \A c, d \in Between(u, v) :
        c # d => {c, d} \in together

=============================================================================
