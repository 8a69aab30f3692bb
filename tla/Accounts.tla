------------------------------ MODULE Accounts ------------------------------
(***************************************************************************)
(* Accounts and sessions: the identities of auth-service, the profiles of  *)
(* user-service, and the browsers that register, log in, renew their       *)
(* session and log out.                                                    *)
(*                                                                         *)
(* A registration is written to both services, one after the other, and    *)
(* the first write is taken back if the second fails.  A request reads the *)
(* cookies of its browser when it is sent.  Every await of a handler ends  *)
(* a step, and requests interleave.  Passwords, their hashes, tokens and   *)
(* the forms' validation are left out, but for the password itself: a      *)
(* token is the id of the user it was signed for, and what is sent is      *)
(* valid.                                                                  *)
(***************************************************************************)
EXTENDS Naturals, FiniteSets

CONSTANTS
    Browsers,
    Typed,      \* email addresses as they are typed
    toLower,    \* toLower[e]: the address e in lower case
    Names,      \* user names, in lower case
    Passwords,
    Operations, \* bound: Operations[b], the requests that b makes, renewals aside
    MaxAsked,   \* bound: MaxAsked[b], how many of them
    MaxLoads,   \* bound: MaxLoads[b], how often b loads a page
    Faults,     \* Faults[b], what can fail for b: "profile", user-service or its answer; "answer",
                \* an answer to b
    None

VARIABLES
    identities, \* the rows of auth-service
    profiles,   \* the rows of user-service
    cookie,     \* cookie[b]: the access and the refresh token that b holds
    authorized, \* the browsers whose store says isAuthorized
    page,       \* page[b]: "login", "register" or "channels"
    calls,      \* the requests that are sent and not yet answered, each with its step
    asked,      \* asked[b], loads[b]: how much b has asked for
    loads,
    met,        \* history: the pairs of registrations that were handled at once
    early,      \* history: ids that someone logged in as while they were being registered
    lost        \* history: ids whose profile was saved, but user-service's answer was lost

dbVars == <<identities, profiles>>
clientVars == <<cookie, authorized, page>>
historyVars == <<met, early, lost>>
accountVars == <<identities, profiles, cookie, authorized, page, calls, asked, loads, met, early,
                 lost>>

Id == UNION {{b} \X (1..MaxAsked[b]) : b \in Browsers}

Identity == [id : Id, email : {toLower[e] : e \in Typed}, password : Passwords]

Profile == [id : Id, username : Names]

\* What a browser sends.  "renew" asks for a new access token and remembers the request
\* that was refused, or None.
Request ==
    [kind : {"register"}, email : Typed, username : Names, password : Passwords]
    \cup [kind : {"login"}, email : Typed, password : Passwords]
    \cup [kind : {"password"}, old : Passwords, new : Passwords]
    \cup [kind : {"fetch", "logout"}]

HasId(table, id) == \E row \in table : row.id = id

RowOf(table, id) == CHOOSE row \in table : row.id = id

TypeOK ==
    /\ \A row \in identities : row \in Identity
    /\ \A row \in profiles : row \in Profile
    /\ cookie \in [Browsers -> [access : Id \cup {None}, refresh : Id \cup {None}]]
    /\ authorized \subseteq Browsers
    /\ page \in [Browsers -> {"login", "register", "channels"}]
    /\ \A call \in calls : call.by \in Browsers /\ call.id \in Id \cup {None}
    /\ asked \in [Browsers -> Nat] /\ loads \in [Browsers -> Nat]
    /\ met \subseteq SUBSET Id /\ early \subseteq Id /\ lost \subseteq Id

-----------------------------------------------------------------------------
(* A call: the request, who sent it with which cookies, and how far it is. *)

Call(b, request, retried) ==
    [by |-> b, heard |-> TRUE, request |-> request, retried |-> retried, step |-> "sent",
     cookies |-> cookie[b], id |-> None, row |-> None, answer |-> None]

Renewal(b, refused) ==
    [Call(b, [kind |-> "renew"], TRUE) EXCEPT !.row = refused]

Moves(call, next) == calls' = (calls \ {call}) \cup {next}

\* An answer that nobody waits for is dropped.
Answers(call, answer) ==
    IF call.heard THEN Moves(call, [call EXCEPT !.step = "answered", !.answer = answer])
    ELSE calls' = calls \ {call}

Granted(id) == [status |-> "ok", id |-> id]

Refused == [status |-> "refused"]    \* any failure but 401

Unauthorized == [status |-> "unauthorized"]

Handles(call, kind, step) == call.request.kind = kind /\ call.step = step

-----------------------------------------------------------------------------
(* auth-service and user-service. *)

\* Is the address taken?
RegisterFind(call) ==
    /\ Handles(call, "register", "sent")
    /\ IF \E row \in identities : row.email = toLower[call.request.email]
       THEN Answers(call, Refused)
       ELSE Moves(call, [call EXCEPT !.step = "insert"])
    /\ UNCHANGED <<dbVars, clientVars, asked, loads, historyVars>>

\* Registrations that are past their first step, and not yet answered.
Registering == {c \in calls : c.request.kind = "register" /\ c.step \notin {"sent", "answered"}}

RegisterInsert(call) ==
    /\ Handles(call, "register", "insert")
    /\ identities' = identities \cup
           {[id |-> call.id, email |-> toLower[call.request.email],
             password |-> call.request.password]}
    /\ Moves(call, [call EXCEPT !.step = "create"])
    /\ UNCHANGED <<profiles, clientVars, asked, loads, historyVars>>

\* The profile is asked for; user-service looks for the name.
ProfileFind(call) ==
    /\ Handles(call, "register", "create")
    /\ \/ Moves(call, [call EXCEPT !.step =
                IF \E row \in profiles : row.username = call.request.username
                THEN "remove" ELSE "save"])
       \/ "profile" \in Faults[call.by] /\ Moves(call, [call EXCEPT !.step = "remove"])
    /\ UNCHANGED <<dbVars, clientVars, asked, loads, historyVars>>

\* After the default avatars were listed.  The answer of user-service may be lost.
ProfileSave(call) ==
    /\ Handles(call, "register", "save")
    /\ profiles' = profiles \cup {[id |-> call.id, username |-> call.request.username]}
    /\ \/ Answers(call, Granted(call.id)) /\ UNCHANGED lost
       \/ /\ "profile" \in Faults[call.by]
          /\ Moves(call, [call EXCEPT !.step = "remove"])
          /\ lost' = lost \cup {call.id}
    /\ UNCHANGED <<identities, clientVars, asked, loads, met, early>>

\* An operator whose name ends in _Mutant is a plausible mistake in the one it is named
\* for, and part of no behaviour.
RegisterRemove_Mutant(call) ==
    /\ Handles(call, "register", "remove")
    /\ Answers(call, Refused)
    /\ UNCHANGED <<dbVars, clientVars, asked, loads, historyVars>>

\* An error without a response throws once more, after the row was removed.
RegisterRemove(call) ==
    /\ Handles(call, "register", "remove")
    /\ identities' = {row \in identities : row.id # call.id}
    /\ Answers(call, Refused)
    /\ UNCHANGED <<profiles, clientVars, asked, loads, historyVars>>

\* The address is compared as it was typed.  An address that two accounts share finds
\* either.
LoginFind(call) ==
    LET found == {row \in identities : row.email = call.request.email} IN
    /\ Handles(call, "login", "sent")
    /\ \/ \E row \in found :
            IF row.password = call.request.password
            THEN /\ Answers(call, Granted(row.id))
                 /\ early' = early \cup ({c.id : c \in Registering} \cap {row.id})
            ELSE Answers(call, Unauthorized) /\ UNCHANGED early
       \/ found = {} /\ Answers(call, Unauthorized) /\ UNCHANGED early
    /\ UNCHANGED <<dbVars, clientVars, asked, loads, met, lost>>

\* The guards of AuthController let a request pass that has the token they look for.
Guarded(call) ==
    IF call.request.kind = "renew" THEN call.cookies.refresh ELSE call.cookies.access

\* Nothing is looked up: the token alone decides.
Renew(call) ==
    /\ Handles(call, "renew", "sent")
    /\ Answers(call, IF Guarded(call) = None THEN Unauthorized ELSE Granted(Guarded(call)))
    /\ UNCHANGED <<dbVars, clientVars, asked, loads, historyVars>>

\* verify-token, for a request to any other service; and logging out.
Verify(call) ==
    /\ call.request.kind \in {"fetch", "logout"} /\ call.step = "sent"
    /\ Answers(call, IF Guarded(call) = None THEN Unauthorized ELSE Granted(Guarded(call)))
    /\ UNCHANGED <<dbVars, clientVars, asked, loads, historyVars>>

\* The old password is compared with a row that is saved whole, after the new one was hashed.
PasswordFind(call) ==
    /\ Handles(call, "password", "sent")
    /\ IF Guarded(call) = None THEN Answers(call, Unauthorized)
       ELSE IF HasId(identities, Guarded(call))
               /\ RowOf(identities, Guarded(call)).password = call.request.old
            THEN Moves(call, [call EXCEPT !.step = "save", !.row = RowOf(identities, Guarded(call))])
            ELSE Answers(call, Refused)
    /\ UNCHANGED <<dbVars, clientVars, asked, loads, historyVars>>

PasswordSave(call) ==
    /\ Handles(call, "password", "save")
    /\ identities' = {row \in identities : row.id # call.row.id}
                     \cup {[call.row EXCEPT !.password = call.request.new]}
    /\ Answers(call, Granted(call.row.id))
    /\ UNCHANGED <<profiles, clientVars, asked, loads, historyVars>>

-----------------------------------------------------------------------------
(* The browser. *)

Pending(b) == {call \in calls : call.by = b /\ call.heard}

\* The pages do not ask for a thing again while they wait for it.  No page changes a
\* password: that request comes from elsewhere, with the cookies of the browser.
Offers(b, request) ==
    /\ request.kind \in IF page[b] = "channels" THEN {"fetch", "logout", "password"} ELSE {page[b]}
    /\ ~\E call \in Pending(b) : call.request.kind = request.kind

Ask(b, request) ==
    LET id == <<b, asked[b] + 1>>
        call == Call(b, request, FALSE) IN
    /\ asked[b] < MaxAsked[b] /\ Offers(b, request)
    /\ asked' = [asked EXCEPT ![b] = @ + 1]
    /\ calls' = calls \cup {IF request.kind = "register" THEN [call EXCEPT !.id = id] ELSE call}
    /\ met' = IF request.kind = "register"
              THEN met \cup {{id, other.id} : other \in
                       {c \in calls : c.request.kind = "register" /\ c.step # "answered"}}
              ELSE met
    /\ UNCHANGED <<dbVars, clientVars, loads, early, lost>>

\* The link from one form to the other.  The login page sends on who is logged in.
Navigate(b) ==
    /\ page[b] \in {"login", "register"}
    /\ page' = [page EXCEPT ![b] = IF @ = "login" THEN "register"
                                  ELSE IF b \in authorized THEN "channels" ELSE "login"]
    /\ UNCHANGED <<dbVars, cookie, authorized, calls, asked, loads, historyVars>>

\* The cookies that come with an answer are stored before any code sees it.
Stored(b, kind, answer) ==
    IF answer.status # "ok" THEN cookie[b]
    ELSE CASE kind \in {"register", "login"} -> [access |-> answer.id, refresh |-> answer.id]
           [] kind = "renew" -> [cookie[b] EXCEPT !.access = answer.id]
           [] kind = "logout" -> [access |-> None, refresh |-> None]
           [] OTHER -> cookie[b]

\* A request that was refused with 401 is not finished: the session is renewed first.
Intercepted(call) ==
    call.answer = Unauthorized /\ ~call.retried /\ call.request.kind # "renew"

Intercept(call) ==
    /\ call.step = "answered" /\ Intercepted(call)
    /\ Moves(call, Renewal(call.by, call.request))
    /\ UNCHANGED <<dbVars, clientVars, asked, loads, historyVars>>

\* The first answer decides whether the request is sent again, with the new cookie.
TakeRenewal(call) ==
    LET b == call.by
        ok == call.answer.status = "ok" IN
    /\ Handles(call, "renew", "answered")
    /\ cookie' = [cookie EXCEPT ![b] = Stored(b, "renew", call.answer)]
    /\ authorized' = IF ok THEN authorized \cup {b} ELSE authorized \ {b}
    /\ page' = [page EXCEPT ![b] =
           IF ~ok THEN "login"                                   \* router.push('/login')
           ELSE IF @ = "login" /\ b \notin authorized THEN "channels" ELSE @]
    /\ calls' = (calls \ {call}) \cup
           IF ok /\ call.row # None
           THEN {[Call(b, call.row, TRUE) EXCEPT !.cookies = cookie'[b]]} ELSE {}
    /\ UNCHANGED <<dbVars, asked, loads, historyVars>>

Take(call) ==
    LET b == call.by
        kind == call.request.kind
        ok == call.answer.status = "ok" IN
    /\ call.step = "answered" /\ ~Intercepted(call) /\ kind # "renew"
    /\ cookie' = [cookie EXCEPT ![b] = Stored(b, kind, call.answer)]
    /\ authorized' = CASE kind = "login" /\ ok -> authorized \cup {b}
                       [] kind = "logout" -> authorized \ {b}     \* whatever was answered
                       [] OTHER -> authorized
    /\ page' = [page EXCEPT ![b] =
           CASE kind \in {"login", "register"} /\ ok -> "channels"
             [] kind = "logout" -> "login"
             [] OTHER -> @]
    /\ calls' = calls \ {call}
    /\ UNCHANGED <<dbVars, asked, loads, historyVars>>

\* The request times out or the connection breaks: the handler goes on, and what it answers
\* reaches nobody.  The interceptor throws, for there is no response to read; the code that
\* logs out or renews a session goes on as if it had been refused.
Lose(call) ==
    LET out == call.request.kind \in {"logout", "renew"} IN
    /\ "answer" \in Faults[call.by] /\ call.heard
    /\ calls' = (calls \ {call}) \cup
           IF call.step = "answered" THEN {} ELSE {[call EXCEPT !.heard = FALSE]}
    /\ authorized' = IF out THEN authorized \ {call.by} ELSE authorized
    /\ page' = [page EXCEPT ![call.by] = IF out THEN "login" ELSE @]
    /\ UNCHANGED <<dbVars, cookie, asked, loads, historyVars>>

\* A page that is loaded starts with an empty store, and renews the session.  Nobody waits
\* any more for what the page before it had sent.
Load(b) ==
    /\ loads[b] < MaxLoads[b]
    /\ loads' = [loads EXCEPT ![b] = @ + 1]
    /\ authorized' = authorized \ {b}
    /\ calls' = {IF call.by = b THEN [call EXCEPT !.heard = FALSE] ELSE call :
                    call \in {c \in calls : c.by = b => c.step # "answered"}}
                \cup {Renewal(b, None)}
    /\ UNCHANGED <<dbVars, cookie, page, asked, historyVars>>

\* The access token lives for ten minutes.
Expire(b) ==
    /\ cookie[b].access # None
    /\ cookie' = [cookie EXCEPT ![b].access = None]
    /\ UNCHANGED <<dbVars, authorized, page, calls, asked, loads, historyVars>>

-----------------------------------------------------------------------------
Init ==
    /\ identities = {} /\ profiles = {}
    /\ cookie = [b \in Browsers |-> [access |-> None, refresh |-> None]]
    /\ authorized = {}
    /\ page = [b \in Browsers |-> "login"]
    /\ calls = {}
    /\ asked = [b \in Browsers |-> 0]
    /\ loads = [b \in Browsers |-> 0]
    /\ met = {} /\ early = {} /\ lost = {}

Serve(call) ==
    \/ RegisterFind(call) \/ RegisterInsert(call) \/ ProfileFind(call) \/ ProfileSave(call)
    \/ RegisterRemove(call) \/ LoginFind(call) \/ Renew(call) \/ Verify(call)
    \/ PasswordFind(call) \/ PasswordSave(call)

Receive(call) == Intercept(call) \/ TakeRenewal(call) \/ Take(call) \/ Lose(call)

Next ==
    \/ \E call \in calls : Serve(call) \/ Receive(call)
    \/ \E b \in Browsers : Navigate(b) \/ Load(b) \/ Expire(b)
    \/ \E b \in Browsers : \E request \in Operations[b] \cap Request : Ask(b, request)

Spec == Init /\ [][Next]_accountVars

-----------------------------------------------------------------------------
(* Properties. *)

\* When no registration is being handled, every account that can be logged in to, and every
\* session, is of a user who has a profile, whatever fails on the way (auth.service.ts:76-113):
\* what was written first is taken back.  An account that was logged in to while it was being
\* registered is exempt: it can be taken back behind its session, and inserted once more by a
\* change of its password (auth.service.ts:210).  Unless the answer of user-service is lost
\* there is no profile without an account either, which would keep its name from being used.
AccountsAreWhole ==
    Registering = {} =>
        /\ \A row \in identities : HasId(profiles, row.id) \/ row.id \in early
        /\ \A b \in Browsers :
              LET id == cookie[b].refresh IN
              id # None => (HasId(identities, id) /\ HasId(profiles, id)) \/ id \in early
        /\ \A row \in profiles : HasId(identities, row.id) \/ row.id \in lost

\* Two accounts have one address, or one user name, only if their registrations were
\* handled at once (auth.service.ts:55-74, user-profiles.service.ts:55-71): no constraint
\* of the database says so.  Or one of the accounts was inserted once more, as above, when
\* its address had become another's.
AccountsAreUnique ==
    /\ \A r, s \in identities :
          r.id # s.id /\ r.email = s.email => {r.id, s.id} \in met \/ {r.id, s.id} \cap early # {}
    /\ \A r, s \in profiles : r.id # s.id /\ r.username = s.username => {r.id, s.id} \in met

=============================================================================
