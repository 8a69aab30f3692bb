-------------------------- MODULE ComponentsProofs --------------------------
(***************************************************************************)
(* What holds of the small components for every number of users, clients,  *)
(* requests and recordings: each has an inductive invariant of its own,    *)
(* which the steps of the others leave alone.                              *)
(***************************************************************************)
EXTENDS Components, Integers, TLAPS

\* A step is of one component, and leaves the others as they are.
LEMMA OneMoves ==
    ASSUME [Next]_vars
    PROVE  /\ [Account!Next]_accountVars
           /\ [Invite!Next]_inviteVars
           /\ [Direct!Next]_directVars
           /\ [Profile!Next]_profileVars
           /\ [Indicator!Next]_typingVars
           /\ [Mic!Next]_micVars
<1>1. CASE UNCHANGED vars
      BY <1>1 DEF vars
<1>2. CASE Next
      BY <1>2 DEF Next, AccountNext, InviteNext, DirectNext, ProfileNext, TypingNext, MicNext
<1> QED
    BY <1>1, <1>2

-----------------------------------------------------------------------------
(* The microphone test.  Unless the browser is asked twice at once, the tracks that are      *)
(* live are those of the take that streamRef names, and none are while the browser is asked. *)

Asking == Mic!At("asking")

OneMicrophone ==
    /\ \A t, s \in Asking : t = s
    /\ Asking # {} => live = {}
    /\ \A t \in live : t = stream /\ recorder[t] \in {"recording", "stopping"}
    /\ mounted /\ ~cut /\ recording => Mic!At("recording") # {}

MicInvariant == Mic!TypeOK /\ (~paired => OneMicrophone)

LEMMA MicStarts == Mic!Init => MicInvariant
BY DEF Mic!Init, MicInvariant, OneMicrophone, Mic!TypeOK, Asking, Mic!At

LEMMA MicSteps == MicInvariant /\ [Mic!Next]_micVars => MicInvariant'
<1> SUFFICES ASSUME MicInvariant, [Mic!Next]_micVars PROVE MicInvariant'
    OBVIOUS
<1> USE ComponentsAssumption DEF MicInvariant, OneMicrophone, Mic!TypeOK, Asking, Mic!At
<1>1. ASSUME NEW t \in Takes, Mic!StartRecording(t) PROVE MicInvariant'
  <2> USE <1>1 DEF Mic!StartRecording, Mic!StopStream
  <2>1. Mic!TypeOK'
        OBVIOUS
  <2>2. paired' \/ (Asking = {} /\ ~paired)
        OBVIOUS
  <2>3. Asking' \subseteq Asking \cup {t}
        OBVIOUS
  <2>4. live' = live \ {stream}
        OBVIOUS
  <2>5. ~paired' => live' = {}
        BY <2>2, <2>4
  <2>6. \A r \in Asking', q \in Asking' : ~paired' => r = q
        BY <2>2, <2>3
  <2>7. ~paired' => ~(mounted' /\ ~cut' /\ recording')
        OBVIOUS
  <2>8. ~paired' => OneMicrophone'
        BY ONLY <2>5, <2>6, <2>7 DEF OneMicrophone
  <2> QED
      BY <2>1, <2>8
<1>2. ASSUME NEW t \in Takes, Mic!GotStream(t) PROVE MicInvariant'
  <2> USE <1>2 DEF Mic!GotStream, Mic!SetRecording
  <2>1. Mic!TypeOK'
        OBVIOUS
  <2>2. Asking' = Asking \ {t} /\ t \in Asking
        OBVIOUS
  <2>3. ~paired => Asking' = {} /\ live' = {t}
        BY <2>2
  <2>4. recorder'[t] = "recording" /\ stream' = t /\ paired' = paired
        OBVIOUS
  <2>5. t \in Mic!At("recording")'
        BY <2>4
  <2>6. ~paired' => OneMicrophone'
        BY ONLY <2>3, <2>4, <2>5 DEF OneMicrophone
  <2> QED
      BY ONLY <2>1, <2>6 DEF MicInvariant
<1>3. ASSUME NEW t \in Takes, Mic!AccessFails(t) PROVE MicInvariant'
      BY <1>3 DEF Mic!AccessFails, Mic!SetRecording
<1>4. ASSUME NEW t \in Takes, Mic!TimeUp(t) PROVE MicInvariant'
  <2>1. CASE recorder[t] = "recording"
    <3> USE <1>4, <2>1 DEF Mic!TimeUp, Mic!SetRecording
    <3>1. Mic!TypeOK'
          OBVIOUS
    <3>2. Asking' = Asking /\ live' = live /\ stream' = stream /\ paired' = paired
          OBVIOUS
    <3>3. \A r \in live : recorder[r] \in {"recording", "stopping"} =>
              recorder'[r] \in {"recording", "stopping"}
          OBVIOUS
    <3>4. ~(mounted' /\ recording')
          OBVIOUS
    <3> QED
        BY <3>1, <3>2, <3>3, <3>4
  <2>2. CASE recorder[t] # "recording"
        BY <1>4, <2>2 DEF Mic!TimeUp, Mic!SetRecording
  <2> QED
      BY <2>1, <2>2
<1>5. ASSUME NEW t \in Takes, Mic!OnStop(t) PROVE MicInvariant'
  <2> USE <1>5 DEF Mic!OnStop, Mic!StopStream
  <2>1. Mic!TypeOK'
        OBVIOUS
  <2>2. Asking' = Asking /\ paired' = paired
        OBVIOUS
  <2>3. ~paired => live' = {}
        OBVIOUS
  <2>4. ~paired => (mounted' /\ ~cut' /\ recording' => Mic!At("recording")' # {})
    <3> SUFFICES ASSUME ~paired, mounted', ~cut', recording' PROVE Mic!At("recording")' # {}
        OBVIOUS
    <3>1. PICK s \in Takes : recorder[s] = "recording"
          OBVIOUS
    <3>2. s # stream /\ s # t
          BY <3>1
    <3> QED
        BY <3>1, <3>2
  <2>5. ~paired => OneMicrophone
        OBVIOUS
  <2>6. ~paired' => OneMicrophone'
        BY ONLY <2>2, <2>3, <2>4, <2>5 DEF OneMicrophone
  <2> QED
      BY ONLY <2>1, <2>6 DEF MicInvariant
<1>6. ASSUME NEW t \in Takes, Mic!TracksEnd(t) PROVE MicInvariant'
      BY <1>6 DEF Mic!TracksEnd
<1>7. CASE Mic!Unmount
      BY <1>7 DEF Mic!Unmount, Mic!StopStream
<1>8. CASE UNCHANGED micVars
      BY <1>8 DEF micVars
<1> QED
    BY <1>1, <1>2, <1>3, <1>4, <1>5, <1>6, <1>7, <1>8 DEF Mic!Next

\* Whatever the recordings, however the page is left and whatever ends on its own, nothing
\* keeps the microphone on (media-settings-section.tsx:149-214).
THEOREM MicrophoneOff == Spec => []MicrophoneIsReleased
<1>1. Init => MicInvariant
      BY MicStarts DEF Init
<1>2. MicInvariant /\ [Next]_vars => MicInvariant'
      BY OneMoves, MicSteps
<1>3. ASSUME MicInvariant PROVE MicrophoneIsReleased
  <2> SUFFICES ASSUME Mic!At("asking") \cup Mic!At("recording") \cup Mic!At("stopping") = {}, ~paired
               PROVE  live = {} /\ (mounted /\ ~cut => ~recording)
      BY DEF MicrophoneIsReleased, Mic!MicrophoneIsReleased
  <2>1. \A t \in Takes : recorder[t] \notin {"asking", "recording", "stopping"}
        BY DEF Mic!At
  <2> QED
      BY <1>3, <2>1 DEF MicInvariant, OneMicrophone, Mic!TypeOK, Mic!At
<1> QED
    BY <1>1, <1>2, <1>3, PTL DEF Spec

-----------------------------------------------------------------------------
(* Accounts and sessions.  They are unique as direct channels are: a registration that is    *)
(* about to be inserted knows whoever has its address or name by then.  And no session loses *)
(* its account: it was opened when nobody could take the account back any more, or early.    *)

Renewing == [kind |-> "renew"]

Requested == Account!Request \cup {Renewing}

Tokens == [access : Account!Id \cup {None}, refresh : Account!Id \cup {None}]

AccountStep == {"sent", "insert", "create", "save", "remove", "answered"}

AccountRow == Account!Identity \cup Account!Request \cup {None}

Grant == [status : {"ok"}, id : Account!Id]

AccountAnswer == {None, Account!Refused, Account!Unauthorized} \cup Grant

AccountCall ==
    [by : Browsers, heard : BOOLEAN, request : Requested, retried : BOOLEAN, step : AccountStep,
     cookies : Tokens, id : Account!Id \cup {None}, row : AccountRow, answer : AccountAnswer]

\* What a request of each kind carries.
Carries(call) ==
    /\ call.request.kind = "register" =>
          /\ call.id \in Account!Id
          /\ call.step = "answered" => call.answer # Account!Unauthorized
    /\ call.request.kind = "renew" =>
          call.row = None \/ (call.row \in Account!Request /\ call.row.kind # "register")
    /\ call.request.kind = "password" /\ call.step = "save" => call.row \in Account!Identity
    /\ call.step = "answered" => call.answer \in {Account!Refused, Account!Unauthorized} \cup Grant

CallsAreTyped == \A call \in calls : call \in AccountCall /\ Carries(call)

AccountTypes == Account!TypeOK /\ CallsAreTyped

\* A request that moves on keeps what it was sent with.
Keeps(call, next) ==
    /\ next.by = call.by /\ next.request = call.request /\ next.retried = call.retried
    /\ next.cookies = call.cookies /\ next.id = call.id

LEMMA Advancing ==
    ASSUME NEW call \in AccountCall, NEW step \in AccountStep,
           Account!Moves(call, [call EXCEPT !.step = step])
    PROVE  \E next \in AccountCall :
              /\ Keeps(call, next) /\ next.step = step /\ next.row = call.row
              /\ next.answer = call.answer /\ calls' = (calls \ {call}) \cup {next}
<1>1. PICK n : n = [call EXCEPT !.step = step]
      OBVIOUS
<1>2. /\ n \in AccountCall /\ Keeps(call, n) /\ n.step = step /\ n.row = call.row
      /\ n.answer = call.answer
      BY <1>1 DEF AccountCall, Keeps
<1>3. calls' = (calls \ {call}) \cup {n}
      BY <1>1 DEF Account!Moves
<1> QED
    BY <1>2, <1>3

LEMMA Answering ==
    ASSUME NEW call \in AccountCall, NEW answer \in AccountAnswer, Account!Answers(call, answer)
    PROVE  \E next \in AccountCall :
              /\ Keeps(call, next) /\ next.step = "answered" /\ next.row = call.row
              /\ next.answer = answer
              /\ calls' = (calls \ {call}) \cup (IF call.heard THEN {next} ELSE {})
<1>1. PICK n : n = [call EXCEPT !.step = "answered", !.answer = answer]
      OBVIOUS
<1>2. /\ n \in AccountCall /\ Keeps(call, n) /\ n.step = "answered" /\ n.row = call.row
      /\ n.answer = answer
      BY <1>1 DEF AccountCall, Keeps, AccountStep
<1>3. calls' = (calls \ {call}) \cup (IF call.heard THEN {n} ELSE {})
      BY <1>1 DEF Account!Moves, Account!Answers
<1> QED
    BY <1>2, <1>3

LEMMA Saving ==
    ASSUME NEW call \in AccountCall, NEW r \in AccountRow,
           Account!Moves(call, [call EXCEPT !.step = "save", !.row = r])
    PROVE  \E next \in AccountCall :
              /\ Keeps(call, next) /\ next.step = "save" /\ next.row = r
              /\ next.answer = call.answer /\ calls' = (calls \ {call}) \cup {next}
<1>1. PICK n : n = [call EXCEPT !.step = "save", !.row = r]
      OBVIOUS
<1>2. /\ n \in AccountCall /\ Keeps(call, n) /\ n.step = "save" /\ n.row = r
      /\ n.answer = call.answer
      BY <1>1 DEF AccountCall, Keeps, AccountStep
<1>3. calls' = (calls \ {call}) \cup {n}
      BY <1>1 DEF Account!Moves
<1> QED
    BY <1>2, <1>3

LEMMA CallIsUnheard ==
    ASSUME NEW call \in AccountCall, NEW next, next = [call EXCEPT !.heard = FALSE]
    PROVE  /\ next \in AccountCall /\ Keeps(call, next)
           /\ next.step = call.step /\ next.row = call.row /\ next.answer = call.answer
BY DEF AccountCall, Keeps

LEMMA CallIsSent ==
    ASSUME NEW b \in Browsers, NEW request \in Requested, NEW retried \in BOOLEAN,
           cookie[b] \in Tokens, NEW call, call = Account!Call(b, request, retried)
    PROVE  /\ call \in AccountCall
           /\ call.request = request /\ call.cookies = cookie[b] /\ call.step = "sent"
           /\ call.row = None /\ call.answer = None /\ call.id = None
<1>1. {request} \subseteq Requested /\ None \in AccountRow /\ None \in AccountAnswer /\ "sent" \in AccountStep
      BY DEF AccountRow, AccountAnswer, AccountStep
<1> QED
    BY <1>1 DEF AccountCall, Account!Call

\* Which request is of a kind.
LEMMA KindsOfRequest ==
    ASSUME NEW request \in Requested
    PROVE  /\ request.kind = "register" => request \in
                [kind : {"register"}, email : Typed, username : Logins, password : Passwords]
           /\ request.kind = "password" => request \in
                [kind : {"password"}, old : Passwords, new : Passwords]
           /\ request.kind # "renew" => request \in Account!Request
           /\ request \in Account!Request => request.kind # "renew"
BY DEF Requested, Renewing, Account!Request

LEMMA AnswersDiffer ==
    /\ Account!Refused.status = "refused" /\ Account!Unauthorized.status = "unauthorized"
    /\ \A id : Account!Granted(id).status = "ok" /\ Account!Granted(id).id = id
    /\ \A id \in Account!Id : Account!Granted(id) \in Grant
    /\ Account!Refused # Account!Unauthorized
    /\ \A answer \in Grant : answer.status = "ok" /\ answer.id \in Account!Id
    /\ \A answer \in Grant : answer # Account!Unauthorized
BY DEF Account!Refused, Account!Unauthorized, Account!Granted, Grant

LEMMA AnsweringIsTyped ==
    ASSUME CallsAreTyped, NEW call \in calls,
           NEW answer \in {Account!Refused, Account!Unauthorized} \cup Grant,
           call.request.kind = "register" => answer # Account!Unauthorized,
           Account!Answers(call, answer)
    PROVE  CallsAreTyped'
<1>1. call \in AccountCall /\ Carries(call) /\ answer \in AccountAnswer
      BY DEF CallsAreTyped, AccountAnswer
<1>2. PICK n \in AccountCall :
          /\ Keeps(call, n) /\ n.step = "answered" /\ n.row = call.row /\ n.answer = answer
          /\ calls' = (calls \ {call}) \cup (IF call.heard THEN {n} ELSE {})
      BY <1>1, Answering
<1>3. Carries(n)
      BY <1>1, <1>2 DEF Carries, Keeps
<1> QED
    BY <1>2, <1>3 DEF CallsAreTyped

LEMMA AdvancingIsTyped ==
    ASSUME CallsAreTyped, NEW call \in calls, call.request.kind = "register",
           NEW step \in AccountStep \ {"answered"},
           Account!Moves(call, [call EXCEPT !.step = step])
    PROVE  CallsAreTyped'
<1>1. call \in AccountCall /\ Carries(call) /\ step \in AccountStep
      BY DEF CallsAreTyped
<1>2. PICK n \in AccountCall :
          /\ Keeps(call, n) /\ n.step = step /\ n.row = call.row /\ n.answer = call.answer
          /\ calls' = (calls \ {call}) \cup {n}
      BY <1>1, Advancing
<1>3. Carries(n)
      BY <1>1, <1>2 DEF Carries, Keeps
<1> QED
    BY <1>2, <1>3 DEF CallsAreTyped

LEMMA SendingIsTyped ==
    ASSUME NEW b \in Browsers, NEW request \in Requested, NEW retried \in BOOLEAN,
           cookie[b] \in Tokens, request.kind # "register"
    PROVE  /\ Account!Call(b, request, retried) \in AccountCall
           /\ Carries(Account!Call(b, request, retried))
<1>1. PICK call : call = Account!Call(b, request, retried)
      OBVIOUS
<1> QED
    BY <1>1, CallIsSent DEF Carries

LEMMA RenewalIsTyped ==
    ASSUME NEW b \in Browsers, cookie[b] \in Tokens,
           NEW refused \in Account!Request \cup {None},
           refused # None => refused.kind # "register",
           NEW n, n = Account!Renewal(b, refused)
    PROVE  /\ n \in AccountCall /\ Carries(n)
           /\ n.request.kind = "renew" /\ n.cookies = cookie[b] /\ n.step = "sent"
<1>1. PICK call : call = Account!Call(b, Renewing, TRUE)
      OBVIOUS
<1>2. Renewing \in Requested /\ Renewing.kind = "renew" /\ refused \in AccountRow
      BY DEF Requested, Renewing, AccountRow
<1>3. call \in AccountCall /\ call.request = Renewing /\ call.step = "sent" /\ call.cookies = cookie[b]
  <2>1. {Renewing} \subseteq Requested /\ None \in AccountRow /\ None \in AccountAnswer
        BY <1>2 DEF AccountRow, AccountAnswer
  <2> QED
      BY <1>1, <2>1 DEF AccountCall, Account!Call, AccountStep
<1>4. n = [call EXCEPT !.row = refused]
      BY <1>1 DEF Account!Renewal, Renewing
<1>5. n \in AccountCall
      BY <1>2, <1>3, <1>4 DEF AccountCall
<1>6. n.request = Renewing /\ n.step = "sent" /\ n.row = refused /\ n.cookies = cookie[b]
      BY <1>3, <1>4 DEF AccountCall
<1>7. Carries(n)
      BY <1>2, <1>6 DEF Carries
<1> QED
    BY <1>2, <1>5, <1>6, <1>7

LEMMA TokensAre ==
    ASSUME Account!TypeOK, NEW b \in Browsers
    PROVE  cookie[b] \in Tokens
BY DEF Account!TypeOK, Tokens

LEMMA AccountRegisters ==
    ASSUME AccountTypes, NEW call \in calls,
           \/ Account!RegisterFind(call) \/ Account!RegisterInsert(call) \/ Account!ProfileFind(call)
           \/ Account!ProfileSave(call) \/ Account!RegisterRemove(call)
    PROVE  AccountTypes'
<1>1. call \in AccountCall /\ Carries(call)
      BY DEF AccountTypes, CallsAreTyped
<1>2. call.request \in Requested
      BY <1>1 DEF AccountCall
<1>3. call.request.kind = "register" /\ call.id \in Account!Id
      BY <1>1 DEF Carries, Account!RegisterFind, Account!RegisterInsert, Account!ProfileFind,
                  Account!ProfileSave, Account!RegisterRemove, Account!Handles
<1>4. /\ call.request.email \in Typed /\ call.request.username \in Logins
      /\ call.request.password \in Passwords
      BY <1>2, <1>3, KindsOfRequest
<1>5. /\ Account!Granted(call.id) \in Grant /\ Account!Granted(call.id) # Account!Unauthorized
      /\ Account!Refused # Account!Unauthorized
      BY <1>3, AnswersDiffer
<1>6. {"insert", "create", "save", "remove"} \subseteq AccountStep \ {"answered"}
      BY DEF AccountStep
<1>7. CASE Account!RegisterFind(call)
  <2>1. CallsAreTyped'
        BY <1>3, <1>5, <1>6, <1>7, AnsweringIsTyped, AdvancingIsTyped
           DEF AccountTypes, Account!RegisterFind
  <2> QED
      BY <1>7, <2>1 DEF AccountTypes, Account!TypeOK, Account!RegisterFind, Account!dbVars,
         Account!clientVars, Account!historyVars, CallsAreTyped, AccountCall
<1>8. CASE Account!RegisterInsert(call)
  <2>1. CallsAreTyped'
        BY <1>3, <1>6, <1>8, AdvancingIsTyped DEF AccountTypes, Account!RegisterInsert
  <2>2. [id |-> call.id, email |-> toLower[call.request.email],
         password |-> call.request.password] \in Account!Identity
        BY <1>3, <1>4 DEF Account!Identity
  <2>3. Account!TypeOK'
        BY <1>8, <2>1, <2>2 DEF AccountTypes, Account!TypeOK, Account!RegisterInsert,
           Account!clientVars, Account!historyVars, CallsAreTyped, AccountCall
  <2> QED
      BY <2>1, <2>3 DEF AccountTypes
<1>9. CASE Account!ProfileFind(call)
  <2>1. CallsAreTyped'
        BY <1>3, <1>6, <1>9, AdvancingIsTyped DEF AccountTypes, Account!ProfileFind
  <2> QED
      BY <1>9, <2>1 DEF AccountTypes, Account!TypeOK, Account!ProfileFind, Account!dbVars,
         Account!clientVars, Account!historyVars, CallsAreTyped, AccountCall
<1>10. CASE Account!ProfileSave(call)
  <2>1. CallsAreTyped'
        BY <1>3, <1>5, <1>6, <1>10, AnsweringIsTyped, AdvancingIsTyped
           DEF AccountTypes, Account!ProfileSave
  <2>2. [id |-> call.id, username |-> call.request.username] \in Account!Profile
        BY <1>3, <1>4 DEF Account!Profile
  <2>3. Account!TypeOK'
        BY <1>3, <1>10, <2>1, <2>2 DEF AccountTypes, Account!TypeOK, Account!ProfileSave,
           Account!clientVars, CallsAreTyped, AccountCall
  <2> QED
      BY <2>1, <2>3 DEF AccountTypes
<1>11. CASE Account!RegisterRemove(call)
  <2>1. CallsAreTyped'
        BY <1>3, <1>5, <1>11, AnsweringIsTyped DEF AccountTypes, Account!RegisterRemove
  <2>2. Account!TypeOK'
        BY <1>11, <2>1 DEF AccountTypes, Account!TypeOK, Account!RegisterRemove,
           Account!clientVars, Account!historyVars, CallsAreTyped, AccountCall
  <2> QED
      BY <2>1, <2>2 DEF AccountTypes
<1> QED
    BY <1>7, <1>8, <1>9, <1>10, <1>11

LEMMA AccountSessions ==
    ASSUME AccountTypes, NEW call \in calls,
           \/ Account!LoginFind(call) \/ Account!Renew(call) \/ Account!Verify(call)
           \/ Account!PasswordFind(call) \/ Account!PasswordSave(call)
    PROVE  AccountTypes'
<1>1. call \in AccountCall /\ Carries(call)
      BY DEF AccountTypes, CallsAreTyped
<1>2. call.request \in Requested /\ call.request.kind # "register" /\ call.cookies \in Tokens
      BY <1>1 DEF AccountCall, Account!LoginFind, Account!Renew, Account!Verify,
                  Account!PasswordFind, Account!PasswordSave, Account!Handles
<1>3. Account!Guarded(call) \in Account!Id \cup {None}
      BY <1>2 DEF Account!Guarded, Tokens
<1>4. \A id \in Account!Id : Account!Granted(id) \in Grant
      BY AnswersDiffer
<1>5. CASE Account!LoginFind(call)
  <2>1. \A r \in identities : Account!Granted(r.id) \in Grant
        BY <1>4 DEF AccountTypes, Account!TypeOK, Account!Identity
  <2>2. CallsAreTyped'
        BY <1>2, <1>5, <2>1, AnsweringIsTyped DEF AccountTypes, Account!LoginFind
  <2>3. early' \subseteq Account!Id
    <3>1. \A r \in identities : r.id \in Account!Id
          BY DEF AccountTypes, Account!TypeOK, Account!Identity
    <3> QED
        BY <1>5, <3>1 DEF AccountTypes, Account!TypeOK, Account!LoginFind
  <2> QED
      BY <1>5, <2>2, <2>3 DEF AccountTypes, Account!TypeOK, Account!LoginFind, Account!dbVars,
         Account!clientVars, CallsAreTyped, AccountCall
<1>6. CASE Account!Renew(call) \/ Account!Verify(call)
  <2>1. CallsAreTyped'
        BY <1>2, <1>3, <1>4, <1>6, AnsweringIsTyped
           DEF AccountTypes, Account!Renew, Account!Verify
  <2> QED
      BY <1>6, <2>1 DEF AccountTypes, Account!TypeOK, Account!Renew, Account!Verify,
         Account!dbVars, Account!clientVars, Account!historyVars, CallsAreTyped, AccountCall
<1>7. CASE Account!PasswordFind(call)
  <2> DEFINE r == Account!RowOf(identities, Account!Guarded(call))
  <2>1. ASSUME Account!HasId(identities, Account!Guarded(call)),
               Account!Moves(call, [call EXCEPT !.step = "save", !.row = r])
        PROVE  CallsAreTyped'
    <3>1. r \in Account!Identity
          BY <2>1 DEF Account!HasId, Account!RowOf, AccountTypes, Account!TypeOK
    <3>2. r \in AccountRow
          BY <3>1 DEF AccountRow
    <3> HIDE DEF r
    <3>3. PICK n \in AccountCall :
              /\ Keeps(call, n) /\ n.step = "save" /\ n.row = r /\ n.answer = call.answer
              /\ calls' = (calls \ {call}) \cup {n}
          BY <1>1, <2>1, <3>2, Saving
    <3>4. n.request.kind = "password"
          BY <1>7, <3>3 DEF Keeps, Account!PasswordFind, Account!Handles
    <3>5. Carries(n)
          BY <3>1, <3>3, <3>4 DEF Carries
    <3> QED
        BY <3>3, <3>5 DEF AccountTypes, CallsAreTyped
  <2>2. CallsAreTyped'
    <3> HIDE DEF r
    <3>1. CASE Account!Answers(call, Account!Unauthorized)
          BY <1>2, <3>1, AnsweringIsTyped DEF AccountTypes
    <3>2. CASE Account!Answers(call, Account!Refused)
          BY <1>2, <3>2, AnsweringIsTyped DEF AccountTypes
    <3>3. \/ Account!HasId(identities, Account!Guarded(call))
             /\ Account!Moves(call, [call EXCEPT !.step = "save", !.row = r])
          \/ Account!Answers(call, Account!Unauthorized)
          \/ Account!Answers(call, Account!Refused)
          BY <1>7 DEF Account!PasswordFind, r
    <3> QED
        BY <2>1, <3>1, <3>2, <3>3 DEF AccountTypes
  <2> QED
      BY <1>7, <2>2 DEF AccountTypes, Account!TypeOK, Account!PasswordFind,
         Account!dbVars, Account!clientVars, Account!historyVars, CallsAreTyped, AccountCall
<1>8. CASE Account!PasswordSave(call)
  <2>1. call.request.kind = "password" /\ call.step = "save"
        BY <1>8 DEF Account!PasswordSave, Account!Handles
  <2>2. call.row \in Account!Identity /\ call.request.new \in Passwords
        BY <1>1, <1>2, <2>1, KindsOfRequest DEF Carries
  <2>3. PICK r : r = [call.row EXCEPT !.password = call.request.new]
        OBVIOUS
  <2>4. r \in Account!Identity /\ call.row.id \in Account!Id
        BY <2>2, <2>3 DEF Account!Identity
  <2>5. CallsAreTyped'
        BY <1>2, <1>4, <1>8, <2>4, AnsweringIsTyped DEF AccountTypes, Account!PasswordSave
  <2>6. identities' \subseteq identities \cup {r}
        BY <1>8, <2>3 DEF Account!PasswordSave
  <2> QED
      BY <1>8, <2>4, <2>5, <2>6 DEF AccountTypes, Account!TypeOK, Account!PasswordSave,
         Account!clientVars, Account!historyVars, CallsAreTyped, AccountCall
<1> QED
    BY <1>5, <1>6, <1>7, <1>8

LEMMA AccountReceives ==
    ASSUME AccountTypes, NEW call \in calls, Account!Receive(call)
    PROVE  AccountTypes'
<1>1. call \in AccountCall /\ Carries(call)
      BY DEF AccountTypes, CallsAreTyped
<1>2. /\ call.by \in Browsers /\ call.request \in Requested /\ cookie[call.by] \in Tokens
      /\ call.answer \in AccountAnswer
      BY <1>1, TokensAre DEF AccountCall, AccountTypes
<1>3. CASE Account!Intercept(call)
  <2>1. call.request \in Account!Request /\ call.request.kind # "register"
        BY <1>1, <1>2, <1>3, KindsOfRequest DEF Account!Intercept, Account!Intercepted, Carries
  <2>2. PICK n : n = Account!Renewal(call.by, call.request)
        OBVIOUS
  <2>3. n \in AccountCall /\ Carries(n)
        BY <1>2, <2>1, <2>2, RenewalIsTyped
  <2>4. calls' = (calls \ {call}) \cup {n}
        BY <1>3, <2>2 DEF Account!Intercept, Account!Moves
  <2>5. CallsAreTyped'
        BY <2>3, <2>4 DEF CallsAreTyped, AccountTypes
  <2> QED
      BY <1>3, <2>5 DEF AccountTypes, Account!TypeOK, Account!Intercept,
         Account!dbVars, Account!clientVars, Account!historyVars, CallsAreTyped, AccountCall
<1>4. ASSUME call.step = "answered"
      PROVE  \A kind : Account!Stored(call.by, kind, call.answer) \in Tokens
  <2>1. call.answer.status = "ok" => call.answer.id \in Account!Id
        BY <1>1, <1>4, AnswersDiffer DEF Carries
  <2>2. [access |-> None, refresh |-> None] \in Tokens
        BY DEF Tokens
  <2>3. ASSUME NEW id \in Account!Id
        PROVE  [access |-> id, refresh |-> id] \in Tokens
               /\ [cookie[call.by] EXCEPT !.access = id] \in Tokens
        BY <1>2 DEF Tokens
  <2> SUFFICES ASSUME NEW kind PROVE Account!Stored(call.by, kind, call.answer) \in Tokens
      OBVIOUS
  <2>4. CASE call.answer.status # "ok"
        BY <1>2, <2>4 DEF Account!Stored
  <2>5. CASE call.answer.status = "ok"
    <3>1. CASE kind \in {"register", "login"}
          BY <2>1, <2>3, <2>5, <3>1 DEF Account!Stored
    <3>2. CASE kind = "renew"
          BY <2>1, <2>3, <2>5, <3>2 DEF Account!Stored
    <3>3. CASE kind = "logout"
          BY <2>2, <2>5, <3>3 DEF Account!Stored
    <3>4. CASE kind \notin {"register", "login", "renew", "logout"}
          BY <1>2, <2>5, <3>4 DEF Account!Stored
    <3> QED
        BY <3>1, <3>2, <3>3, <3>4
  <2> QED
      BY <2>4, <2>5
<1>5. CASE Account!TakeRenewal(call)
  <2>1. cookie' \in [Browsers -> Tokens]
    <3>1. Account!Stored(call.by, "renew", call.answer) \in Tokens
          BY <1>4, <1>5 DEF Account!TakeRenewal, Account!Handles
    <3> QED
        BY <1>2, <1>5, <3>1 DEF Account!TakeRenewal, AccountTypes, Account!TypeOK, Tokens
  <2>2. PICK n : n = [Account!Call(call.by, call.row, TRUE) EXCEPT !.cookies = cookie'[call.by]]
        OBVIOUS
  <2>3. ASSUME call.row # None PROVE n \in AccountCall /\ Carries(n)
    <3>1. call.row \in Requested /\ call.row.kind \notin {"register", "renew"}
          BY <1>1, <1>5, <2>3, KindsOfRequest DEF Carries, Requested, Account!TakeRenewal, Account!Handles
    <3>2. PICK m : m = Account!Call(call.by, call.row, TRUE)
          OBVIOUS
    <3>3. m \in AccountCall /\ Carries(m) /\ m.request = call.row /\ m.step = "sent"
          BY <1>2, <3>1, <3>2, SendingIsTyped, TRUE \in BOOLEAN DEF Account!Call
    <3>4. n = [m EXCEPT !.cookies = cookie'[call.by]]
          BY <2>2, <3>2
    <3>5. cookie'[call.by] \in Tokens
          BY <1>2, <2>1
    <3>6. n \in AccountCall /\ n.request = call.row /\ n.step = "sent"
          BY <3>3, <3>4, <3>5 DEF AccountCall
    <3> QED
        BY <3>1, <3>6 DEF Carries
  <2>4. CallsAreTyped'
        BY <1>5, <2>2, <2>3 DEF CallsAreTyped, AccountTypes, Account!TakeRenewal
  <2>5. page' \in [Browsers -> {"login", "register", "channels"}]
        BY <1>2, <1>5 DEF AccountTypes, Account!TypeOK, Account!TakeRenewal
  <2>6. authorized' \subseteq Browsers
        BY <1>2, <1>5 DEF AccountTypes, Account!TypeOK, Account!TakeRenewal
  <2> QED
      BY <1>5, <2>1, <2>4, <2>5, <2>6 DEF AccountTypes, Account!TypeOK, Account!TakeRenewal, Tokens,
         Account!dbVars, Account!historyVars, CallsAreTyped, AccountCall
<1>6. CASE Account!Take(call)
  <2>1. cookie' \in [Browsers -> Tokens]
    <3>1. Account!Stored(call.by, call.request.kind, call.answer) \in Tokens
          BY <1>4, <1>6 DEF Account!Take
    <3> QED
        BY <1>2, <1>6, <3>1 DEF Account!Take, AccountTypes, Account!TypeOK, Tokens
  <2>2. CallsAreTyped'
        BY <1>6 DEF CallsAreTyped, AccountTypes, Account!Take
  <2>3. page' \in [Browsers -> {"login", "register", "channels"}]
        BY <1>2, <1>6 DEF AccountTypes, Account!TypeOK, Account!Take
  <2>4. authorized' \subseteq Browsers
        BY <1>2, <1>6 DEF AccountTypes, Account!TypeOK, Account!Take
  <2> QED
      BY <1>6, <2>1, <2>2, <2>3, <2>4 DEF AccountTypes, Account!TypeOK, Account!Take, Tokens,
         Account!dbVars, Account!historyVars, CallsAreTyped, AccountCall
<1>7. CASE Account!Lose(call)
  <2>1. PICK n : n = [call EXCEPT !.heard = FALSE]
        OBVIOUS
  <2>2. n \in AccountCall /\ Carries(n)
        BY <1>1, <2>1, CallIsUnheard DEF Carries, Keeps
  <2>3. CallsAreTyped'
        BY <1>7, <2>1, <2>2 DEF CallsAreTyped, AccountTypes, Account!Lose
  <2> QED
      BY <1>2, <1>7, <2>3 DEF AccountTypes, Account!TypeOK, Account!Lose,
         Account!dbVars, Account!historyVars, CallsAreTyped, AccountCall
<1> QED
    BY <1>3, <1>5, <1>6, <1>7 DEF Account!Receive

LEMMA AccountAsks ==
    ASSUME AccountTypes, NEW b \in Browsers, NEW request \in Account!Request, Account!Ask(b, request)
    PROVE  AccountTypes'
<1> DEFINE id == <<b, asked[b] + 1>>
<1>1. asked[b] \in Nat /\ MaxCalls[b] \in Nat /\ cookie[b] \in Tokens
      BY ComponentsAssumption, TokensAre DEF AccountTypes, Account!TypeOK
<1>2. id \in Account!Id
  <2>1. asked[b] + 1 \in 1 .. MaxCalls[b]
        BY <1>1 DEF Account!Ask
  <2> QED
      BY <2>1 DEF Account!Id
<1>3. PICK call : call = Account!Call(b, request, FALSE)
      OBVIOUS
<1>4. PICK n : n = IF request.kind = "register" THEN [call EXCEPT !.id = id] ELSE call
      OBVIOUS
<1>5. request \in Requested /\ request.kind # "renew"
      BY KindsOfRequest DEF Requested
<1>6. /\ call \in AccountCall /\ call.request = request /\ call.step = "sent"
      /\ call.answer = None /\ call.row = None
  <2>1. {request} \subseteq Requested /\ None \in AccountRow /\ None \in AccountAnswer
        BY <1>5 DEF AccountRow, AccountAnswer
  <2> QED
      BY <1>1, <1>3, <2>1 DEF AccountCall, Account!Call, AccountStep
<1> HIDE DEF id
<1>7. /\ n \in AccountCall /\ n.request = request /\ n.step = "sent" /\ n.answer = None
      /\ n.row = None /\ (request.kind = "register" => n.id = id)
      BY <1>2, <1>4, <1>6 DEF AccountCall
<1>8. Carries(n)
      BY <1>2, <1>5, <1>7 DEF Carries
<1>9. calls' = calls \cup {n}
      BY <1>3, <1>4 DEF Account!Ask, id
<1>10. CallsAreTyped'
       BY <1>7, <1>8, <1>9 DEF CallsAreTyped, AccountTypes
<1>11. asked' \in [Browsers -> Nat]
       BY <1>1 DEF AccountTypes, Account!TypeOK, Account!Ask
<1>12. met' \subseteq SUBSET Account!Id
  <2>1. \A other \in calls : other.request.kind = "register" => other.id \in Account!Id
        BY DEF AccountTypes, CallsAreTyped, Carries
  <2>2. met' \subseteq met \cup {{id, other.id} : other \in {c \in calls : c.request.kind = "register"}}
        BY DEF Account!Ask, id
  <2> QED
      BY <1>2, <2>1, <2>2 DEF AccountTypes, Account!TypeOK
<1> QED
    BY <1>10, <1>11, <1>12 DEF AccountTypes, Account!TypeOK, Account!Ask, CallsAreTyped, AccountCall,
       Account!dbVars, Account!clientVars

LEMMA AccountMoves ==
    ASSUME AccountTypes, NEW b \in Browsers,
           Account!Navigate(b) \/ Account!Load(b) \/ Account!Expire(b)
    PROVE  AccountTypes'
<1>1. cookie[b] \in Tokens
      BY TokensAre DEF AccountTypes
<1>2. CASE Account!Navigate(b)
  <2>1. page' \in [Browsers -> {"login", "register", "channels"}]
        BY <1>2 DEF AccountTypes, Account!TypeOK, Account!Navigate
  <2> QED
      BY <1>2, <2>1 DEF AccountTypes, Account!TypeOK, CallsAreTyped, Account!Navigate,
         Account!dbVars, Account!historyVars
<1>3. CASE Account!Load(b)
  <2>1. PICK n : n = Account!Renewal(b, None)
        OBVIOUS
  <2>2. n \in AccountCall /\ Carries(n)
    <3>1. None \in Account!Request \cup {None}
          OBVIOUS
    <3> QED
        BY <1>1, <2>1, <3>1, RenewalIsTyped
  <2>3. ASSUME NEW call \in calls
        PROVE  LET m == IF call.by = b THEN [call EXCEPT !.heard = FALSE] ELSE call
               IN  m \in AccountCall /\ Carries(m)
    <3>1. call \in AccountCall /\ Carries(call)
          BY DEF AccountTypes, CallsAreTyped
    <3>2. PICK m : m = [call EXCEPT !.heard = FALSE]
          OBVIOUS
    <3>3. m \in AccountCall /\ Carries(m)
          BY <3>1, <3>2, CallIsUnheard DEF Carries, Keeps
    <3> QED
        BY <3>1, <3>2, <3>3
  <2>4. CallsAreTyped'
        BY <1>3, <2>1, <2>2, <2>3 DEF CallsAreTyped, Account!Load
  <2>5. loads' \in [Browsers -> Nat]
        BY <1>3 DEF AccountTypes, Account!TypeOK, Account!Load
  <2> QED
      BY <1>3, <2>4, <2>5 DEF AccountTypes, Account!TypeOK, CallsAreTyped, AccountCall, Account!Load,
         Account!dbVars, Account!historyVars
<1>4. CASE Account!Expire(b)
  <2>1. cookie' \in [Browsers -> Tokens]
        BY <1>1, <1>4 DEF AccountTypes, Account!TypeOK, Account!Expire, Tokens
  <2> QED
      BY <1>4, <2>1 DEF AccountTypes, Account!TypeOK, CallsAreTyped, Account!Expire, Tokens,
         Account!dbVars, Account!historyVars
<1> QED
    BY <1>2, <1>3, <1>4

LEMMA AccountTypesStay == AccountTypes /\ [Account!Next]_accountVars => AccountTypes'
<1> SUFFICES ASSUME AccountTypes, [Account!Next]_accountVars PROVE AccountTypes'
    OBVIOUS
<1>1. ASSUME NEW call \in calls, Account!Serve(call) PROVE AccountTypes'
      BY <1>1, AccountRegisters, AccountSessions DEF Account!Serve
<1>2. ASSUME NEW b \in Browsers, NEW request \in Operations[b] \cap Account!Request,
             Account!Ask(b, request)
      PROVE  AccountTypes'
      BY <1>2, AccountAsks
<1>3. CASE UNCHANGED accountVars
      BY <1>3 DEF accountVars, AccountTypes, Account!TypeOK, CallsAreTyped
<1> QED
    BY <1>1, <1>2, <1>3, AccountReceives, AccountMoves DEF Account!Next

Registers == {call \in calls : call.request.kind = "register"}

Unanswered(call) == call.step # "answered"

\* The ids that have been given out, and those of a row that has been inserted.
Given(id) == id \in Account!Id /\ id[2] <= asked[id[1]]

Made(id) == Given(id) /\ \A r \in Registers : r.id = id => r.step \notin {"sent", "insert"}

RegistersAreApart ==
    /\ \A r \in Registers : Given(r.id)
    /\ \A r, s \in Registers : r.id = s.id => r = s
    /\ \A r, s \in Registers : r # s /\ Unanswered(r) /\ Unanswered(s) => {r.id, s.id} \in met

AccountsAreMade ==
    /\ \A i \in identities : Made(i.id)
    /\ \A p \in profiles : Given(p.id)
    /\ \A i, j \in identities : i.id = j.id => i = j

\* Who is about to be inserted knows whoever has its address or name by now.
RegistersKnow ==
    /\ \A r \in Registers : \A i \in identities :
          r.step = "insert" /\ i.email = toLower[r.request.email] =>
              {i.id, r.id} \in met \/ i.id \in early
    /\ \A r \in Registers : \A p \in profiles :
          r.step = "save" /\ p.username = r.request.username => {p.id, r.id} \in met

HasAccount(id) == Account!HasId(identities, id)

HasProfile(id) == Account!HasId(profiles, id)

AccountsFollow ==
    /\ \A r \in Registers :
          /\ r.step \in {"create", "save"} => HasAccount(r.id)
          /\ r.step \in {"sent", "insert", "create", "save"} => ~HasProfile(r.id)
          /\ r.step = "remove" /\ HasProfile(r.id) => r.id \in lost
    /\ \A i \in identities :
          \/ HasProfile(i.id) \/ i.id \in early
          \/ \E r \in Registers : r.id = i.id /\ Unanswered(r)
    /\ \A p \in profiles : HasAccount(p.id) \/ p.id \in lost

RegistersInvariant ==
    /\ RegistersAreApart /\ AccountsAreMade /\ RegistersKnow /\ AccountsFollow
    /\ Account!AccountsAreUnique

\* No registration moves on, but one that is answered can end.
RegistersRest ==
    /\ UNCHANGED <<identities, profiles, met, asked, lost>> /\ early \subseteq early'
    /\ \A n \in Registers' : \E r \in Registers :
          n.id = r.id /\ n.step = r.step /\ n.request = r.request
    /\ \A r \in Registers : Unanswered(r) => \E n \in Registers' : n.id = r.id /\ Unanswered(n)
    /\ \A n, m \in Registers' : n.id = m.id => n = m

LEMMA RestingIsMade == ASSUME RegistersRest, NEW id, Made(id) PROVE Made(id)'
BY DEF RegistersRest, Made, Given

LEMMA RestingRegisters == RegistersInvariant /\ RegistersRest => RegistersInvariant'
<1> SUFFICES ASSUME RegistersInvariant, RegistersRest PROVE RegistersInvariant'
    OBVIOUS
<1>1. RegistersAreApart'
  <2>1. \A r \in Registers' : Given(r.id)'
        BY DEF RegistersInvariant, RegistersRest, RegistersAreApart, Given
  <2>2. ASSUME NEW n \in Registers', NEW m \in Registers', n # m, Unanswered(n), Unanswered(m)
        PROVE  {n.id, m.id} \in met'
    <3>1. PICK r \in Registers : n.id = r.id /\ n.step = r.step
          BY DEF RegistersRest
    <3>2. PICK s \in Registers : m.id = s.id /\ m.step = s.step
          BY DEF RegistersRest
    <3>3. r # s
          BY <2>2, <3>1, <3>2 DEF RegistersRest
    <3> QED
        BY <2>2, <3>1, <3>2, <3>3 DEF RegistersInvariant, RegistersAreApart, Unanswered, RegistersRest
  <2> QED
      BY <2>1, <2>2 DEF RegistersAreApart, RegistersRest, Unanswered
<1>2. AccountsAreMade'
      BY RestingIsMade DEF RegistersInvariant, AccountsAreMade, RegistersRest, Given
<1>3. RegistersKnow'
      BY DEF RegistersInvariant, RegistersKnow, RegistersRest
<1>4. AccountsFollow'
  <2>1. \A id : HasAccount(id)' = HasAccount(id) /\ HasProfile(id)' = HasProfile(id)
        BY DEF HasAccount, HasProfile, RegistersRest, Account!HasId
  <2> QED
      BY <2>1 DEF RegistersInvariant, AccountsFollow, RegistersRest
<1>5. Account!AccountsAreUnique'
      BY DEF RegistersInvariant, Account!AccountsAreUnique, RegistersRest
<1> QED
    BY <1>1, <1>2, <1>3, <1>4, <1>5 DEF RegistersInvariant

\* The account and the profile are there, and nobody will take them back.
Safe(id) ==
    HasAccount(id) /\ HasProfile(id) /\ \A r \in Registers : r.id = id => ~Unanswered(r)

IsSession(id) == id = None \/ id \in early \/ Safe(id)

\* A row that a change of password can save: it is the account's but for the password.
SavesWell(i) ==
    /\ Made(i.id) /\ IsSession(i.id)
    /\ i.id \in early \/ \A j \in identities : j.id = i.id => j.email = i.email

TokensAreSafe(tokens) == IsSession(tokens.access) /\ IsSession(tokens.refresh)

CallIsSafe(call) ==
    /\ TokensAreSafe(call.cookies)
    /\ call.step = "answered" /\ call.answer.status = "ok" => IsSession(call.answer.id)
    /\ call.request.kind = "password" /\ call.step = "save" => SavesWell(call.row)

SessionsAreSafe ==
    /\ \A b \in Browsers : TokensAreSafe(cookie[b])
    /\ \A call \in calls : CallIsSafe(call)

AccountInvariant == AccountTypes /\ RegistersInvariant /\ SessionsAreSafe

\* No session loses its account.
SessionsLast ==
    /\ early \subseteq early'
    /\ \A id : (Safe(id) => Safe(id)') /\ (Made(id) => Made(id)')
    /\ \A i \in identities' :
          \/ \E j \in identities : j.id = i.id /\ j.email = i.email
          \/ i.id \in early' \/ ~Made(i.id)

LEMMA LastingSession == ASSUME SessionsLast, NEW id, IsSession(id) PROVE IsSession(id)'
BY DEF SessionsLast, IsSession

LEMMA LastingTokens ==
    ASSUME SessionsLast, NEW tokens, TokensAreSafe(tokens) PROVE TokensAreSafe(tokens)'
BY LastingSession DEF TokensAreSafe

LEMMA LastingCall == ASSUME SessionsLast, NEW call, CallIsSafe(call) PROVE CallIsSafe(call)'
<1>1. SavesWell(call.row) => SavesWell(call.row)'
  <2> SUFFICES ASSUME SavesWell(call.row) PROVE SavesWell(call.row)'
      OBVIOUS
  <2> DEFINE id == call.row.id
             email == call.row.email
  <2>1. /\ Made(id) /\ IsSession(id)
        /\ id \in early \/ \A j \in identities : j.id = id => j.email = email
        BY DEF SavesWell
  <2>2. Made(id)' /\ IsSession(id)'
        BY <2>1, LastingSession DEF SessionsLast
  <2>3. id \in early' \/ \A j \in identities' : j.id = id => j.email = email
        BY <2>1 DEF SessionsLast
  <2> QED
      BY <2>2, <2>3 DEF SavesWell
<1> QED
    BY <1>1, LastingSession, LastingTokens DEF CallIsSafe

LEMMA LastingSessions ==
    ASSUME SessionsLast, SessionsAreSafe,
           \A b \in Browsers : cookie'[b] = cookie[b] \/ TokensAreSafe(cookie[b])',
           \A call \in calls' \ calls : CallIsSafe(call)'
    PROVE  SessionsAreSafe'
<1>1. ASSUME NEW b \in Browsers PROVE TokensAreSafe(cookie[b])'
  <2>1. TokensAreSafe(cookie[b])
        BY DEF SessionsAreSafe
  <2>2. PICK tokens : tokens = cookie[b]
        OBVIOUS
  <2>3. TokensAreSafe(tokens)'
        BY <2>1, <2>2, LastingTokens
  <2> QED
      BY <2>2, <2>3 DEF TokensAreSafe
<1>2. ASSUME NEW call \in calls' PROVE CallIsSafe(call)'
      BY LastingCall DEF SessionsAreSafe
<1> QED
    BY <1>1, <1>2 DEF SessionsAreSafe

LEMMA RestingLasts == ASSUME RegistersRest PROVE SessionsLast
<1>1. \A id : HasAccount(id)' = HasAccount(id) /\ HasProfile(id)' = HasProfile(id)
      BY DEF HasAccount, HasProfile, RegistersRest, Account!HasId
<1>2. ASSUME NEW id, Safe(id) PROVE Safe(id)'
      BY <1>1, <1>2 DEF Safe, RegistersRest, Unanswered
<1> QED
    BY <1>2, RestingIsMade DEF SessionsLast, RegistersRest

\* Registration r goes on as n, or is answered.
GoesOn(r, n) ==
    /\ r \in Registers /\ Unanswered(r) /\ n.id = r.id /\ n.request = r.request
    /\ Registers \ {r} \subseteq Registers' /\ Registers' \subseteq (Registers \ {r}) \cup {n}
    /\ Unanswered(n) => n \in Registers'

LEMMA GoingOnIsApart ==
    ASSUME RegistersAreApart, NEW r, NEW n, GoesOn(r, n), UNCHANGED <<met, asked>>
    PROVE  RegistersAreApart' /\ \A s \in Registers' : s # n => s \in Registers /\ s.id # r.id
BY DEF RegistersAreApart, GoesOn, Given, Unanswered

LEMMA GoingOnIsMade ==
    ASSUME NEW r, NEW n, GoesOn(r, n), UNCHANGED asked, NEW id, Made(id),
           r.step \in {"sent", "insert"} \/ n.step \notin {"sent", "insert"}
    PROVE  Made(id)'
BY DEF Made, GoesOn, Given

\* No profile is taken back, and no account but that of r.
KeepsAccounts(r) ==
    /\ \A id : HasProfile(id) => HasProfile(id)'
    /\ \A id : id # r.id /\ HasAccount(id) => HasAccount(id)'
    /\ \A i \in identities' : i \in identities \/ ~Made(i.id)

LEMMA GoingOnLasts ==
    ASSUME RegistersAreApart, NEW r, NEW n, GoesOn(r, n), UNCHANGED <<asked, early>>,
           r.step \in {"sent", "insert"} \/ n.step \notin {"sent", "insert"}, KeepsAccounts(r)
    PROVE  SessionsLast
<1>1. ASSUME NEW id, Safe(id) PROVE Safe(id)'
  <2>1. id # r.id
        BY <1>1 DEF Safe, GoesOn
  <2> QED
      BY <1>1, <2>1 DEF Safe, GoesOn, Unanswered, KeepsAccounts
<1> QED
    BY <1>1, GoingOnIsMade DEF SessionsLast, KeepsAccounts

\* That r goes on follows from what the handlers do to the requests.
LEMMA RegisterMoves ==
    ASSUME AccountTypes, NEW r \in Registers, Unanswered(r),
           NEW step \in {"insert", "create", "save", "remove"},
           Account!Moves(r, [r EXCEPT !.step = step])
    PROVE  \E n : /\ GoesOn(r, n) /\ Keeps(r, n) /\ n.step = step
                  /\ calls' \subseteq calls \cup {n}
<1>1. r \in AccountCall /\ r \in calls /\ step \in AccountStep
      BY DEF AccountTypes, CallsAreTyped, Registers, AccountStep
<1>2. PICK n \in AccountCall : Keeps(r, n) /\ n.step = step /\ calls' = (calls \ {r}) \cup {n}
      BY <1>1, Advancing
<1>3. GoesOn(r, n)
      BY <1>2 DEF GoesOn, Registers, Keeps
<1> QED
    BY <1>2, <1>3

LEMMA RegisterIsAnswered ==
    ASSUME AccountTypes, NEW r \in Registers, Unanswered(r), NEW answer \in AccountAnswer,
           Account!Answers(r, answer)
    PROVE  \E n : /\ GoesOn(r, n) /\ Keeps(r, n) /\ n.step = "answered" /\ n.answer = answer
                  /\ calls' \subseteq calls \cup {n}
<1>1. r \in AccountCall /\ r \in calls
      BY DEF AccountTypes, CallsAreTyped, Registers
<1>2. PICK n \in AccountCall :
          /\ Keeps(r, n) /\ n.step = "answered" /\ n.answer = answer
          /\ calls' = (calls \ {r}) \cup (IF r.heard THEN {n} ELSE {})
      BY <1>1, Answering
<1>3. GoesOn(r, n)
      BY <1>2 DEF GoesOn, Registers, Keeps, Unanswered
<1> QED
    BY <1>2, <1>3

\* A registration that is answered opens a session if the account is safe.
LEMMA RegisterIsSafe ==
    ASSUME SessionsAreSafe, SessionsLast, UNCHANGED cookie, NEW r \in Registers, NEW n, Keeps(r, n),
           calls' \subseteq calls \cup {n},
           n.step = "answered" /\ n.answer.status = "ok" => Safe(n.answer.id)'
    PROVE  SessionsAreSafe'
<1>1. CallIsSafe(r)'
      BY LastingCall DEF SessionsAreSafe, Registers
<1>2. CallIsSafe(n)'
      BY <1>1 DEF CallIsSafe, Keeps, Registers, IsSession
<1> QED
    BY <1>2, LastingSessions

LEMMA RegisterFinds ==
    ASSUME AccountTypes, RegistersInvariant, SessionsAreSafe, NEW r \in calls, Account!RegisterFind(r)
    PROVE  RegistersInvariant' /\ SessionsAreSafe'
<1>1. r \in AccountCall /\ r.request.kind = "register" /\ r.step = "sent" /\ r \in Registers
      BY DEF AccountTypes, CallsAreTyped, Account!RegisterFind, Account!Handles, Registers
<1>2. UNCHANGED <<identities, profiles, asked, met, early, lost>>
      BY DEF Account!RegisterFind, Account!dbVars, Account!historyVars
<1>3. PICK n :
          /\ GoesOn(r, n) /\ Keeps(r, n) /\ calls' \subseteq calls \cup {n}
          /\ n.step = "answered" => n.answer = Account!Refused
          /\ n.step \in {"insert", "answered"}
          /\ n.step = "insert" => ~\E i \in identities : i.email = toLower[r.request.email]
  <2>1. CASE Account!Answers(r, Account!Refused)
    <3>1. Account!Refused \in AccountAnswer
          BY DEF AccountAnswer
    <3> QED
        BY <1>1, <2>1, <3>1, RegisterIsAnswered DEF Unanswered
  <2>2. CASE /\ Account!Moves(r, [r EXCEPT !.step = "insert"])
             /\ ~\E i \in identities : i.email = toLower[r.request.email]
        BY <1>1, <2>2, RegisterMoves DEF Unanswered
  <2> QED
      BY <2>1, <2>2 DEF Account!RegisterFind
<1>4. RegistersAreApart' /\ \A s \in Registers' : s # n => s \in Registers /\ s.id # r.id
      BY <1>2, <1>3, GoingOnIsApart DEF RegistersInvariant
<1>5. n.id = r.id /\ n.request = r.request /\ Registers \ {r} \subseteq Registers'
      BY <1>3 DEF GoesOn
<1>6. AccountsAreMade'
      BY <1>1, <1>2, <1>3, GoingOnIsMade DEF RegistersInvariant, AccountsAreMade, Given
<1>7. RegistersKnow'
      BY <1>2, <1>3, <1>4, <1>5 DEF RegistersInvariant, RegistersKnow
<1>8. AccountsFollow'
  <2>1. \A id : HasAccount(id)' = HasAccount(id) /\ HasProfile(id)' = HasProfile(id)
        BY <1>2 DEF HasAccount, HasProfile, Account!HasId
  <2>2. \A i \in identities : i.id # r.id
        BY <1>1 DEF RegistersInvariant, AccountsAreMade, Made
  <2>3. \A s \in Registers' :
          /\ s.step \in {"create", "save"} => HasAccount(s.id)
          /\ s.step \in {"sent", "insert", "create", "save"} => ~HasProfile(s.id)
          /\ s.step = "remove" /\ HasProfile(s.id) => s.id \in lost
        BY <1>1, <1>3, <1>4, <1>5 DEF RegistersInvariant, AccountsFollow
  <2>4. \A i \in identities :
          \/ HasProfile(i.id) \/ i.id \in early
          \/ \E s \in Registers' : s.id = i.id /\ Unanswered(s)
        BY <1>5, <2>2 DEF RegistersInvariant, AccountsFollow
  <2> QED
      BY <1>2, <2>1, <2>3, <2>4 DEF RegistersInvariant, AccountsFollow, Unanswered
<1>9. Account!AccountsAreUnique'
      BY <1>2 DEF RegistersInvariant, Account!AccountsAreUnique
<1>10. SessionsAreSafe'
  <2>1. UNCHANGED cookie
        BY DEF Account!RegisterFind, Account!clientVars
  <2>2. SessionsLast
    <3>1. KeepsAccounts(r)
          BY <1>2 DEF KeepsAccounts, HasAccount, HasProfile, Account!HasId
    <3> QED
        BY <1>1, <1>2, <1>3, <3>1, GoingOnLasts DEF RegistersInvariant
  <2> QED
      BY <1>1, <1>3, AnswersDiffer, <2>1, <2>2, RegisterIsSafe
<1> QED
    BY <1>4, <1>6, <1>7, <1>8, <1>9, <1>10 DEF RegistersInvariant

LEMMA RegisterInserts ==
    ASSUME AccountTypes, RegistersInvariant, SessionsAreSafe, NEW r \in calls, Account!RegisterInsert(r)
    PROVE  RegistersInvariant' /\ SessionsAreSafe'
<1>1. r \in AccountCall /\ r.request.kind = "register" /\ r.step = "insert" /\ r \in Registers
      BY DEF AccountTypes, CallsAreTyped, Account!RegisterInsert, Account!Handles, Registers
<1>2. UNCHANGED <<profiles, asked, met, early, lost>>
      BY DEF Account!RegisterInsert, Account!historyVars
<1>3. PICK n :
          /\ GoesOn(r, n) /\ Keeps(r, n) /\ calls' \subseteq calls \cup {n}
          /\ n.step = "create"
      BY <1>1, RegisterMoves DEF Account!RegisterInsert, Unanswered
<1>4. RegistersAreApart' /\ \A s \in Registers' : s # n => s \in Registers /\ s.id # r.id
      BY <1>2, <1>3, GoingOnIsApart DEF RegistersInvariant
<1>5. /\ n.id = r.id /\ n.request = r.request /\ Registers \ {r} \subseteq Registers'
      /\ n \in Registers'
      BY <1>3 DEF GoesOn, Unanswered
<1>6. PICK new : /\ new.id = r.id /\ new.email = toLower[r.request.email]
                 /\ identities' = identities \cup {new}
  <2>1. PICK new : new = [id |-> r.id, email |-> toLower[r.request.email],
                          password |-> r.request.password]
        OBVIOUS
  <2> QED
      BY <2>1 DEF Account!RegisterInsert
<1>7. \A i \in identities : i.id # r.id
      BY <1>1 DEF RegistersInvariant, AccountsAreMade, Made
<1>8. AccountsAreMade'
  <2>1. Made(new.id)'
        BY <1>2, <1>3, <1>4, <1>5, <1>6 DEF Made, RegistersAreApart
  <2> QED
      BY <1>1, <1>2, <1>3, <1>6, <1>7, <2>1, GoingOnIsMade
         DEF RegistersInvariant, AccountsAreMade, Given
<1>9. RegistersKnow'
  <2>1. ASSUME NEW s \in Registers', s.step = "insert" PROVE {new.id, s.id} \in met
    <3>1. s # n /\ s \in Registers /\ s # r
          BY <1>3, <1>4, <2>1
    <3> QED
        BY <1>1, <1>6, <2>1, <3>1 DEF RegistersInvariant, RegistersAreApart, Unanswered
  <2> QED
      BY <1>2, <1>3, <1>4, <1>6, <2>1 DEF RegistersInvariant, RegistersKnow
<1>10. AccountsFollow'
  <2>1. /\ \A id : HasProfile(id)' = HasProfile(id) /\ (HasAccount(id) => HasAccount(id)')
        /\ HasAccount(r.id)'
        BY <1>2, <1>6 DEF HasAccount, HasProfile, Account!HasId
  <2>2. \A s \in Registers' :
          /\ s.step \in {"create", "save"} => HasAccount(s.id)'
          /\ s.step \in {"sent", "insert", "create", "save"} => ~HasProfile(s.id)
          /\ s.step = "remove" /\ HasProfile(s.id) => s.id \in lost
        BY <1>1, <1>3, <1>4, <1>5, <2>1 DEF RegistersInvariant, AccountsFollow
  <2>3. \A i \in identities' :
          \/ HasProfile(i.id) \/ i.id \in early
          \/ \E s \in Registers' : s.id = i.id /\ Unanswered(s)
        BY <1>3, <1>5, <1>6, <1>7 DEF RegistersInvariant, AccountsFollow, Unanswered
  <2> QED
      BY <1>2, <2>1, <2>2, <2>3 DEF RegistersInvariant, AccountsFollow, Unanswered
<1>11. Account!AccountsAreUnique'
       BY <1>1, <1>2, <1>6 DEF RegistersInvariant, Account!AccountsAreUnique, RegistersKnow
<1>12. SessionsAreSafe'
  <2>1. UNCHANGED cookie
        BY DEF Account!RegisterInsert, Account!clientVars
  <2>2. SessionsLast
    <3>1. KeepsAccounts(r)
          BY <1>1, <1>2, <1>6 DEF KeepsAccounts, Made, HasAccount, HasProfile, Account!HasId
    <3> QED
        BY <1>1, <1>2, <1>3, <3>1, GoingOnLasts DEF RegistersInvariant
  <2> QED
      BY <1>1, <1>3, <2>1, <2>2, RegisterIsSafe
<1> QED
    BY <1>4, <1>8, <1>9, <1>10, <1>11, <1>12 DEF RegistersInvariant

LEMMA ProfileFinds ==
    ASSUME AccountTypes, RegistersInvariant, SessionsAreSafe, NEW r \in calls, Account!ProfileFind(r)
    PROVE  RegistersInvariant' /\ SessionsAreSafe'
<1>1. r \in AccountCall /\ r.request.kind = "register" /\ r.step = "create" /\ r \in Registers
      BY DEF AccountTypes, CallsAreTyped, Account!ProfileFind, Account!Handles, Registers
<1>2. UNCHANGED <<identities, profiles, asked, met, early, lost>>
      BY DEF Account!ProfileFind, Account!dbVars, Account!historyVars
<1>3. PICK n :
          /\ GoesOn(r, n) /\ Keeps(r, n) /\ calls' \subseteq calls \cup {n}
          /\ n.step \in {"save", "remove"}
          /\ n.step = "save" => ~\E p \in profiles : p.username = r.request.username
  <2>1. PICK step \in {"save", "remove"} :
            /\ Account!Moves(r, [r EXCEPT !.step = step])
            /\ step = "save" => ~\E p \in profiles : p.username = r.request.username
        BY DEF Account!ProfileFind
  <2> QED
      BY <1>1, <2>1, RegisterMoves DEF Unanswered
<1>4. RegistersAreApart' /\ \A s \in Registers' : s # n => s \in Registers /\ s.id # r.id
      BY <1>2, <1>3, GoingOnIsApart DEF RegistersInvariant
<1>5. /\ n.id = r.id /\ n.request = r.request /\ Registers \ {r} \subseteq Registers'
      /\ n \in Registers'
      BY <1>3 DEF GoesOn, Unanswered
<1>6. AccountsAreMade'
      BY <1>1, <1>2, <1>3, GoingOnIsMade DEF RegistersInvariant, AccountsAreMade, Given
<1>7. RegistersKnow'
      BY <1>2, <1>3, <1>4, <1>5 DEF RegistersInvariant, RegistersKnow
<1>8. AccountsFollow'
  <2>1. \A id : HasAccount(id)' = HasAccount(id) /\ HasProfile(id)' = HasProfile(id)
        BY <1>2 DEF HasAccount, HasProfile, Account!HasId
  <2>2. \A s \in Registers' :
          /\ s.step \in {"create", "save"} => HasAccount(s.id)
          /\ s.step \in {"sent", "insert", "create", "save"} => ~HasProfile(s.id)
          /\ s.step = "remove" /\ HasProfile(s.id) => s.id \in lost
        BY <1>1, <1>3, <1>4, <1>5 DEF RegistersInvariant, AccountsFollow
  <2>3. \A i \in identities :
          \/ HasProfile(i.id) \/ i.id \in early
          \/ \E s \in Registers' : s.id = i.id /\ Unanswered(s)
        BY <1>3, <1>5 DEF RegistersInvariant, AccountsFollow, Unanswered
  <2> QED
      BY <1>2, <2>1, <2>2, <2>3 DEF RegistersInvariant, AccountsFollow, Unanswered
<1>9. Account!AccountsAreUnique'
      BY <1>2 DEF RegistersInvariant, Account!AccountsAreUnique
<1>10. SessionsAreSafe'
  <2>1. UNCHANGED cookie
        BY DEF Account!ProfileFind, Account!clientVars
  <2>2. SessionsLast
    <3>1. KeepsAccounts(r)
          BY <1>2 DEF KeepsAccounts, HasAccount, HasProfile, Account!HasId
    <3> QED
        BY <1>1, <1>2, <1>3, <3>1, GoingOnLasts DEF RegistersInvariant
  <2> QED
      BY <1>1, <1>3, <2>1, <2>2, RegisterIsSafe
<1> QED
    BY <1>4, <1>6, <1>7, <1>8, <1>9, <1>10 DEF RegistersInvariant

LEMMA ProfileSaves ==
    ASSUME AccountTypes, RegistersInvariant, SessionsAreSafe, NEW r \in calls, Account!ProfileSave(r)
    PROVE  RegistersInvariant' /\ SessionsAreSafe'
<1>1. r \in AccountCall /\ r.request.kind = "register" /\ r.step = "save" /\ r \in Registers
      BY DEF AccountTypes, CallsAreTyped, Account!ProfileSave, Account!Handles, Registers
<1>2. UNCHANGED <<identities, asked, met, early>>
      BY DEF Account!ProfileSave
<1>3. PICK n :
          /\ GoesOn(r, n) /\ Keeps(r, n) /\ calls' \subseteq calls \cup {n}
          /\ n.step = "answered" => n.answer = Account!Granted(r.id)
          /\ n.step \in {"answered", "remove"} /\ lost \subseteq lost'
          /\ n.step = "remove" => r.id \in lost'
  <2>1. CASE Account!Answers(r, Account!Granted(r.id)) /\ UNCHANGED lost
    <3>1. Account!Granted(r.id) \in AccountAnswer
          BY <1>1, AnswersDiffer DEF AccountTypes, CallsAreTyped, Carries, AccountAnswer
    <3> QED
        BY <1>1, <2>1, <3>1, RegisterIsAnswered DEF Unanswered
  <2>2. CASE Account!Moves(r, [r EXCEPT !.step = "remove"]) /\ lost' = lost \cup {r.id}
        BY <1>1, <2>2, RegisterMoves DEF Unanswered
  <2> QED
      BY <2>1, <2>2 DEF Account!ProfileSave
<1>4. RegistersAreApart' /\ \A s \in Registers' : s # n => s \in Registers /\ s.id # r.id
      BY <1>2, <1>3, GoingOnIsApart DEF RegistersInvariant
<1>5. n.id = r.id /\ n.request = r.request /\ Registers \ {r} \subseteq Registers'
      BY <1>3 DEF GoesOn
<1>6. PICK new : /\ new.id = r.id /\ new.username = r.request.username
                 /\ profiles' = profiles \cup {new}
  <2>1. PICK new : new = [id |-> r.id, username |-> r.request.username]
        OBVIOUS
  <2> QED
      BY <2>1 DEF Account!ProfileSave
<1>7. AccountsAreMade'
      BY <1>1, <1>2, <1>3, <1>6, GoingOnIsMade
         DEF RegistersInvariant, AccountsAreMade, Given, RegistersAreApart
<1>8. RegistersKnow'
  <2>1. ASSUME NEW s \in Registers', s.step = "save" PROVE {new.id, s.id} \in met
    <3>1. s # n /\ s \in Registers /\ s # r
          BY <1>3, <1>4, <2>1
    <3> QED
        BY <1>1, <1>6, <2>1, <3>1 DEF RegistersInvariant, RegistersAreApart, Unanswered
  <2> QED
      BY <1>2, <1>3, <1>4, <1>6, <2>1 DEF RegistersInvariant, RegistersKnow
<1>9. AccountsFollow'
  <2>1. /\ \A id : HasAccount(id)' = HasAccount(id) /\ (HasProfile(id) => HasProfile(id)')
        /\ \A id : id # r.id => (HasProfile(id)' => HasProfile(id))
        /\ HasProfile(r.id)'
        BY <1>2, <1>6 DEF HasAccount, HasProfile, Account!HasId
  <2>2. \A s \in Registers' :
          /\ s.step \in {"create", "save"} => HasAccount(s.id)'
          /\ s.step \in {"sent", "insert", "create", "save"} => ~HasProfile(s.id)'
          /\ s.step = "remove" /\ HasProfile(s.id)' => s.id \in lost'
        BY <1>3, <1>4, <1>5, <2>1 DEF RegistersInvariant, AccountsFollow
  <2>3. \A i \in identities :
          \/ HasProfile(i.id)' \/ i.id \in early
          \/ \E s \in Registers' : s.id = i.id /\ Unanswered(s)
        BY <1>5, <2>1 DEF RegistersInvariant, AccountsFollow, Unanswered
  <2>4. \A p \in profiles' : HasAccount(p.id)' \/ p.id \in lost'
        BY <1>1, <1>3, <1>6, <2>1 DEF RegistersInvariant, AccountsFollow
  <2> QED
      BY <1>2, <2>2, <2>3, <2>4 DEF AccountsFollow, Unanswered
<1>10. Account!AccountsAreUnique'
       BY <1>1, <1>2, <1>6 DEF RegistersInvariant, Account!AccountsAreUnique, RegistersKnow
<1>11. SessionsAreSafe'
  <2>1. UNCHANGED cookie
        BY DEF Account!ProfileSave, Account!clientVars
  <2>2. SessionsLast
    <3>1. KeepsAccounts(r)
          BY <1>2, <1>6 DEF KeepsAccounts, HasAccount, HasProfile, Account!HasId
    <3> QED
        BY <1>1, <1>2, <1>3, <3>1, GoingOnLasts DEF RegistersInvariant
  <2>3. n.step = "answered" => Safe(r.id)'
    <3>1. HasAccount(r.id)' /\ HasProfile(r.id)'
          BY <1>1, <1>2, <1>6 DEF RegistersInvariant, AccountsFollow, HasAccount, HasProfile,
                                  Account!HasId
    <3> QED
        BY <1>4, <3>1 DEF Safe, Unanswered
  <2>4. n.step = "answered" => n.answer.id = r.id
        BY <1>3, AnswersDiffer
  <2> QED
      BY <1>1, <1>3, <2>1, <2>2, <2>3, <2>4, RegisterIsSafe
<1> QED
    BY <1>4, <1>7, <1>8, <1>9, <1>10, <1>11 DEF RegistersInvariant

LEMMA RegisterRemoves ==
    ASSUME AccountTypes, RegistersInvariant, SessionsAreSafe, NEW r \in calls, Account!RegisterRemove(r)
    PROVE  RegistersInvariant' /\ SessionsAreSafe'
<1>1. r \in AccountCall /\ r.request.kind = "register" /\ r.step = "remove" /\ r \in Registers
      BY DEF AccountTypes, CallsAreTyped, Account!RegisterRemove, Account!Handles, Registers
<1>2. /\ UNCHANGED <<profiles, asked, met, early, lost>>
      /\ identities' = {i \in identities : i.id # r.id}
      BY DEF Account!RegisterRemove, Account!historyVars
<1>3. PICK n :
          /\ GoesOn(r, n) /\ Keeps(r, n) /\ calls' \subseteq calls \cup {n}
          /\ n.step = "answered" /\ n.answer = Account!Refused
  <2>1. Account!Refused \in AccountAnswer
        BY DEF AccountAnswer
  <2> QED
      BY <1>1, <2>1, RegisterIsAnswered DEF Account!RegisterRemove, Unanswered
<1>4. RegistersAreApart' /\ \A s \in Registers' : s # n => s \in Registers /\ s.id # r.id
      BY <1>2, <1>3, GoingOnIsApart DEF RegistersInvariant
<1>5. n.id = r.id /\ n.request = r.request /\ Registers \ {r} \subseteq Registers'
      BY <1>3 DEF GoesOn
<1>6. AccountsAreMade'
      BY <1>1, <1>2, <1>3, GoingOnIsMade DEF RegistersInvariant, AccountsAreMade, Given
<1>7. RegistersKnow'
      BY <1>2, <1>3, <1>4, <1>5 DEF RegistersInvariant, RegistersKnow
<1>8. AccountsFollow'
  <2>1. /\ \A id : HasProfile(id)' = HasProfile(id)
        /\ \A id : id # r.id => HasAccount(id)' = HasAccount(id)
        BY <1>2 DEF HasAccount, HasProfile, Account!HasId
  <2>2. \A s \in Registers' :
          /\ s.step \in {"create", "save"} => HasAccount(s.id)'
          /\ s.step \in {"sent", "insert", "create", "save"} => ~HasProfile(s.id)
          /\ s.step = "remove" /\ HasProfile(s.id) => s.id \in lost
        BY <1>3, <1>4, <2>1 DEF RegistersInvariant, AccountsFollow
  <2>3. \A i \in identities' :
          \/ HasProfile(i.id) \/ i.id \in early
          \/ \E s \in Registers' : s.id = i.id /\ Unanswered(s)
        BY <1>2, <1>5 DEF RegistersInvariant, AccountsFollow
  <2>4. \A p \in profiles : HasAccount(p.id)' \/ p.id \in lost
    <3> SUFFICES ASSUME NEW p \in profiles, p.id \notin lost PROVE HasAccount(p.id)'
        OBVIOUS
    <3>1. p.id # r.id
          BY <1>1 DEF RegistersInvariant, AccountsFollow, HasProfile, Account!HasId
    <3> QED
        BY <2>1, <3>1 DEF RegistersInvariant, AccountsFollow
  <2> QED
      BY <1>2, <2>1, <2>2, <2>3, <2>4 DEF AccountsFollow, Unanswered
<1>9. Account!AccountsAreUnique'
      BY <1>2 DEF RegistersInvariant, Account!AccountsAreUnique
<1>10. SessionsAreSafe'
  <2>1. UNCHANGED cookie
        BY DEF Account!RegisterRemove, Account!clientVars
  <2>2. SessionsLast
    <3>1. KeepsAccounts(r)
          BY <1>2 DEF KeepsAccounts, HasAccount, HasProfile, Account!HasId
    <3> QED
        BY <1>1, <1>2, <1>3, <3>1, GoingOnLasts DEF RegistersInvariant
  <2> QED
      BY <1>1, <1>3, AnswersDiffer, <2>1, <2>2, RegisterIsSafe
<1> QED
    BY <1>4, <1>6, <1>7, <1>8, <1>9, <1>10 DEF RegistersInvariant

\* Requests of other kinds, and answers that are taken, leave the registrations as they are.
LEMMA OtherRegisters ==
    ASSUME RegistersInvariant, Registers' = Registers, early \subseteq early',
           UNCHANGED <<identities, profiles, met, asked, lost>>
    PROVE  RegistersInvariant' /\ SessionsLast
<1>1. RegistersRest
      BY DEF RegistersRest, RegistersInvariant, RegistersAreApart
<1> QED
    BY <1>1, RestingRegisters, RestingLasts

\* An answer that grants what was a session already, or will be.
LEMMA AnswerIsSafe ==
    ASSUME AccountTypes, SessionsAreSafe, SessionsLast, UNCHANGED cookie,
           NEW call \in calls, NEW answer \in AccountAnswer, Account!Answers(call, answer),
           answer.status = "ok" => IsSession(answer.id)'
    PROVE  SessionsAreSafe'
<1>1. PICK n \in AccountCall :
          /\ Keeps(call, n) /\ n.step = "answered" /\ n.row = call.row /\ n.answer = answer
          /\ calls' = (calls \ {call}) \cup (IF call.heard THEN {n} ELSE {})
      BY Answering DEF AccountTypes, CallsAreTyped
<1>2. CallIsSafe(call)'
      BY LastingCall DEF SessionsAreSafe
<1>3. CallIsSafe(n)'
      BY <1>1, <1>2 DEF CallIsSafe, Keeps
<1> QED
    BY <1>1, <1>3, LastingSessions

LEMMA OthersAnswered ==
    ASSUME AccountTypes, NEW call \in calls, call.request.kind # "register",
           NEW answer \in AccountAnswer, Account!Answers(call, answer)
    PROVE  Registers' = Registers
<1>1. PICK n \in AccountCall :
          /\ Keeps(call, n)
          /\ calls' = (calls \ {call}) \cup (IF call.heard THEN {n} ELSE {})
      BY Answering DEF AccountTypes, CallsAreTyped
<1> QED
    BY <1>1 DEF Registers, Keeps

LEMMA LoginIsSafe ==
    ASSUME AccountTypes, RegistersInvariant, SessionsAreSafe, NEW call \in calls,
           Account!LoginFind(call)
    PROVE  RegistersInvariant' /\ SessionsAreSafe'
<1>1. /\ call.request.kind = "login" /\ UNCHANGED <<identities, profiles, met, asked, lost, cookie>>
      /\ early \subseteq early'
      BY DEF Account!LoginFind, Account!Handles, Account!dbVars, Account!clientVars
<1>2. PICK answer \in AccountAnswer :
          /\ Account!Answers(call, answer)
          /\ \/ answer = Account!Unauthorized
             \/ \E i \in identities :
                   /\ answer = Account!Granted(i.id)
                   /\ early' = early \cup ({r.id : r \in Account!Registering} \cap {i.id})
  <2>1. Account!Unauthorized \in AccountAnswer
        BY DEF AccountAnswer
  <2>2. \A i \in identities : Account!Granted(i.id) \in AccountAnswer
        BY AnswersDiffer DEF AccountTypes, Account!TypeOK, Account!Identity, AccountAnswer
  <2> QED
      BY <2>1, <2>2 DEF Account!LoginFind
<1>3. RegistersInvariant' /\ SessionsLast
      BY <1>1, <1>2, OthersAnswered, OtherRegisters
<1>4. ASSUME NEW i \in identities,
             early' = early \cup ({r.id : r \in Account!Registering} \cap {i.id})
      PROVE  IsSession(i.id)'
  <2>1. \A r \in Registers : r.id = i.id => r.step # "sent"
        BY DEF RegistersInvariant, AccountsAreMade, Made
  <2>2. CASE \E r \in Registers : r.id = i.id /\ Unanswered(r)
        BY <1>4, <2>1, <2>2 DEF IsSession, Registers, Unanswered, Account!Registering
  <2>3. CASE ~\E r \in Registers : r.id = i.id /\ Unanswered(r)
    <3>1. HasAccount(i.id)
          BY DEF HasAccount, Account!HasId
    <3>2. HasProfile(i.id) \/ i.id \in early
          BY <2>3 DEF RegistersInvariant, AccountsFollow
    <3>3. IsSession(i.id)
          BY <2>3, <3>1, <3>2 DEF IsSession, Safe
    <3> QED
        BY <1>3, <3>3, LastingSession
  <2> QED
      BY <2>2, <2>3
<1>5. answer.status = "ok" => IsSession(answer.id)'
      BY <1>2, <1>4, AnswersDiffer
<1> QED
    BY <1>1, <1>2, <1>3, <1>5, AnswerIsSafe

LEMMA TokenIsSafe ==
    ASSUME AccountTypes, SessionsAreSafe, NEW call \in calls
    PROVE  /\ IsSession(Account!Guarded(call))
           /\ Account!Guarded(call) \in Account!Id \cup {None}
<1>1. call.cookies \in Tokens
      BY DEF AccountTypes, CallsAreTyped, AccountCall
<1> QED
    BY <1>1 DEF SessionsAreSafe, CallIsSafe, TokensAreSafe, Account!Guarded, Tokens

LEMMA RenewalIsSafe ==
    ASSUME AccountTypes, RegistersInvariant, SessionsAreSafe, NEW call \in calls,
           Account!Renew(call) \/ Account!Verify(call)
    PROVE  RegistersInvariant' /\ SessionsAreSafe'
<1>1. /\ call.request.kind # "register"
      /\ UNCHANGED <<identities, profiles, met, asked, lost, early, cookie>>
      BY DEF Account!Renew, Account!Verify, Account!Handles, Account!dbVars, Account!clientVars,
             Account!historyVars
<1>2. PICK answer \in AccountAnswer :
          /\ Account!Answers(call, answer)
          /\ \/ answer = Account!Unauthorized
             \/ answer = Account!Granted(Account!Guarded(call))
  <2>1. Account!Unauthorized \in AccountAnswer
        BY DEF AccountAnswer
  <2>2. Account!Guarded(call) # None => Account!Granted(Account!Guarded(call)) \in AccountAnswer
        BY TokenIsSafe, AnswersDiffer DEF AccountAnswer
  <2> QED
      BY <2>1, <2>2 DEF Account!Renew, Account!Verify
<1>3. RegistersInvariant' /\ SessionsLast
      BY <1>1, <1>2, OthersAnswered, OtherRegisters
<1>4. answer.status = "ok" => IsSession(answer.id)'
      BY <1>2, <1>3, TokenIsSafe, LastingSession, AnswersDiffer
<1> QED
    BY <1>1, <1>2, <1>3, <1>4, AnswerIsSafe

LEMMA PasswordFindIsSafe ==
    ASSUME AccountTypes, RegistersInvariant, SessionsAreSafe, NEW call \in calls,
           Account!PasswordFind(call)
    PROVE  RegistersInvariant' /\ SessionsAreSafe'
<1> DEFINE i == Account!RowOf(identities, Account!Guarded(call))
<1>1. /\ call.request.kind = "password" /\ call \in AccountCall
      /\ UNCHANGED <<identities, profiles, met, asked, lost, early, cookie>>
      BY DEF Account!PasswordFind, Account!Handles, Account!dbVars, Account!clientVars,
             Account!historyVars, AccountTypes, CallsAreTyped
<1>2. \/ \E answer \in {Account!Unauthorized, Account!Refused} : Account!Answers(call, answer)
      \/ /\ Account!HasId(identities, Account!Guarded(call))
         /\ Account!Moves(call, [call EXCEPT !.step = "save", !.row = i])
      BY DEF Account!PasswordFind
<1>3. ASSUME Account!HasId(identities, Account!Guarded(call)) PROVE i \in identities /\ SavesWell(i)
  <2>1. i \in identities /\ i.id = Account!Guarded(call)
        BY <1>3 DEF Account!HasId, Account!RowOf
  <2> HIDE DEF i
  <2>2. Made(i.id) /\ \A j \in identities : j.id = i.id => j.email = i.email
        BY <2>1 DEF RegistersInvariant, AccountsAreMade
  <2>3. IsSession(i.id)
        BY <2>1, TokenIsSafe
  <2> QED
      BY <2>1, <2>2, <2>3 DEF SavesWell
<1> HIDE DEF i
<1>4. CASE \E answer \in {Account!Unauthorized, Account!Refused} : Account!Answers(call, answer)
  <2>1. PICK answer \in AccountAnswer :
            Account!Answers(call, answer) /\ answer.status # "ok"
        BY <1>4, AnswersDiffer DEF AccountAnswer
  <2>2. RegistersInvariant' /\ SessionsLast
        BY <1>1, <2>1, OthersAnswered, OtherRegisters
  <2> QED
      BY <1>1, <2>1, <2>2, AnswerIsSafe
<1>5. CASE /\ Account!HasId(identities, Account!Guarded(call))
           /\ Account!Moves(call, [call EXCEPT !.step = "save", !.row = i])
  <2>1. i \in AccountRow
        BY <1>3, <1>5 DEF AccountRow, AccountTypes, Account!TypeOK
  <2>2. PICK n \in AccountCall :
            /\ Keeps(call, n) /\ n.step = "save" /\ n.row = i
            /\ calls' = (calls \ {call}) \cup {n}
        BY <1>1, <1>5, <2>1, Saving
  <2>3. Registers' = Registers
        BY <1>1, <2>2 DEF Registers, Keeps
  <2>4. RegistersInvariant' /\ SessionsLast
        BY <1>1, <2>3, OtherRegisters
  <2>5. CallIsSafe(n)
        BY <1>3, <1>5, <2>2 DEF CallIsSafe, Keeps, SessionsAreSafe
  <2>6. CallIsSafe(n)'
        BY <2>4, <2>5, LastingCall
  <2> QED
      BY <1>1, <2>2, <2>4, <2>6, LastingSessions
<1> QED
    BY <1>2, <1>4, <1>5

LEMMA PasswordSaveIsSafe ==
    ASSUME AccountTypes, RegistersInvariant, SessionsAreSafe, NEW call \in calls,
           Account!PasswordSave(call)
    PROVE  RegistersInvariant' /\ SessionsAreSafe'
<1>1. /\ call.request.kind = "password" /\ call.step = "save" /\ call \in AccountCall
      /\ UNCHANGED <<profiles, met, asked, lost, early, cookie>>
      BY DEF Account!PasswordSave, Account!Handles, Account!clientVars,
             Account!historyVars, AccountTypes, CallsAreTyped
<1>2. PICK old : old = call.row /\ old \in Account!Identity /\ SavesWell(old)
      BY <1>1 DEF AccountTypes, CallsAreTyped, Carries, SessionsAreSafe, CallIsSafe
<1>3. PICK new : /\ new.id = old.id /\ new.email = old.email
                 /\ identities' = {i \in identities : i.id # old.id} \cup {new}
  <2>1. PICK new : new = [old EXCEPT !.password = call.request.new]
        OBVIOUS
  <2>2. new.id = old.id /\ new.email = old.email
        BY <1>2, <2>1 DEF Account!Identity
  <2> QED
      BY <1>2, <2>1, <2>2 DEF Account!PasswordSave
<1>4. Account!Granted(old.id) \in AccountAnswer /\ Account!Answers(call, Account!Granted(old.id))
  <2>1. old.id \in Account!Id
        BY <1>2 DEF Account!Identity
  <2> QED
      BY <1>2, <2>1, AnswersDiffer DEF AccountAnswer, Account!PasswordSave
<1>5. Registers' = Registers
      BY <1>1, <1>4, OthersAnswered
<1>6. \/ old.id \in early
      \/ \E j \in identities : j.id = old.id /\ j.email = old.email
  <2>1. old.id # None
        BY <1>2, ComponentsAssumption DEF Account!Identity, Account!Id
  <2> QED
      BY <1>2, <2>1 DEF SavesWell, IsSession, Safe, HasAccount, Account!HasId
<1>7. SessionsLast
  <2>1. \A id : Made(id) => Made(id)'
        BY <1>1, <1>5 DEF Made, Given
  <2>2. ASSUME NEW id, Safe(id) PROVE Safe(id)'
        BY <1>1, <1>3, <1>5, <2>2 DEF Safe, HasAccount, HasProfile, Account!HasId
  <2>3. \A i \in identities' :
          \/ \E j \in identities : j.id = i.id /\ j.email = i.email
          \/ i.id \in early
        BY <1>3, <1>6
  <2> QED
      BY <1>1, <2>1, <2>2, <2>3 DEF SessionsLast
<1>8. AccountsAreMade'
  <2>1. \A i \in identities' : Made(i.id)'
        BY <1>2, <1>3, <1>7 DEF RegistersInvariant, AccountsAreMade, SavesWell, SessionsLast
  <2>2. \A p \in profiles' : Given(p.id)'
        BY <1>1 DEF RegistersInvariant, AccountsAreMade, Given
  <2> QED
      BY <1>3, <2>1, <2>2 DEF RegistersInvariant, AccountsAreMade
<1>9. RegistersKnow' /\ RegistersAreApart'
      BY <1>1, <1>3, <1>5, <1>6
         DEF RegistersInvariant, RegistersKnow, RegistersAreApart, Given
<1>10. AccountsFollow'
  <2>1. \A id : HasProfile(id)' = HasProfile(id) /\ (HasAccount(id) => HasAccount(id)')
        BY <1>1, <1>3 DEF HasAccount, HasProfile, Account!HasId
  <2>2. \A i \in identities' :
          \/ HasProfile(i.id) \/ i.id \in early
          \/ \E r \in Registers : r.id = i.id /\ Unanswered(r)
        BY <1>3, <1>6 DEF RegistersInvariant, AccountsFollow
  <2> QED
      BY <1>1, <1>5, <2>1, <2>2 DEF RegistersInvariant, AccountsFollow
<1>11. Account!AccountsAreUnique'
  <2>1. ASSUME NEW i \in identities, i.id # old.id, i.email = old.email
        PROVE  {i.id, old.id} \in met \/ {i.id, old.id} \cap early # {}
        BY <1>6, <2>1 DEF RegistersInvariant, Account!AccountsAreUnique
  <2> QED
      BY <1>1, <1>3, <2>1 DEF RegistersInvariant, Account!AccountsAreUnique
<1>12. IsSession(old.id)'
       BY <1>2, <1>7, LastingSession DEF SavesWell
<1> QED
    BY <1>1, <1>4, <1>5, <1>7, <1>8, <1>9, <1>10, <1>11, <1>12, AnswerIsSafe, AnswersDiffer
       DEF RegistersInvariant

LEMMA AskingIsSafe ==
    ASSUME AccountTypes, RegistersInvariant, SessionsAreSafe,
           NEW b \in Browsers, NEW request \in Account!Request, Account!Ask(b, request)
    PROVE  RegistersInvariant' /\ SessionsAreSafe'
<1>1. PICK id : id = <<b, asked[b] + 1>>
      OBVIOUS
<1>2. /\ UNCHANGED <<identities, profiles, early, lost, cookie>>
      /\ asked' = [asked EXCEPT ![b] = @ + 1] /\ asked[b] < MaxCalls[b]
      BY DEF Account!Ask, Account!dbVars, Account!clientVars
<1>3. id \in Account!Id /\ ~Given(id) /\ asked \in [Browsers -> Nat]
  <2>1. asked \in [Browsers -> Nat] /\ MaxCalls[b] \in Nat
        BY ComponentsAssumption DEF AccountTypes, Account!TypeOK
  <2>2. asked[b] + 1 \in 1 .. MaxCalls[b]
        BY <1>2, <2>1
  <2>3. id[1] = b /\ id[2] = asked[b] + 1
        BY <1>1
  <2> QED
      BY <1>1, <2>1, <2>2, <2>3 DEF Account!Id, Given
<1>4. Given(id)' /\ \A other : Given(other) => Given(other)'
  <2>1. id[1] = b /\ id[2] = asked[b] + 1
        BY <1>1
  <2>2. ASSUME NEW other, Given(other) PROVE Given(other)'
    <3>1. other[1] \in Browsers /\ other[2] \in Nat
          BY <2>2, ComponentsAssumption DEF Given, Account!Id
    <3> QED
        BY <1>2, <1>3, <2>2, <3>1 DEF Given
  <2> QED
      BY <1>2, <1>3, <2>1, <2>2 DEF Given
<1>5. PICK call : call = Account!Call(b, request, FALSE)
      OBVIOUS
<1>6. PICK n : n = IF request.kind = "register" THEN [call EXCEPT !.id = id] ELSE call
      OBVIOUS
<1>7. /\ n.request = request /\ n.step = "sent" /\ n.cookies = cookie[b]
      /\ request.kind = "register" => n.id = id
  <2>1. /\ {"request", "step", "cookies", "id"} \subseteq DOMAIN call
        /\ call.request = request /\ call.step = "sent" /\ call.cookies = cookie[b]
        BY <1>5 DEF Account!Call
  <2> QED
      BY <1>6, <2>1
<1>8. calls' = calls \cup {n}
      BY <1>1, <1>5, <1>6 DEF Account!Ask
<1>9. /\ met \subseteq met'
      /\ request.kind = "register" =>
            \A r \in Registers : Unanswered(r) => {id, r.id} \in met'
      BY <1>1 DEF Account!Ask, Registers, Unanswered
<1> DEFINE new == IF request.kind = "register" THEN {n} ELSE {}
<1>10. /\ Registers' = Registers \cup new /\ new \subseteq {n}
       /\ \A r \in new : r.id = id /\ r.step = "sent" /\ request.kind = "register"
       BY <1>7, <1>8 DEF Registers
<1> HIDE DEF new
<1>11. \A r \in Registers : r.id # id
       BY <1>3 DEF RegistersInvariant, RegistersAreApart
<1>12. RegistersAreApart'
  <2>1. \A r \in Registers' : Given(r.id)'
        BY <1>4, <1>10 DEF RegistersInvariant, RegistersAreApart
  <2>2. \A r, s \in Registers' : r.id = s.id => r = s
        BY <1>10, <1>11 DEF RegistersInvariant, RegistersAreApart
  <2>3. ASSUME NEW r \in Registers', NEW s \in Registers', r # s, Unanswered(r), Unanswered(s)
        PROVE  {r.id, s.id} \in met'
    <3>1. CASE r \in Registers /\ s \in Registers
          BY <1>9, <2>3, <3>1 DEF RegistersInvariant, RegistersAreApart
    <3>2. CASE r \in new /\ s \in Registers
          BY <1>9, <1>10, <2>3, <3>2
    <3>3. CASE r \in Registers /\ s \in new
      <4>1. {s.id, r.id} \in met'
            BY <1>9, <1>10, <2>3, <3>3
      <4>2. {s.id, r.id} = {r.id, s.id}
            OBVIOUS
      <4> QED
          BY <4>1, <4>2
    <3> QED
        BY <1>10, <2>3, <3>1, <3>2, <3>3
  <2> QED
      BY <2>1, <2>2, <2>3 DEF RegistersAreApart, Unanswered
<1>13. \A other : Made(other) => Made(other)'
       BY <1>3, <1>4, <1>10 DEF Made
<1>14. AccountsAreMade'
       BY <1>2, <1>4, <1>13 DEF RegistersInvariant, AccountsAreMade
<1>15. RegistersKnow'
  <2>1. \A r \in Registers' : r.step \in {"insert", "save"} => r \in Registers
        BY <1>10
  <2>2. \A r \in Registers' : \A i \in identities :
            r.step = "insert" /\ i.email = toLower[r.request.email] =>
                {i.id, r.id} \in met' \/ i.id \in early
        BY <1>9, <2>1 DEF RegistersInvariant, RegistersKnow
  <2>3. \A r \in Registers' : \A p \in profiles :
            r.step = "save" /\ p.username = r.request.username => {p.id, r.id} \in met'
        BY <1>9, <2>1 DEF RegistersInvariant, RegistersKnow
  <2> QED
      BY <1>2, <2>2, <2>3 DEF RegistersKnow
<1>16. AccountsFollow'
  <2>1. \A other : HasAccount(other)' = HasAccount(other) /\ HasProfile(other)' = HasProfile(other)
        BY <1>2 DEF HasAccount, HasProfile, Account!HasId
  <2>2. ~HasProfile(id)
        BY <1>3 DEF HasProfile, Account!HasId, RegistersInvariant, AccountsAreMade
  <2> QED
      BY <1>2, <1>10, <2>1, <2>2 DEF RegistersInvariant, AccountsFollow, Unanswered
<1>17. Account!AccountsAreUnique'
       BY <1>2, <1>9 DEF RegistersInvariant, Account!AccountsAreUnique
<1>18. SessionsLast
  <2>1. ~HasAccount(id)
        BY <1>3 DEF HasAccount, Account!HasId, RegistersInvariant, AccountsAreMade, Made
  <2>2. ASSUME NEW other, Safe(other) PROVE Safe(other)'
        BY <1>2, <1>10, <2>1, <2>2 DEF Safe, HasAccount, HasProfile, Account!HasId, Unanswered
  <2> QED
      BY <1>2, <1>13, <2>2 DEF SessionsLast
<1>19. CallIsSafe(n)'
  <2>1. TokensAreSafe(n.cookies)
        BY <1>7 DEF SessionsAreSafe
  <2> QED
      BY <1>7, <1>18, <2>1, LastingTokens DEF CallIsSafe
<1>20. SessionsAreSafe'
       BY <1>2, <1>8, <1>18, <1>19, LastingSessions
<1> QED
    BY <1>12, <1>14, <1>15, <1>16, <1>17, <1>20 DEF RegistersInvariant

\* A browser that takes an answer, or stops to wait for one.
LEMMA TakingIsSafe ==
    ASSUME AccountTypes, RegistersInvariant, SessionsAreSafe, NEW call \in calls,
           Account!Intercept(call) \/ Account!TakeRenewal(call) \/ Account!Take(call)
    PROVE  RegistersInvariant' /\ SessionsAreSafe'
<1>1. /\ call \in AccountCall /\ Carries(call) /\ CallIsSafe(call) /\ call.step = "answered"
      /\ call.by \in Browsers /\ cookie[call.by] \in Tokens
      /\ UNCHANGED <<identities, profiles, met, asked, lost, early>>
  <2>1. call \in AccountCall /\ Carries(call) /\ CallIsSafe(call)
        BY DEF AccountTypes, CallsAreTyped, SessionsAreSafe
  <2> QED
      BY <2>1, TokensAre DEF AccountTypes, AccountCall, Account!Intercept, Account!TakeRenewal,
         Account!Take, Account!Handles, Account!dbVars, Account!historyVars
<1>2. ASSUME SessionsLast, NEW kind,
             cookie' = [cookie EXCEPT ![call.by] = Account!Stored(call.by, kind, call.answer)]
      PROVE  \A b \in Browsers : cookie'[b] = cookie[b] \/ TokensAreSafe(cookie[b])'
  <2>1. PICK tokens : tokens = Account!Stored(call.by, kind, call.answer)
        OBVIOUS
  <2>2. cookie' = [cookie EXCEPT ![call.by] = tokens] /\ cookie \in [Browsers -> Tokens]
        BY <1>2, <2>1 DEF AccountTypes, Account!TypeOK, Tokens
  <2>3. TokensAreSafe(tokens)'
    <3>1. TokensAreSafe(cookie[call.by])
          BY <1>1 DEF SessionsAreSafe
    <3>2. call.answer.status = "ok" => IsSession(call.answer.id)
          BY <1>1 DEF CallIsSafe
    <3>3. IsSession(None)
          BY DEF IsSession
    <3>4. CASE call.answer.status # "ok"
          BY <1>2, <2>1, <3>1, <3>4, LastingTokens DEF Account!Stored
    <3>5. CASE call.answer.status = "ok"
      <4>1. PICK granted : granted = call.answer.id /\ IsSession(granted)
            BY <3>2, <3>5
      <4>2. PICK held : held = cookie[call.by] /\ held \in Tokens /\ TokensAreSafe(held)
            BY <1>1, <3>1
      <4>3. CASE kind \in {"register", "login"}
        <5>1. tokens.access = granted /\ tokens.refresh = granted
              BY <2>1, <3>5, <4>1, <4>3 DEF Account!Stored
        <5> QED
            BY <1>2, <4>1, <5>1, LastingTokens DEF TokensAreSafe
      <4>4. CASE kind = "renew"
        <5>1. tokens = [held EXCEPT !.access = granted]
              BY <2>1, <3>5, <4>1, <4>2, <4>4 DEF Account!Stored
        <5>2. tokens.access = granted /\ tokens.refresh = held.refresh
              BY <4>2, <5>1 DEF Tokens
        <5> QED
            BY <1>2, <4>1, <4>2, <5>2, LastingTokens DEF TokensAreSafe
      <4>5. CASE kind = "logout"
        <5>1. tokens.access = None /\ tokens.refresh = None
              BY <2>1, <3>5, <4>5 DEF Account!Stored
        <5> QED
            BY <1>2, <3>3, <5>1, LastingTokens DEF TokensAreSafe
      <4>6. CASE kind \notin {"register", "login", "renew", "logout"}
        <5>1. tokens = held
              BY <2>1, <3>5, <4>2, <4>6 DEF Account!Stored
        <5> QED
            BY <1>2, <4>2, <5>1, LastingTokens
      <4> QED
          BY <4>3, <4>4, <4>5, <4>6
    <3> QED
        BY <3>4, <3>5
  <2> SUFFICES ASSUME NEW b \in Browsers, b = call.by PROVE TokensAreSafe(cookie[b])'
      BY <2>2
  <2>4. cookie'[b] = tokens
        BY <1>1, <2>2
  <2> QED
      BY <2>3, <2>4 DEF TokensAreSafe
<1>3. CASE Account!Intercept(call)
  <2>1. call.request \in Account!Request /\ call.request.kind # "register"
        BY <1>1, <1>3, KindsOfRequest
           DEF Account!Intercept, Account!Intercepted, Carries, AccountCall
  <2>2. PICK n : n = Account!Renewal(call.by, call.request)
        OBVIOUS
  <2>3. n.request.kind = "renew" /\ n.cookies = cookie[call.by] /\ n.step = "sent"
        BY <1>1, <2>1, <2>2, RenewalIsTyped
  <2>4. calls' = (calls \ {call}) \cup {n} /\ UNCHANGED cookie
        BY <1>3, <2>2 DEF Account!Intercept, Account!Moves, Account!clientVars
  <2>5. RegistersInvariant' /\ SessionsLast
    <3>1. Registers' = Registers
          BY <2>1, <2>3, <2>4 DEF Registers
    <3> QED
        BY <1>1, <3>1, OtherRegisters
  <2>6. CallIsSafe(n)'
    <3>1. TokensAreSafe(n.cookies)
          BY <1>1, <2>3 DEF SessionsAreSafe
    <3> QED
        BY <2>3, <2>5, <3>1, LastingTokens DEF CallIsSafe
  <2> QED
      BY <2>4, <2>5, <2>6, LastingSessions
<1>4. CASE Account!TakeRenewal(call)
  <2>1. /\ call.request.kind = "renew"
        /\ call.row # None => call.row \in Account!Request /\ call.row.kind # "register"
        BY <1>1, <1>4 DEF Account!TakeRenewal, Account!Handles, Carries
  <2>2. cookie' = [cookie EXCEPT ![call.by] = Account!Stored(call.by, "renew", call.answer)]
        BY <1>4 DEF Account!TakeRenewal
  <2>3. PICK n : n = [Account!Call(call.by, call.row, TRUE) EXCEPT !.cookies = cookie'[call.by]]
        OBVIOUS
  <2>4. n.request = call.row /\ n.cookies = cookie'[call.by] /\ n.step = "sent"
        BY <2>3 DEF Account!Call
  <2>5. calls' = (calls \ {call}) \cup
            (IF call.answer.status = "ok" /\ call.row # None THEN {n} ELSE {})
        BY <1>4, <2>3 DEF Account!TakeRenewal
  <2>6. RegistersInvariant' /\ SessionsLast
    <3>1. Registers' = Registers
          BY <2>1, <2>4, <2>5 DEF Registers
    <3> QED
        BY <1>1, <3>1, OtherRegisters
  <2>7. \A b \in Browsers : cookie'[b] = cookie[b] \/ TokensAreSafe(cookie[b])'
        BY <1>2, <2>2, <2>6
  <2>8. CallIsSafe(n)'
    <3>1. PICK tokens : tokens = cookie'[call.by]
          OBVIOUS
    <3>2. TokensAreSafe(tokens)'
      <4>1. CASE tokens = cookie[call.by]
        <5>1. TokensAreSafe(tokens)
              BY <1>1, <4>1 DEF SessionsAreSafe
        <5> QED
            BY <2>6, <5>1, LastingTokens
      <4>2. CASE TokensAreSafe(cookie[call.by])'
            BY <3>1, <4>2 DEF TokensAreSafe
      <4> QED
          BY <1>1, <2>7, <3>1, <4>1, <4>2
    <3> QED
        BY <2>4, <3>1, <3>2 DEF CallIsSafe
  <2> QED
      BY <2>5, <2>6, <2>7, <2>8, LastingSessions
<1>5. CASE Account!Take(call)
  <2>1. calls' = calls \ {call}
        /\ cookie' = [cookie EXCEPT ![call.by] =
                          Account!Stored(call.by, call.request.kind, call.answer)]
        BY <1>5 DEF Account!Take
  <2>2. RegistersRest
    <3>1. Registers' \subseteq Registers /\ \A r \in Registers : Unanswered(r) => r \in Registers'
          BY <1>1, <2>1 DEF Registers, Unanswered
    <3> QED
        BY <1>1, <3>1 DEF RegistersRest, RegistersInvariant, RegistersAreApart
  <2>3. RegistersInvariant' /\ SessionsLast
        BY <2>2, RestingRegisters, RestingLasts
  <2> QED
      BY <1>2, <2>1, <2>3, LastingSessions
<1> QED
    BY <1>3, <1>4, <1>5

LEMMA LosingIsSafe ==
    ASSUME AccountTypes, RegistersInvariant, SessionsAreSafe, NEW call \in calls, Account!Lose(call)
    PROVE  RegistersInvariant' /\ SessionsAreSafe'
<1>1. /\ call \in AccountCall /\ CallIsSafe(call)
      /\ UNCHANGED <<identities, profiles, met, asked, lost, early, cookie>>
      BY DEF AccountTypes, CallsAreTyped, SessionsAreSafe, Account!Lose, Account!dbVars,
             Account!historyVars
<1>2. PICK n : n = [call EXCEPT !.heard = FALSE]
      OBVIOUS
<1>3. Keeps(call, n) /\ n.step = call.step /\ n.row = call.row /\ n.answer = call.answer
      BY <1>1, <1>2, CallIsUnheard
<1>4. calls' = (calls \ {call}) \cup (IF call.step = "answered" THEN {} ELSE {n})
      BY <1>2 DEF Account!Lose
<1>5. RegistersRest
  <2>1. \A m \in Registers' : m \in Registers \/ (m = n /\ call \in Registers)
        BY <1>3, <1>4 DEF Registers, Keeps
  <2>2. \A r \in Registers : r # call => r \in Registers'
        BY <1>4 DEF Registers
  <2>3. call \in Registers /\ Unanswered(call) => n \in Registers' /\ call \notin Registers' \ {n}
        BY <1>3, <1>4 DEF Registers, Keeps, Unanswered
  <2>4. \A m \in Registers' : m # n => m # call
        BY <1>4 DEF Registers
  <2>5. \A m, p \in Registers' : m.id = p.id => m = p
        BY <1>3, <2>1, <2>4 DEF RegistersInvariant, RegistersAreApart, Keeps
  <2>6. \A m \in Registers' : \E r \in Registers :
            m.id = r.id /\ m.step = r.step /\ m.request = r.request
        BY <1>3, <2>1 DEF Keeps
  <2>7. \A r \in Registers : Unanswered(r) => \E m \in Registers' : m.id = r.id /\ Unanswered(m)
        BY <1>3, <2>2, <2>3 DEF Keeps, Unanswered
  <2> QED
      BY <1>1, <2>5, <2>6, <2>7 DEF RegistersRest
<1>6. RegistersInvariant' /\ SessionsLast
      BY <1>5, RestingRegisters, RestingLasts
<1>7. CallIsSafe(n)'
  <2>1. CallIsSafe(n)
        BY <1>1, <1>3 DEF CallIsSafe, Keeps
  <2> QED
      BY <1>6, <2>1, LastingCall
<1> QED
    BY <1>1, <1>4, <1>6, <1>7, LastingSessions

LEMMA LoadingIsSafe ==
    ASSUME AccountTypes, RegistersInvariant, SessionsAreSafe, NEW b \in Browsers, Account!Load(b)
    PROVE  RegistersInvariant' /\ SessionsAreSafe'
<1> DEFINE After(call) == IF call.by = b THEN [call EXCEPT !.heard = FALSE] ELSE call
           Kept == {call \in calls : call.by = b => call.step # "answered"}
<1>1. UNCHANGED <<identities, profiles, met, asked, lost, early, cookie>>
      BY DEF Account!Load, Account!dbVars, Account!historyVars
<1>2. ASSUME NEW call \in calls
      PROVE  /\ Keeps(call, After(call)) /\ After(call).step = call.step
             /\ After(call).row = call.row /\ After(call).answer = call.answer
  <2>1. call \in AccountCall
        BY DEF AccountTypes, CallsAreTyped
  <2>2. PICK n : n = [call EXCEPT !.heard = FALSE]
        OBVIOUS
  <2>3. Keeps(call, n) /\ n.step = call.step /\ n.row = call.row /\ n.answer = call.answer
        BY <2>1, <2>2, CallIsUnheard
  <2> QED
      BY <2>2, <2>3 DEF Keeps
<1>3. PICK n : n = Account!Renewal(b, None)
      OBVIOUS
<1>4. n.request.kind = "renew" /\ n.cookies = cookie[b] /\ n.step = "sent"
  <2>1. None \in Account!Request \cup {None} /\ cookie[b] \in Tokens
        BY TokensAre DEF AccountTypes
  <2> QED
      BY <1>3, <2>1, RenewalIsTyped
<1>5. calls' = {After(call) : call \in Kept} \cup {n}
      BY <1>3 DEF Account!Load
<1> HIDE DEF After
<1>6. RegistersRest
  <2>1. ASSUME NEW m \in Registers'
        PROVE  \E r \in Registers : m = After(r)
    <3>1. PICK r \in calls : m = After(r)
          BY <1>4, <1>5, <2>1 DEF Registers
    <3> QED
        BY <1>2, <3>1 DEF Registers, Keeps
  <2>2. ASSUME NEW r \in Registers, Unanswered(r)
        PROVE  After(r) \in Registers' /\ After(r).id = r.id /\ Unanswered(After(r))
    <3>1. r \in Kept /\ r \in calls
          BY <2>2 DEF Registers, Unanswered
    <3> QED
        BY <1>2, <1>5, <2>2, <3>1 DEF Registers, Keeps, Unanswered
  <2>3. \A m \in Registers' : \E r \in Registers :
            m.id = r.id /\ m.step = r.step /\ m.request = r.request
        BY <1>2, <2>1 DEF Registers, Keeps
  <2>4. \A m, p \in Registers' : m.id = p.id => m = p
        BY <1>2, <2>1 DEF Registers, Keeps, RegistersInvariant, RegistersAreApart
  <2> QED
      BY <1>1, <2>2, <2>3, <2>4 DEF RegistersRest
<1>7. RegistersInvariant' /\ SessionsLast
      BY <1>6, RestingRegisters, RestingLasts
<1>8. CallIsSafe(n)'
  <2>1. TokensAreSafe(n.cookies)
        BY <1>4 DEF SessionsAreSafe
  <2> QED
      BY <1>4, <1>7, <2>1, LastingTokens DEF CallIsSafe
<1>9. ASSUME NEW call \in calls PROVE CallIsSafe(After(call))'
  <2>1. PICK m : m = After(call)
        OBVIOUS
  <2>2. CallIsSafe(m)
        BY <1>2, <2>1 DEF CallIsSafe, Keeps, SessionsAreSafe
  <2>3. CallIsSafe(m)'
        BY <1>7, <2>2, LastingCall
  <2> QED
      BY <2>1, <2>3
<1>10. \A call \in calls' \ calls : CallIsSafe(call)'
       BY <1>5, <1>8, <1>9
<1> QED
    BY <1>1, <1>7, <1>10, LastingSessions

LEMMA BrowsingIsSafe ==
    ASSUME AccountTypes, RegistersInvariant, SessionsAreSafe, NEW b \in Browsers,
           Account!Navigate(b) \/ Account!Expire(b)
    PROVE  RegistersInvariant' /\ SessionsAreSafe'
<1>1. UNCHANGED <<identities, profiles, met, asked, lost, early, calls>>
      BY DEF Account!Navigate, Account!Expire, Account!dbVars, Account!historyVars
<1>2. RegistersInvariant' /\ SessionsLast
  <2>1. Registers' = Registers
        BY <1>1 DEF Registers
  <2> QED
      BY <1>1, <2>1, OtherRegisters
<1>3. CASE Account!Navigate(b)
      BY <1>1, <1>2, <1>3, LastingSessions DEF Account!Navigate
<1>4. CASE Account!Expire(b)
  <2>1. cookie[b] \in Tokens /\ cookie \in [Browsers -> Tokens]
        BY TokensAre DEF AccountTypes, Account!TypeOK, Tokens
  <2>2. PICK tokens : tokens = [cookie[b] EXCEPT !.access = None]
        OBVIOUS
  <2>3. tokens.access = None /\ tokens.refresh = cookie[b].refresh
        BY <2>1, <2>2 DEF Tokens
  <2>4. TokensAreSafe(tokens)
        BY <2>3 DEF SessionsAreSafe, TokensAreSafe, IsSession
  <2>5. cookie' = [cookie EXCEPT ![b] = tokens]
        BY <1>4, <2>2 DEF Account!Expire
  <2>6. TokensAreSafe(tokens)'
        BY <1>2, <2>4, LastingTokens
  <2>7. TokensAreSafe(cookie[b])'
        BY <2>1, <2>5, <2>6 DEF TokensAreSafe
  <2> QED
      BY <1>1, <1>2, <2>1, <2>5, <2>7, LastingSessions
<1> QED
    BY <1>3, <1>4

LEMMA AccountStarts == Account!Init => AccountInvariant
<1> SUFFICES ASSUME Account!Init PROVE AccountInvariant
    OBVIOUS
<1>1. AccountTypes
      BY DEF Account!Init, AccountTypes, Account!TypeOK, CallsAreTyped
<1>2. RegistersInvariant
      BY DEF Account!Init, RegistersInvariant, RegistersAreApart, AccountsAreMade, RegistersKnow,
             AccountsFollow, Account!AccountsAreUnique, Registers
<1>3. SessionsAreSafe
      BY DEF Account!Init, SessionsAreSafe, TokensAreSafe, IsSession
<1> QED
    BY <1>1, <1>2, <1>3 DEF AccountInvariant

LEMMA AccountSteps == AccountInvariant /\ [Account!Next]_accountVars => AccountInvariant'
<1> SUFFICES ASSUME AccountInvariant, [Account!Next]_accountVars
             PROVE  AccountInvariant'
    OBVIOUS
<1>1. AccountTypes /\ RegistersInvariant /\ SessionsAreSafe /\ AccountTypes'
      BY AccountTypesStay DEF AccountInvariant
<1>2. ASSUME NEW call \in calls, Account!Serve(call)
      PROVE  RegistersInvariant' /\ SessionsAreSafe'
      BY <1>1, <1>2, RegisterFinds, RegisterInserts, ProfileFinds, ProfileSaves, RegisterRemoves,
         LoginIsSafe, RenewalIsSafe, PasswordFindIsSafe, PasswordSaveIsSafe DEF Account!Serve
<1>3. ASSUME NEW call \in calls, Account!Receive(call)
      PROVE  RegistersInvariant' /\ SessionsAreSafe'
      BY <1>1, <1>3, TakingIsSafe, LosingIsSafe DEF Account!Receive
<1>4. ASSUME NEW b \in Browsers, Account!Navigate(b) \/ Account!Load(b) \/ Account!Expire(b)
      PROVE  RegistersInvariant' /\ SessionsAreSafe'
      BY <1>1, <1>4, LoadingIsSafe, BrowsingIsSafe
<1>5. ASSUME NEW b \in Browsers, NEW request \in Operations[b] \cap Account!Request,
             Account!Ask(b, request)
      PROVE  RegistersInvariant' /\ SessionsAreSafe'
      BY <1>1, <1>5, AskingIsSafe
<1>6. CASE UNCHANGED accountVars
  <2>1. UNCHANGED <<identities, profiles, met, asked, lost, early, calls, cookie>>
        BY <1>6 DEF accountVars
  <2>2. Registers' = Registers
        BY <2>1 DEF Registers
  <2>3. RegistersInvariant' /\ SessionsLast
        BY <1>1, <2>1, <2>2, OtherRegisters
  <2> QED
      BY <1>1, <2>1, <2>3, LastingSessions DEF AccountInvariant
<1> QED
    BY <1>1, <1>2, <1>3, <1>4, <1>5, <1>6 DEF Account!Next, AccountInvariant

LEMMA AccountsStayInOrder == Spec => []AccountInvariant
<1>1. Init => AccountInvariant
      BY AccountStarts DEF Init
<1>2. AccountInvariant /\ [Next]_vars => AccountInvariant'
      BY OneMoves, AccountSteps
<1> QED
    BY <1>1, <1>2, PTL DEF Spec

\* Whatever fails while an account and its profile are written, one after the other, and
\* whoever logs in, renews a session or changes a password meanwhile, no session and no
\* account is left without a profile but of those that someone logged in to early
\* (auth.service.ts:76-113).
THEOREM AccountsStayWhole == Spec => []AccountsAreWhole
<1>1. ASSUME AccountInvariant PROVE AccountsAreWhole
  <2>1. RegistersInvariant /\ SessionsAreSafe
        BY <1>1 DEF AccountInvariant
  <2> SUFFICES ASSUME Account!Registering = {} PROVE
          /\ \A i \in identities : HasProfile(i.id) \/ i.id \in early
          /\ \A b \in Browsers : IsSession(cookie[b].refresh)
          /\ \A p \in profiles : HasAccount(p.id) \/ p.id \in lost
      BY DEF AccountsAreWhole, Account!AccountsAreWhole, HasAccount, HasProfile, IsSession, Safe
  <2>2. \A r \in Registers : Unanswered(r) => r.step = "sent"
        BY DEF Account!Registering, Registers, Unanswered
  <2>3. \A i \in identities : HasProfile(i.id) \/ i.id \in early
        BY <2>1, <2>2 DEF RegistersInvariant, AccountsFollow, AccountsAreMade, Made
  <2> QED
      BY <2>1, <2>3 DEF RegistersInvariant, AccountsFollow, SessionsAreSafe, TokensAreSafe
<1> QED
    BY <1>1, AccountsStayInOrder, PTL

-----------------------------------------------------------------------------
(* Direct channels.  A request whose channel is not yet saved with its recipients knows, by  *)
(* the pairs that were handled at once, of every channel that its pair has by then: it found *)
(* none, and what was saved since was asked for by a request that was still handled.         *)

Order == [by : Users, with : Users, kind : {"button", "menu"}, id : Users \X Nat,
          step : {"sent", "channel", "recipients", "answered"}, ok : BOOLEAN, heard : BOOLEAN]

\* Requests have numbers of their own, and two that are handled are a pair.
OrdersAreApart ==
    /\ orders \subseteq Order /\ ordered \in [Users -> Nat]
    /\ \A r \in orders : r.id[1] = r.by /\ r.id[2] <= ordered[r.by] /\ r.by # r.with
    /\ \A r, q \in orders : r.id = q.id => r = q
    /\ \A r, q \in orders :
          r # q /\ r.step # "answered" /\ q.step # "answered" => {r.id, q.id} \in directTogether

\* Only a request that was answered has saved recipients.
RowsAreOrdered ==
    /\ recipients \subseteq (Users \X Nat) \X Users
    /\ \A c \in Users \X Nat : \A w \in Users :
          <<c, w>> \in recipients =>
              c[2] <= ordered[c[1]] /\ \A r \in orders : r.id = c => r.step = "answered"

WritersKnow ==
    \A r \in orders : r.step \in {"channel", "recipients"} =>
        \A c \in Direct!Between(r.by, r.with) : {c, r.id} \in directTogether

DirectInvariant == OrdersAreApart /\ RowsAreOrdered /\ WritersKnow /\ Direct!DMChannelsAreUnique

LEMMA DirectStarts == Direct!Init => DirectInvariant
BY DEF Direct!Init, DirectInvariant, OrdersAreApart, RowsAreOrdered, WritersKnow,
       Direct!DMChannelsAreUnique, Direct!Between

\* A request is taken a step further.
Proceeds(r, n) ==
    /\ n \in Order /\ n.id = r.id /\ n.by = r.by /\ n.with = r.with
    /\ r.step = "answered" => n.step = "answered"
    /\ orders' = (orders \ {r}) \cup {n}
    /\ UNCHANGED <<ordered, directTogether>>

LEMMA ProceedingIsApart ==
    ASSUME OrdersAreApart, NEW r \in orders, NEW n, Proceeds(r, n)
    PROVE  OrdersAreApart'
<1> USE DEF OrdersAreApart, Proceeds
<1>1. orders' \subseteq Order /\ ordered' \in [Users -> Nat]
      OBVIOUS
<1>2. \A q \in orders' : \E p \in orders :
          /\ q.id = p.id /\ q.by = p.by /\ q.with = p.with
          /\ p.step = "answered" => q.step = "answered"
          /\ p = IF q = n THEN r ELSE q
      OBVIOUS
<1>3. \A q \in orders' : q.id[1] = q.by /\ q.id[2] <= ordered'[q.by] /\ q.by # q.with
      BY <1>2
<1>4. \A p, q \in orders' : p.id = q.id => p = q
      BY <1>2
<1>5. ASSUME NEW p \in orders', NEW q \in orders', p # q,
             p.step # "answered", q.step # "answered"
      PROVE  {p.id, q.id} \in directTogether'
  <2>1. p.id # q.id
        BY <1>4, <1>5
  <2> QED
      BY <1>2, <1>5, <2>1
<1> QED
    BY <1>1, <1>3, <1>4, <1>5

LEMMA ProceedingIsOrdered ==
    ASSUME OrdersAreApart, RowsAreOrdered, NEW r \in orders, NEW n, Proceeds(r, n),
           UNCHANGED recipients
    PROVE  RowsAreOrdered'
BY DEF RowsAreOrdered, Proceeds, OrdersAreApart

\* The rows stay, and the request is no writer that was none before: nothing changes for those
\* who write.
LEMMA ProceedingIsKnown ==
    ASSUME OrdersAreApart, WritersKnow, NEW r \in orders, NEW n, Proceeds(r, n),
           n.step \in {"channel", "recipients"} =>
               r.step \in {"channel", "recipients"} \/ Direct!Between(r.by, r.with) = {},
           UNCHANGED <<channels, recipients>>
    PROVE  WritersKnow'
<1> USE DEF OrdersAreApart, WritersKnow, Proceeds
<1>1. \A u, v : Direct!Between(u, v)' = Direct!Between(u, v)
      BY DEF Direct!Between
<1>2. ASSUME NEW q \in orders', q.step \in {"channel", "recipients"},
             NEW c \in Direct!Between(q.by, q.with)
      PROVE  {c, q.id} \in directTogether'
  <2>1. CASE q = n
        BY <1>2, <2>1
  <2>2. CASE q # n
        BY <1>2, <2>2
  <2> QED
      BY <2>1, <2>2
<1> QED
    BY <1>1, <1>2

LEMMA DirectSteps == DirectInvariant /\ [Direct!Next]_directVars => DirectInvariant'
<1> SUFFICES ASSUME DirectInvariant, [Direct!Next]_directVars PROVE DirectInvariant'
    OBVIOUS
<1> USE DEF DirectInvariant
<1>1. ASSUME NEW r \in orders, Direct!Find(r) PROVE DirectInvariant'
  <2>1. PICK n \in {[r EXCEPT !.step = "answered", !.ok = FALSE], [r EXCEPT !.step = "channel"]} :
             /\ orders' = (orders \ {r}) \cup {n}
             /\ \/ n = [r EXCEPT !.step = "answered", !.ok = FALSE]
                \/ Direct!Between(r.by, r.with) = {}
        BY <1>1 DEF Direct!Find, Direct!Answers, Direct!Moves
  <2>2. r \in Order /\ r.step = "sent"
        BY <1>1 DEF OrdersAreApart, Direct!Find
  <2>3. Proceeds(r, n) /\ n.step \in {"answered", "channel"}
        BY <1>1, <2>1, <2>2 DEF Proceeds, Order, Direct!Find, Direct!boundVars
  <2>4. UNCHANGED <<channels, recipients, directTogether>>
        BY <1>1 DEF Direct!Find, Direct!dbVars
  <2>5. n.step = "channel" => Direct!Between(r.by, r.with) = {}
        BY <2>1, <2>2 DEF Order
  <2> QED
      BY <2>3, <2>4, <2>5, ProceedingIsApart, ProceedingIsOrdered, ProceedingIsKnown
         DEF Direct!DMChannelsAreUnique, Direct!Between
<1>2. ASSUME NEW r \in orders, Direct!SaveChannel(r) PROVE DirectInvariant'
  <2> DEFINE n == [r EXCEPT !.step = "recipients"]
  <2>1. r \in Order /\ r.step = "channel"
        BY <1>2 DEF OrdersAreApart, Direct!SaveChannel
  <2>2. Proceeds(r, n) /\ n.step = "recipients"
        BY <1>2, <2>1 DEF Proceeds, Order, Direct!SaveChannel, Direct!Moves, Direct!boundVars
  <2>3. UNCHANGED <<recipients, directTogether>> /\ channels' = channels \cup {r.id}
        BY <1>2 DEF Direct!SaveChannel
  <2>4. \A w \in Users : <<r.id, w>> \notin recipients
        BY <2>1 DEF RowsAreOrdered, Order
  <2>5. \A u, v \in Users : Direct!Between(u, v)' = Direct!Between(u, v)
        BY <2>3, <2>4 DEF Direct!Between
  <2>6. WritersKnow'
    <3>1. \A q \in orders' : q.step \in {"channel", "recipients"} =>
              \E p \in orders : p.step \in {"channel", "recipients"}
                                /\ p.id = q.id /\ p.by = q.by /\ p.with = q.with
          BY <2>1, <2>2 DEF Proceeds
    <3>2. \A q \in orders : q.by \in Users /\ q.with \in Users
          BY DEF OrdersAreApart, Order
    <3> QED
        BY <2>3, <2>5, <3>1, <3>2 DEF WritersKnow
  <2>7. Direct!DMChannelsAreUnique'
        BY <2>3, <2>5 DEF Direct!DMChannelsAreUnique
  <2> QED
      BY <2>2, <2>3, <2>6, <2>7, ProceedingIsApart, ProceedingIsOrdered
<1>3. ASSUME NEW r \in orders, Direct!SaveRecipients(r) PROVE DirectInvariant'
  <2>1. r \in Order /\ r.step = "recipients" /\ r.by # r.with
        BY <1>3 DEF OrdersAreApart, Direct!SaveRecipients
  <2>2. PICK n \in {[r EXCEPT !.step = "answered", !.ok = TRUE],
                    [r EXCEPT !.step = "answered", !.ok = FALSE]} :
             /\ orders' = (orders \ {r}) \cup {n}
             /\ \/ recipients' = recipients \cup {<<r.id, r.by>>, <<r.id, r.with>>}
                \/ UNCHANGED recipients
        BY <1>3 DEF Direct!SaveRecipients, Direct!Answers
  <2>3. Proceeds(r, n) /\ n.step = "answered"
        BY <1>3, <2>1, <2>2 DEF Proceeds, Order, Direct!SaveRecipients, Direct!boundVars
  <2>4. UNCHANGED <<channels, directTogether>>
        BY <1>3 DEF Direct!SaveRecipients
  <2>5. OrdersAreApart'
        BY <2>3, ProceedingIsApart
  <2>6. CASE UNCHANGED recipients
        BY <2>3, <2>4, <2>5, <2>6, ProceedingIsOrdered, ProceedingIsKnown
           DEF Direct!DMChannelsAreUnique, Direct!Between
  <2>7. CASE recipients' = recipients \cup {<<r.id, r.by>>, <<r.id, r.with>>}
    <3>1. \A w \in Users : <<r.id, w>> \notin recipients
          BY <2>1 DEF RowsAreOrdered, Order
    <3>2. \A u, v \in Users :
              /\ Direct!Between(u, v)' \subseteq Direct!Between(u, v) \cup {r.id}
              /\ r.id \in Direct!Between(u, v)' /\ u # v => {u, v} = {r.by, r.with}
          BY <2>1, <2>4, <2>7, <3>1 DEF Direct!Between
    <3>3. RowsAreOrdered'
      <4>1. recipients' \subseteq (Users \X Nat) \X Users
            BY <2>1, <2>7 DEF RowsAreOrdered, Order
      <4>2. \A q \in orders' : q.id = r.id => q = n
            BY <2>3 DEF Proceeds, OrdersAreApart
      <4>3. r.id[2] <= ordered[r.id[1]]
            BY DEF OrdersAreApart
      <4> QED
          BY <2>3, <2>7, <4>1, <4>2, <4>3 DEF RowsAreOrdered, Proceeds
    <3>4. WritersKnow'
      <4> SUFFICES ASSUME NEW q \in orders', q.step \in {"channel", "recipients"},
                          NEW c \in Direct!Between(q.by, q.with)'
                   PROVE  {c, q.id} \in directTogether
          BY <2>4 DEF WritersKnow
      <4>1. q \in orders /\ q # r
            BY <2>1, <2>3 DEF Proceeds, OrdersAreApart
      <4>2. CASE c = r.id
            BY <2>1, <4>1, <4>2 DEF OrdersAreApart
      <4>3. CASE c \in Direct!Between(q.by, q.with)
            BY <4>1, <4>3 DEF WritersKnow
      <4>4. q.by \in Users /\ q.with \in Users
            BY <4>1 DEF OrdersAreApart, Order
      <4> QED
          BY <3>2, <4>2, <4>3, <4>4
    <3>5. Direct!DMChannelsAreUnique'
      <4> SUFFICES ASSUME NEW u \in Users, NEW v \in Users \ {u},
                          NEW c \in Direct!Between(u, v)', NEW d \in Direct!Between(u, v)', c # d
                   PROVE  {c, d} \in directTogether
          BY <2>4 DEF Direct!DMChannelsAreUnique
      <4>1. CASE c \in Direct!Between(u, v) /\ d \in Direct!Between(u, v)
            BY <4>1 DEF Direct!DMChannelsAreUnique
      <4>2. Direct!Between(u, v) = Direct!Between(v, u)
            BY DEF Direct!Between
      <4>3. ASSUME NEW e \in Direct!Between(u, v), {u, v} = {r.by, r.with}
            PROVE  {e, r.id} \in directTogether
            BY <2>1, <4>2, <4>3 DEF WritersKnow
      <4> QED
          BY <3>2, <4>1, <4>3
    <3> QED
        BY <2>5, <3>3, <3>4, <3>5
  <2> QED
      BY <2>2, <2>6, <2>7
<1>4. ASSUME NEW u \in Users, NEW v \in Users \ {u}, NEW kind \in {"button", "menu"},
             Direct!Ask(u, v, kind), UNCHANGED <<channels, recipients>>
      PROVE  DirectInvariant'
  <2> DEFINE id == <<u, ordered[u] + 1>>
             new == [by |-> u, with |-> v, kind |-> kind, id |-> id, step |-> "sent", ok |-> FALSE,
                     heard |-> TRUE]
  <2>1. /\ ordered' = [ordered EXCEPT ![u] = @ + 1]
        /\ orders' = orders \cup {new}
        /\ directTogether' = directTogether \cup {{id, r.id} : r \in {q \in orders : q.step # "answered"}}
        BY <1>4 DEF Direct!Ask
  <2>2. ordered \in [Users -> Nat] /\ ordered[u] \in Nat /\ id \in Users \X Nat /\ new \in Order
        BY DEF OrdersAreApart, Order
  <2>3. \A c \in Users \X Nat : c[2] <= ordered[c[1]] => c # id /\ c[2] <= ordered'[c[1]]
        BY <2>1, <2>2
  <2>4. \A r \in orders : r.id \in Users \X Nat /\ r.id # id /\ r.id[2] <= ordered'[r.id[1]]
        BY <2>3 DEF OrdersAreApart, Order
  <2>5. OrdersAreApart'
    <3>1. orders' \subseteq Order /\ ordered' \in [Users -> Nat]
          BY <2>1, <2>2 DEF OrdersAreApart
    <3>2. ASSUME NEW r \in orders'
          PROVE  r.id[1] = r.by /\ r.id[2] <= ordered'[r.by] /\ r.by # r.with
      <4>1. CASE r \in orders
            BY <2>4, <4>1 DEF OrdersAreApart
      <4>2. CASE r = new
        <5>1. ordered'[u] = ordered[u] + 1
              BY <2>1, <2>2
        <5> QED
            BY <2>2, <4>2, <5>1
      <4> QED
          BY <2>1, <4>1, <4>2
    <3>3. \A r, q \in orders' : r.id = q.id => r = q
      <4>1. new.id = id
            OBVIOUS
      <4> QED
          BY <2>1, <2>4, <4>1 DEF OrdersAreApart
    <3>4. ASSUME NEW r \in orders', NEW q \in orders', r # q, r.step # "answered", q.step # "answered"
          PROVE  {r.id, q.id} \in directTogether'
      <4>1. CASE r \in orders /\ q \in orders
            BY <2>1, <3>4, <4>1 DEF OrdersAreApart
      <4>2. CASE r = new
            BY <2>1, <3>4, <4>2
      <4>3. CASE q = new
        <5>1. {id, r.id} = {r.id, id}
              OBVIOUS
        <5> QED
            BY <2>1, <3>4, <4>3, <5>1
      <4> QED
          BY <2>1, <4>1, <4>2, <4>3
    <3> QED
        BY <3>1, <3>2, <3>3, <3>4 DEF OrdersAreApart
  <2>6. RowsAreOrdered'
        BY <1>4, <2>1, <2>3 DEF RowsAreOrdered
  <2>7. \A x, y \in Users : Direct!Between(x, y)' = Direct!Between(x, y)
        BY <1>4 DEF Direct!Between
  <2>8. Direct!DMChannelsAreUnique'
        BY <2>1, <2>7 DEF Direct!DMChannelsAreUnique
  <2>9. WritersKnow'
    <3>1. \A r \in orders' : r.step \in {"channel", "recipients"} => r \in orders
          BY <2>1
    <3>2. \A r \in orders : r.by \in Users /\ r.with \in Users
          BY DEF OrdersAreApart, Order
    <3> QED
        BY <2>1, <2>7, <3>1, <3>2 DEF WritersKnow
  <2> QED
      BY <2>5, <2>6, <2>8, <2>9
<1>5. ASSUME NEW u \in Users, NEW v \in Users \ {u},
             Direct!MessageButton(u, v) \/ Direct!MessageItem(u, v)
      PROVE  DirectInvariant'
      BY <1>4, <1>5 DEF Direct!MessageButton, Direct!MessageItem, Direct!dbVars
<1>6. ASSUME NEW u \in Users, Direct!OpenMenu(u) PROVE DirectInvariant'
      BY <1>6 DEF Direct!OpenMenu, Direct!dbVars, Direct!boundVars, OrdersAreApart, RowsAreOrdered,
                  WritersKnow, Direct!DMChannelsAreUnique, Direct!Between
<1>7. ASSUME NEW r \in orders, Direct!TakeAnswer(r) PROVE DirectInvariant'
  <2>1. orders' \subseteq orders /\ UNCHANGED <<channels, recipients, ordered, directTogether>>
        BY <1>7 DEF Direct!TakeAnswer, Direct!dbVars, Direct!boundVars
  <2> QED
      BY <2>1 DEF OrdersAreApart, RowsAreOrdered, WritersKnow, Direct!DMChannelsAreUnique,
                  Direct!Between
<1>8. ASSUME NEW u \in Users, Direct!Load(u) PROVE DirectInvariant'
  <2>1. UNCHANGED <<channels, recipients, ordered, directTogether>>
        BY <1>8 DEF Direct!Load, Direct!dbVars
  <2>2. orders' = {IF r.by = u THEN [r EXCEPT !.heard = FALSE] ELSE r : r \in orders}
        BY <1>8 DEF Direct!Load
  <2>3. ASSUME NEW r \in Order, NEW q, q = IF r.by = u THEN [r EXCEPT !.heard = FALSE] ELSE r
        PROVE  q \in Order /\ q.id = r.id /\ q.by = r.by /\ q.with = r.with /\ q.step = r.step
        BY <2>3 DEF Order
  <2>4. \A q \in orders' : \E p \in orders :
            /\ q \in Order /\ q.id = p.id /\ q.by = p.by /\ q.with = p.with /\ q.step = p.step
            /\ q = IF p.by = u THEN [p EXCEPT !.heard = FALSE] ELSE p
        BY <2>2, <2>3 DEF OrdersAreApart
  <2>5. OrdersAreApart'
    <3>1. orders' \subseteq Order /\ ordered' \in [Users -> Nat]
          BY <2>1, <2>4 DEF OrdersAreApart
    <3>2. ASSUME NEW r \in orders', NEW q \in orders', r.id = q.id PROVE r = q
      <4>1. PICK x \in orders :
                 r.id = x.id /\ r = IF x.by = u THEN [x EXCEPT !.heard = FALSE] ELSE x
            BY <2>4
      <4>2. PICK y \in orders :
                 q.id = y.id /\ q = IF y.by = u THEN [y EXCEPT !.heard = FALSE] ELSE y
            BY <2>4
      <4>3. x = y
            BY <3>2, <4>1, <4>2 DEF OrdersAreApart
      <4> QED
          BY <4>1, <4>2, <4>3
    <3>3. \A r \in orders' : r.id[1] = r.by /\ r.id[2] <= ordered'[r.by] /\ r.by # r.with
          BY <2>1, <2>4 DEF OrdersAreApart
    <3>4. ASSUME NEW r \in orders', NEW q \in orders', r # q, r.step # "answered", q.step # "answered"
          PROVE  {r.id, q.id} \in directTogether'
          BY <2>1, <2>4, <3>2, <3>4 DEF OrdersAreApart
    <3> QED
        BY <3>1, <3>2, <3>3, <3>4 DEF OrdersAreApart
  <2>6. RowsAreOrdered'
        BY <2>1, <2>4 DEF RowsAreOrdered
  <2>7. \A x, y : Direct!Between(x, y)' = Direct!Between(x, y)
        BY <2>1 DEF Direct!Between
  <2>8. WritersKnow'
        BY <2>1, <2>4, <2>7 DEF WritersKnow
  <2>9. Direct!DMChannelsAreUnique'
        BY <2>1, <2>7 DEF Direct!DMChannelsAreUnique
  <2> QED
      BY <2>5, <2>6, <2>8, <2>9
<1>9. CASE UNCHANGED directVars
      BY <1>9 DEF directVars, OrdersAreApart, RowsAreOrdered, WritersKnow,
                  Direct!DMChannelsAreUnique, Direct!Between
<1> QED
    BY <1>1, <1>2, <1>3, <1>5, <1>6, <1>7, <1>8, <1>9 DEF Direct!Next

-----------------------------------------------------------------------------
(* Invites.  They are unique as direct channels are.  Who joins and leaves, but never at     *)
(* once, is a member and shown the guild, or neither, except between what the server does    *)
(* and the answer that tells of it.                                                          *)

IsRequest(r) ==
    /\ {"by", "kind", "step", "id", "channel", "maxAge", "invite", "answer", "dialog"} \subseteq DOMAIN r
    /\ r.by \in Users /\ r.id \in Users \X Nat

Creating(r) == r.kind = "create" /\ r.step # "answered"

RequestsAreApart ==
    /\ made \in [Users -> Nat]
    /\ \A r \in requests : IsRequest(r) /\ r.id[1] = r.by /\ r.id[2] <= made[r.by]
    /\ \A r, q \in requests : r.id = q.id => r = q
    /\ \A r, q \in requests : r # q /\ Creating(r) /\ Creating(q) => {r.id, q.id} \in together

\* Only a request that was answered has saved an invite.
InvitesAreOrdered ==
    \A i \in invites :
        /\ i.id \in Users \X Nat /\ i.id[2] <= made[i.id[1]]
        /\ \A r \in requests : r.id = i.id => ~Creating(r)

SaversKnow ==
    \A r \in requests : Invite!Handles(r, "create", "save") =>
        \A i \in Invite!Finds(r) : {i.id, r.id} \in together

\* The server has made the user a member for the request, and the client is not yet told.
Joined(r) == r.step = "load" \/ (r.step = "answered" /\ r.answer.success)

Left(r) == r.step = "answered" /\ r.answer.success

Follows(u) ==
    /\ Invite!Under(u, "join") = {} \/ Invite!Under(u, "leave") = {}
    /\ \A r, q \in Invite!Under(u, "leave") : r = q
    /\ \A r \in Invite!Under(u, "join") : Joined(r) => u \in members
    /\ Invite!Under(u, "leave") = {} =>
          /\ u \in shown => u \in members
          /\ u \in members => \/ u \in shown \cup unheard
                             \/ \E r \in Invite!Under(u, "join") : Joined(r)
    /\ \A r \in Invite!Under(u, "leave") :
          /\ r.step \in {"sent", "answered"}
          /\ Left(r) => u \notin members
          /\ ~Left(r) => /\ u \in shown => u \in members
                         /\ u \in members => u \in shown \cup unheard

MembershipFollows == \A u \in Users \ crossed : Follows(u)

InviteInvariant ==
    /\ RequestsAreApart /\ InvitesAreOrdered /\ SaversKnow /\ Invite!InvitesAreUnique
    /\ MembershipFollows

LEMMA InviteStarts == Invite!Init => InviteInvariant
<1> SUFFICES ASSUME Invite!Init PROVE InviteInvariant
    OBVIOUS
<1> USE DEF Invite!Init
<1>1. RequestsAreApart /\ InvitesAreOrdered /\ SaversKnow /\ Invite!InvitesAreUnique
      BY DEF RequestsAreApart, InvitesAreOrdered, SaversKnow, Invite!InvitesAreUnique
<1>2. MembershipFollows
      BY DEF MembershipFollows, Follows, Invite!Under
<1> QED
    BY <1>1, <1>2 DEF InviteInvariant

\* A request is taken a step further.
Handled(r, n) ==
    /\ IsRequest(n) /\ n.id = r.id /\ n.by = r.by /\ n.kind = r.kind
    /\ n.channel = r.channel /\ n.maxAge = r.maxAge
    /\ r.step = "answered" => n.step = "answered"
    /\ requests' = (requests \ {r}) \cup {n}

LEMMA MovesHandle ==
    ASSUME NEW r \in requests, IsRequest(r), r.step # "answered", NEW step, Invite!Moves(r, step)
    PROVE  Handled(r, [r EXCEPT !.step = step]) /\ [r EXCEPT !.step = step].step = step
BY DEF IsRequest, Handled, Invite!Moves

LEMMA AnswersHandle ==
    ASSUME NEW r \in requests, IsRequest(r), NEW answer, Invite!Answers(r, answer)
    PROVE  \E n : Handled(r, n) /\ n.step = "answered" /\ n.answer = answer
<1> DEFINE n == [r EXCEPT !.step = "answered", !.answer = answer]
<1>1. n.step = "answered" /\ n.answer = answer
      BY DEF IsRequest
<1>2. Handled(r, n)
      BY <1>1 DEF IsRequest, Handled, Invite!Answers
<1> QED
    BY <1>1, <1>2

\* What an answer says.
LEMMA AnswersSucceed ==
    ASSUME NEW data
    PROVE  /\ Invite!Ok(data).success /\ Invite!Ok(data).data = data
           /\ ~Invite!Failed.success
BY DEF Invite!Ok, Invite!Failed

LEMMA HandlingIsApart ==
    ASSUME RequestsAreApart, NEW r \in requests, NEW n, Handled(r, n), UNCHANGED <<made, together>>
    PROVE  RequestsAreApart'
<1> USE DEF RequestsAreApart, Handled
<1>1. \A q \in requests' : IsRequest(q) /\ q.id[1] = q.by /\ q.id[2] <= made'[q.by]
      OBVIOUS
<1>2. \A p, q \in requests' : p.id = q.id => p = q
      OBVIOUS
<1>3. ASSUME NEW p \in requests', NEW q \in requests', p # q, Creating(p), Creating(q)
      PROVE  {p.id, q.id} \in together'
      BY <1>2, <1>3 DEF Creating
<1> QED
    BY <1>1, <1>2, <1>3

LEMMA HandlingIsUnder ==
    ASSUME RequestsAreApart, NEW r \in requests, NEW n, Handled(r, n), NEW u, NEW kind
    PROVE  Invite!Under(u, kind)' =
              IF r.by = u /\ r.kind = kind THEN (Invite!Under(u, kind) \ {r}) \cup {n}
              ELSE Invite!Under(u, kind)
BY DEF Invite!Under, Handled

\* A step of a request for an invite; or of another, which leaves the invites as they are or
\* removes some.
LEMMA HandlingIsUnique ==
    ASSUME RequestsAreApart, InvitesAreOrdered, SaversKnow, Invite!InvitesAreUnique,
           NEW r \in requests, NEW n, Handled(r, n), UNCHANGED <<made, together>>,
           invites' \subseteq invites,
           Invite!Handles(n, "create", "save") => Invite!Finds(r) = {}
    PROVE  RequestsAreApart' /\ InvitesAreOrdered' /\ SaversKnow' /\ Invite!InvitesAreUnique'
<1>1. RequestsAreApart'
      BY HandlingIsApart
<1>2. InvitesAreOrdered'
      BY DEF InvitesAreOrdered, Handled, Creating
<1>3. SaversKnow'
  <2> SUFFICES ASSUME NEW q \in requests', Invite!Handles(q, "create", "save"),
                      NEW i \in invites, Invite!Alike(i, q)
               PROVE  {i.id, q.id} \in together
      BY DEF SaversKnow, Invite!Finds, Invite!Handles, Invite!Alike
  <2>1. CASE q = n
        BY <2>1 DEF Handled, Invite!Finds, Invite!Alike
  <2>2. CASE q \in requests
        BY <2>2 DEF SaversKnow, Invite!Finds
  <2> QED
      BY <2>1, <2>2 DEF Handled
<1>4. Invite!InvitesAreUnique'
      BY DEF Invite!InvitesAreUnique
<1> QED
    BY <1>1, <1>2, <1>3, <1>4

\* What is neither a join nor a leave concerns no member.
LEMMA OthersFollow ==
    ASSUME MembershipFollows, UNCHANGED <<members, shown, crossed, unheard>>,
           \A u \in Users : \A kind \in {"join", "leave"} :
               Invite!Under(u, kind)' = Invite!Under(u, kind)
    PROVE  MembershipFollows'
<1> SUFFICES ASSUME NEW u \in Users \ crossed PROVE Follows(u)'
    BY DEF MembershipFollows
<1>1. Invite!Under(u, "join")' = Invite!Under(u, "join")
      OBVIOUS
<1>2. Invite!Under(u, "leave")' = Invite!Under(u, "leave")
      OBVIOUS
<1> QED
    BY <1>1, <1>2 DEF MembershipFollows, Follows, Joined, Left

LEMMA HandlingFollows ==
    ASSUME RequestsAreApart, MembershipFollows, NEW r \in requests, NEW n, Handled(r, n),
           r.kind \notin {"join", "leave"}, UNCHANGED <<members, shown, crossed, unheard>>
    PROVE  MembershipFollows'
BY HandlingIsUnder, OthersFollow

\* The steps of a request for an invite, for a list or for a deletion.
LEMMA InviteServes ==
    ASSUME InviteInvariant, NEW r \in requests,
           \/ Invite!CreateFind(r) \/ Invite!List(r) \/ Invite!DeleteFind(r) \/ Invite!DeleteSave(r)
    PROVE  InviteInvariant'
<1> USE DEF InviteInvariant
<1>1. IsRequest(r)
      BY DEF RequestsAreApart
<1>2. /\ UNCHANGED <<members, shown, made, together, crossed, unheard>>
      /\ invites' \subseteq invites
      BY DEF Invite!CreateFind, Invite!List, Invite!DeleteFind, Invite!DeleteSave,
             Invite!serverVars, Invite!clientVars, Invite!historyVars
<1>3. r.kind \notin {"join", "leave"} /\ r.step # "answered"
      BY DEF Invite!CreateFind, Invite!List, Invite!DeleteFind, Invite!DeleteSave, Invite!Handles
<1>4. \/ \E answer : Invite!Answers(r, answer)
      \/ /\ Invite!Moves(r, "save")
         /\ r.kind = "create" => Invite!Finds(r) = {}
      BY DEF Invite!CreateFind, Invite!List, Invite!DeleteFind, Invite!DeleteSave, Invite!Handles
<1>5. PICK n : Handled(r, n) /\ (Invite!Handles(n, "create", "save") => Invite!Finds(r) = {})
  <2>1. CASE \E answer : Invite!Answers(r, answer)
    <3>1. PICK answer : Invite!Answers(r, answer)
          BY <2>1
    <3>2. PICK n : Handled(r, n) /\ n.step = "answered"
          BY <1>1, <3>1, AnswersHandle
    <3> QED
        BY <3>2 DEF Invite!Handles
  <2>2. CASE Invite!Moves(r, "save") /\ (r.kind = "create" => Invite!Finds(r) = {})
    <3>1. Handled(r, [r EXCEPT !.step = "save"])
          BY <1>1, <1>3, <2>2, MovesHandle
    <3>2. Invite!Handles([r EXCEPT !.step = "save"], "create", "save") => Invite!Finds(r) = {}
          BY <2>2, <3>1 DEF Invite!Handles, Handled
    <3> QED
        BY <3>1, <3>2
  <2> QED
      BY <1>4, <2>1, <2>2
<1> QED
    BY <1>2, <1>3, <1>5, HandlingIsUnique, HandlingFollows

\* The invite that is saved is known to whoever is about to save one like it.
LEMMA InviteIsSaved ==
    ASSUME InviteInvariant, NEW r \in requests, Invite!CreateSave(r)
    PROVE  InviteInvariant'
<1> USE DEF InviteInvariant
<1> DEFINE new == [id |-> r.id, channel |-> r.channel, maxAge |-> r.maxAge]
<1>1. IsRequest(r) /\ r.id \in Users \X Nat /\ r.id[2] <= made[r.id[1]]
      BY DEF RequestsAreApart, IsRequest
<1>2. UNCHANGED <<members, shown, made, together, crossed, unheard>>
      BY DEF Invite!CreateSave, Invite!clientVars, Invite!historyVars
<1>3. r.kind = "create" /\ r.step = "save"
      BY DEF Invite!CreateSave, Invite!Handles
<1>4. (invites' = invites \cup {new} \/ invites' = invites) /\ \E answer : Invite!Answers(r, answer)
      BY DEF Invite!CreateSave
<1>5. PICK n : Handled(r, n) /\ n.step = "answered"
      BY <1>1, <1>4, AnswersHandle
<1>6. MembershipFollows'
      BY <1>2, <1>3, <1>5, HandlingFollows
<1>7. ~Invite!Handles(n, "create", "save")
      BY <1>5 DEF Invite!Handles
<1>8. CASE invites' = invites
      BY <1>2, <1>5, <1>6, <1>7, <1>8, HandlingIsUnique
<1>9. CASE invites' = invites \cup {new}
  <2>1. RequestsAreApart'
        BY <1>2, <1>5, HandlingIsApart
  <2>2. \A q \in requests' : q.id = r.id => q = n
        BY <1>5, <2>1 DEF RequestsAreApart, Handled
  <2>3. InvitesAreOrdered'
    <3>1. \A i \in invites : \A q \in requests' : q.id = i.id => ~Creating(q)
          BY <1>5 DEF InvitesAreOrdered, Handled, Creating
    <3>2. \A q \in requests' : q.id = new.id => ~Creating(q)
          BY <1>5, <2>2 DEF Creating
    <3> QED
        BY <1>1, <1>2, <1>9, <3>1, <3>2 DEF InvitesAreOrdered
  <2>4. SaversKnow'
    <3> SUFFICES ASSUME NEW q \in requests', Invite!Handles(q, "create", "save"),
                        NEW i \in invites', Invite!Alike(i, q)
                 PROVE  {i.id, q.id} \in together
        BY <1>2 DEF SaversKnow, Invite!Finds, Invite!Handles, Invite!Alike
    <3>1. q \in requests /\ q # r
          BY <1>3, <1>5, <1>7, <2>2 DEF Handled
    <3>2. CASE i = new
          BY <1>3, <3>1, <3>2 DEF RequestsAreApart, Creating, Invite!Handles
    <3>3. CASE i \in invites
          BY <3>1, <3>3 DEF SaversKnow, Invite!Finds
    <3> QED
        BY <1>9, <3>2, <3>3
  <2>5. Invite!InvitesAreUnique'
    <3> SUFFICES ASSUME NEW i \in invites', NEW j \in invites',
                        i # j, i.channel = j.channel, i.maxAge = j.maxAge
                 PROVE  {i.id, j.id} \in together
        BY <1>2 DEF Invite!InvitesAreUnique
    <3>1. CASE i \in invites /\ j \in invites
          BY <3>1 DEF Invite!InvitesAreUnique
    <3>2. ASSUME NEW k \in invites, k.channel = r.channel, k.maxAge = r.maxAge
          PROVE  {k.id, r.id} \in together
          BY <1>3, <3>2 DEF SaversKnow, Invite!Handles, Invite!Finds, Invite!Alike
    <3>3. CASE i = new /\ j \in invites
      <4>1. {i.id, j.id} = {j.id, r.id}
            BY <3>3
      <4> QED
          BY <3>2, <3>3, <4>1
    <3>4. CASE j = new /\ i \in invites
          BY <3>2, <3>4
    <3> QED
        BY <1>9, <3>1, <3>3, <3>4
  <2> QED
      BY <1>6, <2>1, <2>3, <2>4, <2>5
<1> QED
    BY <1>4, <1>8, <1>9

\* The steps of who joins and who leaves, on the server.
LEMMA MembershipServes ==
    ASSUME InviteInvariant, NEW r \in requests,
           \/ Invite!JoinFind(r) \/ Invite!JoinSave(r) \/ Invite!JoinLoad(r) \/ Invite!Leave(r)
    PROVE  InviteInvariant'
<1> USE DEF InviteInvariant
<1> DEFINE v == r.by
<1>1. IsRequest(r) /\ v \in Users
      BY DEF RequestsAreApart, IsRequest
<1>2. UNCHANGED <<invites, shown, made, together, crossed>>
      BY DEF Invite!JoinFind, Invite!JoinSave, Invite!JoinLoad, Invite!Leave,
             Invite!serverVars, Invite!clientVars, Invite!historyVars
<1>3. r.kind \in {"join", "leave"} /\ r.step # "answered"
      BY DEF Invite!JoinFind, Invite!JoinSave, Invite!JoinLoad, Invite!Leave, Invite!Handles
<1>4. PICK n :
         /\ Handled(r, n)
         /\ \/ /\ r.kind = "join" /\ r.step # "load" /\ n.step = "save"
               /\ UNCHANGED <<members, unheard>>
            \/ /\ r.kind = "join" /\ r.step # "load" /\ n.step = "answered" /\ ~n.answer.success
               /\ UNCHANGED <<members, unheard>>
            \/ /\ r.kind = "join" /\ n.step = "load" /\ members' = members \cup {v}
               /\ UNCHANGED unheard
            \/ /\ r.kind = "join" /\ r.step = "load" /\ n.step = "answered"
               /\ n.answer.success /\ v \in members
               /\ UNCHANGED <<members, unheard>>
            \/ /\ r.kind = "join" /\ r.step = "load" /\ n.step = "answered"
               /\ ~n.answer.success /\ UNCHANGED members
               /\ unheard' = unheard \cup ({v} \cap members)
            \/ /\ r.kind = "leave" /\ r.step = "sent" /\ n.step = "answered" /\ n.answer.success
               /\ members' = members \ {v} /\ UNCHANGED unheard
            \/ /\ r.kind = "leave" /\ r.step = "sent" /\ n.step = "answered" /\ ~n.answer.success
               /\ UNCHANGED <<members, unheard>>
  <2> USE <1>1 DEF Invite!Handles, Invite!historyVars
  <2>1. ASSUME NEW answer, Invite!Answers(r, answer)
        PROVE  \E n : Handled(r, n) /\ n.step = "answered" /\ n.answer = answer
        BY <1>3, <2>1, AnswersHandle
  <2>2. CASE Invite!JoinFind(r)
    <3>1. CASE Invite!Moves(r, "save")
          BY <1>3, <2>2, <3>1, MovesHandle DEF Invite!JoinFind, Invite!serverVars
    <3>2. CASE Invite!Answers(r, Invite!Failed)
      <4>1. PICK n : Handled(r, n) /\ n.step = "answered" /\ n.answer = Invite!Failed
            BY <2>1, <3>2
      <4> QED
          BY <2>2, <4>1, AnswersSucceed DEF Invite!JoinFind, Invite!serverVars
    <3> QED
        BY <2>2, <3>1, <3>2 DEF Invite!JoinFind
  <2>3. CASE Invite!JoinSave(r)
    <3>1. CASE members' = members \cup {v} /\ Invite!Moves(r, "load")
          BY <1>3, <2>3, <3>1, MovesHandle DEF Invite!JoinSave
    <3>2. CASE UNCHANGED members /\ Invite!Answers(r, Invite!Failed)
      <4>1. PICK n : Handled(r, n) /\ n.step = "answered" /\ n.answer = Invite!Failed
            BY <2>1, <3>2
      <4> QED
          BY <2>3, <3>2, <4>1, AnswersSucceed DEF Invite!JoinSave
    <3> QED
        BY <2>3, <3>1, <3>2 DEF Invite!JoinSave
  <2>4. CASE Invite!JoinLoad(r)
    <3>1. r.kind = "join" /\ r.step = "load" /\ UNCHANGED members
          BY <2>4 DEF Invite!JoinLoad, Invite!serverVars
    <3>2. CASE v \in members /\ Invite!Answers(r, Invite!Ok(None)) /\ UNCHANGED unheard
      <4>1. PICK n : Handled(r, n) /\ n.step = "answered" /\ n.answer = Invite!Ok(None)
            BY <2>1, <3>2
      <4> QED
          BY <3>1, <3>2, <4>1, AnswersSucceed
    <3>3. CASE /\ Invite!Answers(r, Invite!Failed)
               /\ unheard' = unheard \cup ({v} \cap members)
      <4>1. PICK n : Handled(r, n) /\ n.step = "answered" /\ n.answer = Invite!Failed
            BY <2>1, <3>3
      <4> QED
          BY <3>1, <3>3, <4>1, AnswersSucceed
    <3> QED
        BY <2>4, <3>2, <3>3 DEF Invite!JoinLoad
  <2>5. CASE Invite!Leave(r)
    <3>1. CASE members' = members \ {v} /\ Invite!Answers(r, Invite!Ok(None))
      <4>1. PICK n : Handled(r, n) /\ n.step = "answered" /\ n.answer = Invite!Ok(None)
            BY <2>1, <3>1
      <4> QED
          BY <2>5, <3>1, <4>1, AnswersSucceed DEF Invite!Leave
    <3>2. CASE UNCHANGED members /\ Invite!Answers(r, Invite!Failed)
      <4>1. PICK n : Handled(r, n) /\ n.step = "answered" /\ n.answer = Invite!Failed
            BY <2>1, <3>2
      <4> QED
          BY <2>5, <3>2, <4>1, AnswersSucceed DEF Invite!Leave
    <3> QED
        BY <2>5, <3>1, <3>2 DEF Invite!Leave
  <2> QED
      BY <2>2, <2>3, <2>4, <2>5
<1>5. RequestsAreApart' /\ InvitesAreOrdered' /\ SaversKnow' /\ Invite!InvitesAreUnique'
      BY <1>2, <1>3, <1>4, HandlingIsUnique DEF Handled, Invite!Handles
<1>6. MembershipFollows'
  <2> SUFFICES ASSUME NEW u \in Users \ crossed PROVE Follows(u)'
      BY <1>2 DEF MembershipFollows
  <2> DEFINE joins == Invite!Under(u, "join")
             leaves == Invite!Under(u, "leave")
  <2>1. Follows(u)
        BY DEF MembershipFollows
  <2>2. /\ joins' = IF r.by = u /\ r.kind = "join" THEN (joins \ {r}) \cup {n} ELSE joins
        /\ leaves' = IF r.by = u /\ r.kind = "leave" THEN (leaves \ {r}) \cup {n} ELSE leaves
        BY <1>4, HandlingIsUnder
  <2>3. CASE u # v
    <3>1. /\ joins' = joins /\ leaves' = leaves
          /\ u \in members' <=> u \in members
          /\ u \in unheard' <=> u \in unheard
          BY <1>4, <2>2, <2>3
    <3> QED
        BY <1>2, <2>1, <3>1 DEF Follows, Joined, Left
  <2>4. CASE u = v /\ r.kind = "join"
    <3>1. r \in joins /\ leaves = {} /\ leaves' = {} /\ joins' = (joins \ {r}) \cup {n}
          BY <2>1, <2>2, <2>4 DEF Follows, Invite!Under
    <3>2. Joined(r) <=> r.step = "load"
          BY <1>3 DEF Joined
    <3>3. CASE n.step = "load" /\ members' = members \cup {v}
          BY <1>2, <2>1, <2>4, <3>1, <3>3 DEF Follows, Joined
    <3>4. CASE UNCHANGED <<members, unheard>> /\ (Joined(n) <=> r.step = "load")
          BY <1>2, <2>1, <2>4, <3>1, <3>2, <3>4 DEF Follows, Joined
    <3>5. CASE /\ ~Joined(n) /\ UNCHANGED members
               /\ unheard' = unheard \cup ({v} \cap members)
          BY <1>2, <2>1, <2>4, <3>1, <3>5 DEF Follows, Joined
    <3> QED
        BY <1>4, <2>4, <3>3, <3>4, <3>5 DEF Joined
  <2>5. CASE u = v /\ r.kind = "leave"
    <3>1. r \in leaves /\ joins = {} /\ joins' = {} /\ leaves' = {n} /\ leaves = {r}
          BY <2>1, <2>2, <2>5 DEF Follows, Invite!Under
    <3>2. r.step = "sent" /\ n.step = "answered" /\ ~Left(r)
          BY <1>4, <2>5 DEF Left
    <3>3. (u \in shown => u \in members) /\ (u \in members => u \in shown \cup unheard)
          BY <2>1, <3>1, <3>2 DEF Follows
    <3> QED
        BY <1>2, <1>4, <2>5, <3>1, <3>2, <3>3 DEF Follows, Left
  <2> QED
      BY <1>3, <2>3, <2>4, <2>5
<1> QED
    BY <1>5, <1>6

\* A request has a new number, and is a pair with those it could come in the way of.
LEMMA InviteAsks ==
    ASSUME InviteInvariant, NEW u \in Users, NEW kind, NEW channel, NEW maxAge, NEW invite,
           Invite!Ask(u, kind, channel, maxAge, invite), UNCHANGED <<members, invites, shown>>,
           kind = "leave" => Invite!Under(u, "leave") = {}
    PROVE  InviteInvariant'
<1> USE DEF InviteInvariant
<1> DEFINE id == <<u, made[u] + 1>>
<1>1. PICK new :
         /\ requests' = requests \cup {new}
         /\ IsRequest(new) /\ new.by = u /\ new.id = id /\ new.kind = kind /\ new.step = "sent"
  <2> DEFINE new(d) == [by |-> u, kind |-> kind, step |-> "sent", id |-> id, channel |-> channel,
                        maxAge |-> maxAge, invite |-> invite, answer |-> None, dialog |-> d]
  <2>1. PICK d : requests' = requests \cup {new(d)}
        BY DEF Invite!Ask
  <2>2. id \in Users \X Nat
        BY DEF RequestsAreApart
  <2>3. IsRequest(new(d))
        BY <2>2 DEF IsRequest
  <2> QED
      BY <2>1, <2>3
<1>2. /\ made' = [made EXCEPT ![u] = @ + 1]
      /\ together' = IF kind = "create"
                     THEN together \cup {{id, r.id} : r \in {q \in requests : Creating(q)}}
                     ELSE together
      BY DEF Invite!Ask, Creating
<1>3. made \in [Users -> Nat] /\ made[u] \in Nat /\ made' \in [Users -> Nat]
      /\ made'[u] = made[u] + 1 /\ id \in Users \X Nat
      BY <1>2 DEF RequestsAreApart
<1>4. \A c \in Users \X Nat : c[2] <= made[c[1]] => c # id /\ c[2] <= made'[c[1]]
      BY <1>2, <1>3
<1>5. \A r \in requests : IsRequest(r) /\ r.id # id /\ r.id[1] = r.by /\ r.id[2] <= made'[r.by]
      BY <1>4 DEF RequestsAreApart, IsRequest
<1>6. RequestsAreApart'
  <2>1. \A r \in requests' : IsRequest(r) /\ r.id[1] = r.by /\ r.id[2] <= made'[r.by]
        BY <1>1, <1>3, <1>5
  <2>2. \A r, q \in requests' : r.id = q.id => r = q
        BY <1>1, <1>5 DEF RequestsAreApart
  <2>3. ASSUME NEW r \in requests', NEW q \in requests', r # q, Creating(r), Creating(q)
        PROVE  {r.id, q.id} \in together'
    <3>1. CASE r \in requests /\ q \in requests
          BY <1>2, <2>3, <3>1 DEF RequestsAreApart
    <3>2. CASE r = new
          BY <1>1, <1>2, <2>3, <3>2 DEF Creating
    <3>3. CASE q = new
      <4>1. {id, r.id} = {r.id, id}
            OBVIOUS
      <4> QED
          BY <1>1, <1>2, <2>3, <3>3, <4>1 DEF Creating
    <3> QED
        BY <1>1, <3>1, <3>2, <3>3
  <2> QED
      BY <1>3, <2>1, <2>2, <2>3 DEF RequestsAreApart
<1>7. InvitesAreOrdered'
      BY <1>1, <1>4 DEF InvitesAreOrdered
<1>8. together \subseteq together'
      BY <1>2
<1>9. SaversKnow' /\ Invite!InvitesAreUnique'
      BY <1>1, <1>8 DEF SaversKnow, Invite!InvitesAreUnique, Invite!Handles, Invite!Finds,
                        Invite!Alike
<1>10. MembershipFollows'
  <2> SUFFICES ASSUME NEW v \in Users, v \notin crossed' PROVE Follows(v)'
      BY DEF MembershipFollows
  <2> DEFINE joins == Invite!Under(v, "join")
             leaves == Invite!Under(v, "leave")
  <2>1. Follows(v)
        BY DEF MembershipFollows, Invite!Ask
  <2>2. /\ joins' = IF v = u /\ kind = "join" THEN joins \cup {new} ELSE joins
        /\ leaves' = IF v = u /\ kind = "leave" THEN leaves \cup {new} ELSE leaves
        BY <1>1 DEF Invite!Under
  <2>3. /\ v = u /\ kind = "join" => leaves = {}
        /\ v = u /\ kind = "leave" => joins = {} /\ leaves = {}
        BY DEF Invite!Ask
  <2>4. ~Joined(new) /\ ~Left(new) /\ new.step = "sent" /\ UNCHANGED unheard
        BY <1>1 DEF Joined, Left, Invite!Ask
  <2>5. CASE v = u /\ kind = "join"
        BY <2>1, <2>2, <2>3, <2>4, <2>5 DEF Follows, Joined, Left
  <2>6. CASE v = u /\ kind = "leave"
        BY <2>1, <2>2, <2>3, <2>4, <2>6 DEF Follows, Joined, Left
  <2>7. CASE v # u \/ kind \notin {"join", "leave"}
    <3>1. joins' = joins /\ leaves' = leaves
          BY <2>2, <2>7
    <3> QED
        BY <2>1, <2>4, <3>1 DEF Follows, Joined, Left
  <2> QED
      BY <2>5, <2>6, <2>7
<1> QED
    BY <1>6, <1>7, <1>9, <1>10

\* A request whose answer was taken is gone.
LEMMA InviteAnswers ==
    ASSUME InviteInvariant, NEW r \in requests, requests' = requests \ {r},
           invites' \subseteq invites, UNCHANGED <<members, made, together, crossed>>,
           r.step = "answered",
           \/ r.kind \notin {"join", "leave"} /\ UNCHANGED <<shown, unheard>>
           \/ /\ r.kind \in {"join", "leave"}
              /\ unheard' = IF r.answer.success THEN unheard \ {r.by} ELSE unheard
              /\ shown' = IF ~r.answer.success THEN shown
                          ELSE IF r.kind = "join" THEN shown \cup {r.by} ELSE shown \ {r.by}
    PROVE  InviteInvariant'
<1> USE DEF InviteInvariant
<1>1. RequestsAreApart'
      BY DEF RequestsAreApart
<1>2. InvitesAreOrdered' /\ SaversKnow' /\ Invite!InvitesAreUnique'
      BY DEF InvitesAreOrdered, SaversKnow, Invite!InvitesAreUnique, Invite!Handles, Invite!Finds,
             Invite!Alike
<1>3. MembershipFollows'
  <2> SUFFICES ASSUME NEW u \in Users \ crossed PROVE Follows(u)'
      BY DEF MembershipFollows
  <2> DEFINE joins == Invite!Under(u, "join")
             leaves == Invite!Under(u, "leave")
  <2>1. Follows(u)
        BY DEF MembershipFollows
  <2>2. joins' = joins \ {r} /\ leaves' = leaves \ {r}
        BY DEF Invite!Under
  <2>3. CASE u # r.by \/ r.kind \notin {"join", "leave"}
    <3>1. /\ joins' = joins /\ leaves' = leaves
          /\ u \in shown' <=> u \in shown
          /\ u \in unheard' <=> u \in unheard
          BY <2>2, <2>3 DEF Invite!Under
    <3> QED
        BY <2>1, <3>1 DEF Follows, Joined, Left
  <2>4. CASE u = r.by /\ r.kind = "join"
    <3>1. r \in joins /\ leaves = {} /\ leaves' = {}
          BY <2>1, <2>2, <2>4 DEF Follows, Invite!Under
    <3>2. Joined(r) <=> r.answer.success
          BY DEF Joined
    <3> QED
        BY <2>1, <2>2, <2>4, <3>1, <3>2 DEF Follows, Joined
  <2>5. CASE u = r.by /\ r.kind = "leave"
    <3>1. leaves = {r} /\ joins = {} /\ leaves' = {} /\ joins' = {}
          BY <2>1, <2>2, <2>5 DEF Follows, Invite!Under
    <3> QED
        BY <2>1, <2>5, <3>1 DEF Follows, Left
  <2> QED
      BY <2>3, <2>4, <2>5
<1> QED
    BY <1>1, <1>2, <1>3

LEMMA InviteRests ==
    ASSUME InviteInvariant, invites' \subseteq invites,
           UNCHANGED <<requests, members, shown, made, together, crossed, unheard>>
    PROVE  InviteInvariant'
<1> USE DEF InviteInvariant
<1>1. RequestsAreApart' /\ InvitesAreOrdered' /\ SaversKnow' /\ Invite!InvitesAreUnique'
      BY DEF RequestsAreApart, InvitesAreOrdered, SaversKnow, Invite!InvitesAreUnique,
             Invite!Handles, Invite!Finds, Invite!Alike
<1>2. MembershipFollows'
      BY OthersFollow DEF Invite!Under
<1> QED
    BY <1>1, <1>2

LEMMA InviteSteps == InviteInvariant /\ [Invite!Next]_inviteVars => InviteInvariant'
<1> SUFFICES ASSUME InviteInvariant, [Invite!Next]_inviteVars PROVE InviteInvariant'
    OBVIOUS
<1> USE DEF Invite!serverVars, Invite!clientVars, Invite!historyVars
<1>1. ASSUME NEW r \in requests, Invite!Serve(r) PROVE InviteInvariant'
      BY <1>1, InviteServes, InviteIsSaved, MembershipServes DEF Invite!Serve
<1>2. ASSUME NEW r \in requests, Invite!Receive(r) PROVE InviteInvariant'
      BY <1>2, InviteAnswers
         DEF Invite!Receive, Invite!TakeInvite, Invite!TakeList, Invite!TakeMembership,
             Invite!TakeDeletion, Invite!Handles
<1>3. ASSUME NEW u \in Users, Invite!Click(u) PROVE InviteInvariant'
  <2>1. ASSUME NEW c \in TextChannels, Invite!OpenDialog(u, c) PROVE InviteInvariant'
        BY <2>1, InviteAsks DEF Invite!OpenDialog
  <2>2. CASE Invite!GenerateLink(u)
        BY <2>2, InviteAsks DEF Invite!GenerateLink
  <2>3. ASSUME NEW c \in TextChannels \cup {None}, Invite!OpenList(u, c) PROVE InviteInvariant'
        BY <2>3, InviteAsks DEF Invite!OpenList
  <2>4. CASE Invite!Revoke(u)
        BY <2>4, InviteAsks DEF Invite!Revoke
  <2>5. CASE Invite!FollowLink(u)
        BY <2>5, InviteAsks DEF Invite!FollowLink
  <2>6. CASE Invite!LeaveGuild(u)
        BY <2>6, InviteAsks DEF Invite!LeaveGuild
  <2>7. CASE Invite!EditLink(u) \/ Invite!CloseDialog(u) \/ Invite!CloseList(u)
        BY <2>7, InviteRests DEF Invite!EditLink, Invite!CloseDialog, Invite!CloseList
  <2> QED
      BY <1>3, <2>1, <2>2, <2>3, <2>4, <2>5, <2>6, <2>7 DEF Invite!Click
<1>4. ASSUME NEW c \in TextChannels, Invite!DeleteChannel(c) PROVE InviteInvariant'
      BY <1>4, InviteRests DEF Invite!DeleteChannel
<1>5. ASSUME NEW i \in invites, Invite!Expire(i) PROVE InviteInvariant'
      BY <1>5, InviteRests DEF Invite!Expire
<1>6. CASE UNCHANGED inviteVars
      BY <1>6, InviteRests DEF inviteVars
<1> QED
    BY <1>1, <1>2, <1>3, <1>4, <1>5, <1>6 DEF Invite!Next

LEMMA InvitesStayInOrder == Spec => []InviteInvariant
<1>1. Init => InviteInvariant
      BY InviteStarts DEF Init
<1>2. InviteInvariant /\ [Next]_vars => InviteInvariant'
      BY OneMoves, InviteSteps
<1> QED
    BY <1>1, <1>2, PTL DEF Spec

\* However often a user joins, through whichever links, and leaves, the client shows the guild
\* exactly if the user is a member (page.tsx:16-27, mutations.ts:329-340), unless the request
\* that made the user a member was answered with a failure (guilds.service.ts:259), or the
\* user joined and left at once.
THEOREM MembersSeeTheGuild == Spec => []MembershipIsShown
<1>1. ASSUME InviteInvariant PROVE MembershipIsShown
  <2> SUFFICES ASSUME NEW u \in Users \ crossed,
                      \A r \in requests : r.by = u => r.kind \notin {"join", "leave"}
               PROVE  /\ u \in shown => u \in members
                      /\ u \in members => u \in shown \cup unheard
      BY DEF MembershipIsShown, Invite!MembershipIsShown
  <2>1. Invite!Under(u, "join") = {} /\ Invite!Under(u, "leave") = {}
        BY DEF Invite!Under
  <2> QED
      BY <1>1, <2>1 DEF InviteInvariant, MembershipFollows, Follows
<1> QED
    BY <1>1, InvitesStayInOrder, PTL

\* Nothing in the databases keeps a second account, invite or channel of a kind out: the
\* handlers' own look-ups do, unless two requests are handled at once (auth.service.ts:55-74,
\* invites.service.ts:73-98, channels.service.ts:251-286).
THEOREM NothingIsMadeTwice == Spec => []Unique
<1>1. Init => DirectInvariant
      BY DirectStarts DEF Init
<1>2. DirectInvariant /\ [Next]_vars => DirectInvariant'
      BY OneMoves, DirectSteps
<1>3. AccountInvariant /\ DirectInvariant /\ InviteInvariant => Unique
      BY DEF AccountInvariant, RegistersInvariant, DirectInvariant, InviteInvariant, Unique
<1> QED
    BY <1>1, <1>2, <1>3, AccountsStayInOrder, InvitesStayInOrder, PTL DEF Spec

-----------------------------------------------------------------------------
(* The typing indicator.  How long the timer of a viewer still runs is bounded from above by *)
(* the time since the last key, and, while the typist goes on, from below by the time since  *)
(* the last announcement, or since the one before if the last is still on its way.           *)

Event == [event : {"typing", "message"}, to : Viewers \cup {"service"}, age : 0 .. Delay]

TypingTypes ==
    /\ allowed \subseteq Viewers \cup {Typist}
    /\ cooling \in 0 .. Cooldown
    /\ wire \subseteq Event
    /\ typing \subseteq Viewers
    /\ timers \in [Viewers -> SUBSET (1 .. Timeout)]
    /\ quiet \in 0 .. (Timeout + Delay + 1)
    /\ keyed \in BOOLEAN
    /\ steady \in [Viewers -> 0 .. Indicator!MaxSteady]

\* What is announced was typed since.
AnnouncedInTime ==
    \A e \in wire :
        /\ e.to = "service" => e.event = "typing"
        /\ e.event = "typing" => quiet <= e.age

ShownInTime(v) ==
    /\ v \in typing <=> timers[v] # {}
    /\ \A t, s \in timers[v] : t = s
    /\ \A t \in timers[v] : quiet + t <= Timeout + Delay

\* The announcements that v has yet to receive, and how long its timer still runs.
Toward(v) == {e \in wire : e.event = "typing" /\ e.to \in {v, "service"}}

Runs(v, n) == \E t \in timers[v] : t >= n

InSight(v) == steady[v] > 0 => {v, Typist} \subseteq allowed

MessagesPass(v) == \A e \in wire : e.event = "message" /\ e.to = v => steady[v] <= e.age

\* Cooldown - cooling seconds after an announcement, v has received it or will.
Announced(v) ==
    cooling > 0 /\ steady[v] + cooling > Cooldown + Delay =>
        \/ \E e \in Toward(v) : e.age + cooling = Cooldown
        \/ Runs(v, Timeout + cooling - Cooldown)

\* Until the next announcement the timer goes on, to the end of the second if it is due in it.
Due(v) ==
    cooling = 0 /\ Toward(v) = {} =>
        /\ steady[v] > Cooldown + Delay => Runs(v, Timeout - Cooldown)
        /\ keyed /\ steady[v] >= Cooldown + Delay => Runs(v, Timeout - Cooldown + 1)

\* It still runs when the next announcement arrives.
Bridged(v) ==
    Toward(v) # {} =>
        \E e \in Toward(v) :
            steady[v] > Cooldown + Delay + e.age => Runs(v, Timeout - Cooldown - e.age)

Lasts(v) == InSight(v) /\ MessagesPass(v) /\ Announced(v) /\ Due(v) /\ Bridged(v)

TypingInvariant ==
    TypingTypes /\ AnnouncedInTime /\ \A v \in Viewers : ShownInTime(v) /\ Lasts(v)

LEMMA Seconds ==
    /\ Cooldown \in Nat /\ Timeout \in Nat /\ Delay \in Nat
    /\ Delay < Cooldown /\ Cooldown + Delay < Timeout
    /\ Typist \notin Viewers /\ "service" \notin Viewers
    /\ Indicator!MaxSteady \in Nat /\ Indicator!MaxSteady = Cooldown + Delay + Delay + 1
<1>1. /\ Cooldown \in Nat /\ Timeout \in Nat /\ Delay \in Nat
      /\ Delay < Cooldown /\ Cooldown + Delay < Timeout
      BY ComponentsAssumption
<1>2. 2 * Delay = Delay + Delay
      BY <1>1
<1> QED
    BY <1>1, <1>2, ComponentsAssumption DEF Indicator!MaxSteady

LEMMA TypingStarts == Indicator!Init => TypingInvariant
<1> SUFFICES ASSUME Indicator!Init PROVE TypingInvariant
    OBVIOUS
<1> USE Seconds DEF Indicator!Init
<1>1. TypingTypes
  <2>1. timers \in [Viewers -> SUBSET (1 .. Timeout)]
        OBVIOUS
  <2>2. steady \in [Viewers -> 0 .. Indicator!MaxSteady]
        OBVIOUS
  <2>3. Timeout + Delay + 1 \in 0 .. (Timeout + Delay + 1)
        BY ONLY Seconds
  <2>4. quiet = Timeout + Delay + 1 /\ cooling \in 0 .. Cooldown
        BY DEF Indicator!MaxQuiet
  <2>5. keyed \in BOOLEAN
        OBVIOUS
  <2> QED
      BY <2>1, <2>2, <2>3, <2>4, <2>5 DEF TypingTypes
<1>2. AnnouncedInTime
      BY DEF AnnouncedInTime
<1>3. ASSUME NEW v \in Viewers PROVE ShownInTime(v) /\ Lasts(v)
  <2>1. steady[v] = 0 /\ timers[v] = {} /\ Toward(v) = {}
        BY DEF Toward
  <2> QED
      BY <2>1 DEF ShownInTime, Lasts, InSight, MessagesPass, Announced, Due, Bridged
<1> QED
    BY <1>1, <1>2, <1>3 DEF TypingInvariant

\* Who has not seen the typist go on for longer than an event is on its way is promised nothing.
LEMMA BrieflyLasts ==
    ASSUME TypingTypes', NEW v \in Viewers, steady'[v] <= Delay, InSight(v)', MessagesPass(v)'
    PROVE  Lasts(v)'
<1> USE Seconds DEF TypingTypes
<1>1. Announced(v)' /\ Due(v)'
      BY DEF Announced, Due
<1>2. \A e \in Toward(v)' : e.age \in Nat
      BY DEF Toward, Event
<1>3. Bridged(v)'
      BY <1>2 DEF Bridged
<1> QED
    BY <1>1, <1>3 DEF Lasts

LEMMA NothingLasts ==
    ASSUME TypingTypes', NEW v \in Viewers, steady'[v] = 0
    PROVE  Lasts(v)'
<1>1. InSight(v)'
      BY DEF InSight
<1>2. MessagesPass(v)'
      BY Seconds DEF MessagesPass, TypingTypes, Event
<1>3. steady'[v] <= Delay
      BY Seconds
<1> QED
    BY <1>1, <1>2, <1>3, BrieflyLasts

\* A timer that was just started runs long enough for whatever is announced.
LEMMA RestartedLasts ==
    ASSUME TypingTypes, TypingTypes', NEW v \in Viewers, Lasts(v), timers'[v] = {Timeout},
           UNCHANGED <<allowed, cooling, keyed, steady>>,
           \A e \in wire' : e.event = "message" => e \in wire
    PROVE  Lasts(v)'
<1> USE Seconds DEF TypingTypes, Lasts
<1>1. InSight(v)' /\ MessagesPass(v)'
      BY DEF InSight, MessagesPass
<1>2. \A n \in Int : n <= Timeout => Runs(v, n)'
      BY DEF Runs
<1>3. Announced(v)' /\ Due(v)'
      BY <1>2 DEF Announced, Due
<1>4. \A e \in Toward(v)' : e.age \in Nat
      BY DEF Toward, Event
<1>5. Bridged(v)'
      BY <1>2, <1>4 DEF Bridged
<1> QED
    BY <1>1, <1>3, <1>5

LEMMA EventsAre ==
    ASSUME NEW name \in {"typing", "message"}, NEW to \in Viewers \cup {"service"},
           NEW age \in 0 .. Delay
    PROVE  /\ Indicator!Event(name, to, age) \in Event
           /\ Indicator!Event(name, to, age).event = name
           /\ Indicator!Event(name, to, age).to = to
           /\ Indicator!Event(name, to, age).age = age
BY DEF Indicator!Event, Event

\* A key is pressed: it is announced unless that was done a moment ago.
LEMMA TypingKey ==
    ASSUME TypingInvariant, Indicator!Key
    PROVE  TypingInvariant'
<1> USE Seconds DEF TypingInvariant
<1> DEFINE new == Indicator!Event("typing", "service", 0)
<1>1. /\ wire' = wire \cup (IF cooling = 0 THEN {new} ELSE {})
      /\ cooling' = IF cooling = 0 THEN Cooldown ELSE cooling
      /\ quiet' = 0 /\ keyed' = TRUE
      /\ UNCHANGED <<allowed, typing, timers, steady>>
      BY DEF Indicator!Key, Indicator!InputChanged
<1>2. new \in Event /\ new.event = "typing" /\ new.to = "service" /\ new.age = 0
      BY EventsAre
<1>3. TypingTypes'
  <2>1. wire' \subseteq Event
        BY <1>1, <1>2 DEF TypingTypes
  <2>2. cooling' \in 0 .. Cooldown /\ quiet' \in 0 .. (Timeout + Delay + 1)
        BY <1>1 DEF TypingTypes
  <2> QED
      BY <1>1, <2>1, <2>2 DEF TypingTypes
<1>4. AnnouncedInTime'
  <2>1. \A e \in wire' : quiet' <= e.age
        BY <1>1, <1>3 DEF TypingTypes, Event
  <2> QED
      BY <1>1, <1>2, <2>1 DEF AnnouncedInTime
<1>5. ASSUME NEW v \in Viewers PROVE ShownInTime(v)' /\ Lasts(v)'
  <2>1. ShownInTime(v)'
        BY <1>1 DEF ShownInTime, TypingTypes
  <2>2. InSight(v)' /\ MessagesPass(v)'
        BY <1>1, <1>2 DEF Lasts, InSight, MessagesPass
  <2>3. CASE cooling # 0
    <3>1. Toward(v)' = Toward(v) /\ cooling' # 0 /\ cooling' = cooling
          BY <1>1, <2>3 DEF Toward
    <3>2. Announced(v)' /\ Bridged(v)'
          BY <1>1, <3>1 DEF Lasts, Announced, Bridged, Runs
    <3> QED
        BY <2>1, <2>2, <3>1, <3>2 DEF Lasts, Due
  <2>4. CASE cooling = 0
    <3>1. Toward(v)' = Toward(v) \cup {new} /\ cooling' = Cooldown
          BY <1>1, <1>2, <2>4 DEF Toward
    <3>2. Announced(v)'
          BY <1>2, <3>1 DEF Announced
    <3>3. Due(v)'
          BY <3>1 DEF Due
    <3>4. Bridged(v)'
      <4>1. CASE Toward(v) = {}
        <5>1. steady[v] > Cooldown + Delay => Runs(v, Timeout - Cooldown)
              BY <2>4, <4>1 DEF Lasts, Due
        <5> QED
            BY <1>1, <1>2, <3>1, <5>1 DEF Bridged, Runs, TypingTypes
      <4>2. CASE Toward(v) # {}
            BY <1>1, <3>1, <4>2 DEF Lasts, Bridged, Runs
      <4> QED
          BY <4>1, <4>2
    <3> QED
        BY <2>1, <2>2, <3>2, <3>3, <3>4 DEF Lasts
  <2> QED
      BY <2>3, <2>4
<1> QED
    BY <1>3, <1>4, <1>5

\* Enter is a key as well; the message may yet stop the indicator.
LEMMA TypingEnter ==
    ASSUME TypingInvariant, Indicator!Enter
    PROVE  TypingInvariant'
<1> USE Seconds DEF TypingInvariant
<1>1. PICK sent :
         /\ \A e \in sent : e \in Event /\ e.event = "message" /\ e.to # "service"
         /\ wire' = wire \cup sent \cup
                (IF cooling = 0 THEN {Indicator!Event("typing", "service", 0)} ELSE {})
  <2> DEFINE messages == {Indicator!Event("message", v, 0) : v \in Indicator!Others}
  <2>1. Indicator!Others \subseteq Viewers
        BY DEF TypingTypes, Indicator!Others
  <2>2. \A e \in messages : e \in Event /\ e.event = "message" /\ e.to # "service"
        BY <2>1, EventsAre
  <2>3. PICK s \in {messages, {}} : Indicator!InputChanged(s)
        BY DEF Indicator!Enter
  <2> QED
      BY <2>2, <2>3 DEF Indicator!InputChanged
<1>2. /\ cooling' = IF cooling = 0 THEN Cooldown ELSE cooling
      /\ quiet' = 0 /\ keyed' = FALSE /\ steady' = [v \in Viewers |-> 0]
      /\ UNCHANGED <<allowed, typing, timers>>
      BY DEF Indicator!Enter, Indicator!InputChanged
<1>3. TypingTypes'
  <2>1. wire' \subseteq Event
        BY <1>1, EventsAre DEF TypingTypes
  <2>2. cooling' \in 0 .. Cooldown /\ quiet' \in 0 .. (Timeout + Delay + 1)
        BY <1>2 DEF TypingTypes
  <2>3. steady' \in [Viewers -> 0 .. Indicator!MaxSteady]
        BY <1>2
  <2> QED
      BY <1>2, <2>1, <2>2, <2>3 DEF TypingTypes
<1>4. AnnouncedInTime'
  <2>1. \A e \in wire' : quiet' <= e.age
        BY <1>2, <1>3 DEF TypingTypes, Event
  <2> QED
      BY <1>1, <2>1, EventsAre DEF AnnouncedInTime
<1>5. ASSUME NEW v \in Viewers PROVE ShownInTime(v)' /\ Lasts(v)'
  <2>1. ShownInTime(v)'
        BY <1>2 DEF ShownInTime, TypingTypes
  <2> QED
      BY <1>2, <1>3, <2>1, NothingLasts
<1> QED
    BY <1>3, <1>4, <1>5

\* The input is left: the next key is announced whenever it comes.
LEMMA TypingLeave ==
    ASSUME TypingInvariant, Indicator!Leave
    PROVE  TypingInvariant'
<1> USE Seconds DEF TypingInvariant
<1>1. /\ cooling > 0 /\ cooling' = 0
      /\ UNCHANGED <<allowed, wire, typing, timers, quiet, keyed, steady>>
      BY DEF Indicator!Leave
<1>2. TypingTypes'
      BY <1>1 DEF TypingTypes
<1>3. AnnouncedInTime'
      BY <1>1 DEF AnnouncedInTime
<1>4. ASSUME NEW v \in Viewers PROVE ShownInTime(v)' /\ Lasts(v)'
  <2>1. ShownInTime(v)' /\ InSight(v)' /\ MessagesPass(v)' /\ Announced(v)'
        BY <1>1 DEF Lasts, ShownInTime, InSight, MessagesPass, Announced
  <2>2. Bridged(v)'
        BY <1>1 DEF Lasts, Bridged, Toward, Runs
  <2>3. Due(v)'
    <3> SUFFICES ASSUME Toward(v) = {}, steady[v] >= Cooldown + Delay
                 PROVE  Runs(v, Timeout - Cooldown + 1) /\ Runs(v, Timeout - Cooldown)
        BY <1>1 DEF Due, Toward, Runs, TypingTypes
    <3>1. Runs(v, Timeout + cooling - Cooldown)
          BY <1>1 DEF Lasts, Announced, TypingTypes
    <3> QED
        BY <1>1, <3>1 DEF Runs, TypingTypes
  <2> QED
      BY <2>1, <2>2, <2>3 DEF Lasts
<1> QED
    BY <1>2, <1>3, <1>4

\* Who may view the channel is told; and who does not, has not been seeing the typist go on.
LEMMA TypingBroadcast ==
    ASSUME TypingInvariant, NEW e \in wire, Indicator!BroadcastUserTyping(e)
    PROVE  TypingInvariant'
<1> USE Seconds DEF TypingInvariant
<1> DEFINE told == {Indicator!Event("typing", v, e.age) : v \in Indicator!Others}
<1>1. /\ e.to = "service" /\ e.event = "typing" /\ e \in Event /\ e.age \in 0 .. Delay
      /\ wire' = (wire \ {e}) \cup told
      /\ UNCHANGED <<allowed, cooling, typing, timers, quiet, keyed, steady>>
      BY DEF Indicator!BroadcastUserTyping, AnnouncedInTime, TypingTypes, Event
<1>2. Indicator!Others \subseteq Viewers
      BY DEF TypingTypes, Indicator!Others
<1>3. \A n \in told : n \in Event /\ n.event = "typing" /\ n.to # "service" /\ n.age = e.age
      BY <1>1, <1>2, EventsAre
<1>4. TypingTypes'
      BY <1>1, <1>3 DEF TypingTypes
<1>5. AnnouncedInTime'
      BY <1>1, <1>3 DEF AnnouncedInTime
<1>6. ASSUME NEW v \in Viewers PROVE ShownInTime(v)' /\ Lasts(v)'
  <2>1. ShownInTime(v)' /\ InSight(v)'
        BY <1>1 DEF Lasts, ShownInTime, InSight
  <2>2. CASE steady[v] = 0
        BY <1>1, <1>4, <2>1, <2>2, NothingLasts
  <2>3. CASE steady[v] # 0
    <3> DEFINE mine == Indicator!Event("typing", v, e.age)
    <3>1. v \in Indicator!Others
          BY <2>3 DEF Lasts, InSight, Indicator!Others, TypingTypes
    <3>2. mine \in told /\ mine.to = v /\ mine.event = "typing" /\ mine.age = e.age
          BY <1>1, <3>1, EventsAre
    <3>3. e \in Toward(v) /\ mine \in Toward(v)'
          BY <1>1, <3>2 DEF Toward
    <3>4. Toward(v) \ {e} \subseteq Toward(v)'
          BY <1>1 DEF Toward
    <3>5. MessagesPass(v)'
          BY <1>1, <1>3 DEF Lasts, MessagesPass
    <3>6. Announced(v)'
          BY <1>1, <3>2, <3>3, <3>4 DEF Lasts, Announced, Runs
    <3>7. Due(v)'
          BY <3>3 DEF Due
    <3>8. Bridged(v)'
          BY <1>1, <3>2, <3>3, <3>4 DEF Lasts, Bridged, Runs
    <3> QED
        BY <2>1, <3>5, <3>6, <3>7, <3>8 DEF Lasts
  <2> QED
      BY <2>2, <2>3
<1> QED
    BY <1>4, <1>5, <1>6

\* The store of a viewer starts the timer again, or stops it for a message, which leaves the
\* service later than every key that it is older than.
LEMMA TypingReceive ==
    ASSUME TypingInvariant, NEW e \in wire, Indicator!Receive(e)
    PROVE  TypingInvariant'
<1> USE Seconds DEF TypingInvariant
<1>1. /\ e \in Event /\ e.to \in Viewers /\ e.age \in 0 .. Delay
      /\ wire' = wire \ {e}
      /\ UNCHANGED <<allowed, cooling, quiet, keyed, steady>>
      BY DEF Indicator!Receive, TypingTypes, Event
<1>2. CASE e.event = "typing"
  <2>1. typing' = typing \cup {e.to} /\ timers' = [timers EXCEPT ![e.to] = {Timeout}]
        BY <1>2 DEF Indicator!Receive, Indicator!HandleTypingStart
  <2>2. timers' \in [Viewers -> SUBSET (1 .. Timeout)]
    <3>1. {Timeout} \in SUBSET (1 .. Timeout)
          OBVIOUS
    <3> QED
        BY <1>1, <2>1, <3>1 DEF TypingTypes
  <2>3. TypingTypes'
        BY <1>1, <2>1, <2>2 DEF TypingTypes
  <2>4. AnnouncedInTime' /\ quiet <= e.age
        BY <1>1, <1>2 DEF AnnouncedInTime
  <2>5. ASSUME NEW v \in Viewers PROVE ShownInTime(v)' /\ Lasts(v)'
    <3>1. CASE v = e.to
      <4>1. timers'[v] = {Timeout} /\ v \in typing'
            BY <2>1, <3>1 DEF TypingTypes
      <4>2. ShownInTime(v)'
            BY <1>1, <2>4, <4>1 DEF ShownInTime, TypingTypes
      <4> QED
          BY <1>1, <2>3, <4>1, <4>2, RestartedLasts
    <3>2. CASE v # e.to
      <4>1. timers'[v] = timers[v] /\ (v \in typing' <=> v \in typing)
            BY <2>1, <3>2 DEF TypingTypes
      <4>2. Toward(v)' = Toward(v)
            BY <1>1, <3>2 DEF Toward
      <4>3. MessagesPass(v)'
            BY <1>1 DEF Lasts, MessagesPass
      <4> QED
          BY <1>1, <4>1, <4>2, <4>3 DEF Lasts, ShownInTime, InSight, Announced, Due, Bridged, Runs
    <3> QED
        BY <3>1, <3>2
  <2> QED
      BY <2>3, <2>4, <2>5
<1>3. CASE e.event # "typing"
  <2>1. e.event = "message" /\ typing' = typing \ {e.to} /\ timers' = [timers EXCEPT ![e.to] = {}]
        BY <1>1, <1>3 DEF Indicator!Receive, Indicator!HandleTypingStop, Event
  <2>2. timers' \in [Viewers -> SUBSET (1 .. Timeout)]
        BY <1>1, <2>1 DEF TypingTypes
  <2>3. TypingTypes'
        BY <1>1, <2>1, <2>2 DEF TypingTypes
  <2>4. AnnouncedInTime'
        BY <1>1 DEF AnnouncedInTime
  <2>5. ASSUME NEW v \in Viewers PROVE ShownInTime(v)' /\ Lasts(v)'
    <3>1. InSight(v)' /\ MessagesPass(v)'
          BY <1>1 DEF Lasts, InSight, MessagesPass
    <3>2. CASE v = e.to
      <4>1. timers'[v] = {} /\ v \notin typing'
            BY <2>1, <3>2 DEF TypingTypes
      <4>2. steady'[v] <= Delay
            BY <1>1, <2>1, <3>2 DEF Lasts, MessagesPass, TypingTypes
      <4> QED
          BY <2>3, <3>1, <4>1, <4>2, BrieflyLasts DEF ShownInTime
    <3>3. CASE v # e.to
      <4>1. timers'[v] = timers[v] /\ (v \in typing' <=> v \in typing)
            BY <2>1, <3>3 DEF TypingTypes
      <4>2. Toward(v)' = Toward(v)
            BY <1>1, <3>3 DEF Toward
      <4> QED
          BY <1>1, <3>1, <4>1, <4>2 DEF Lasts, ShownInTime, Announced, Due, Bridged, Runs
    <3> QED
        BY <3>2, <3>3
  <2> QED
      BY <2>3, <2>4, <2>5
<1> QED
    BY <1>2, <1>3

\* A viewer that loads the page starts without a timer.
LEMMA TypingLoad ==
    ASSUME TypingInvariant, NEW u \in Viewers, Indicator!Load(u)
    PROVE  TypingInvariant'
<1> USE Seconds DEF TypingInvariant
<1>1. PICK dropped \in SUBSET {e \in wire : e.to = u} : wire' = wire \ dropped
      BY DEF Indicator!Load
<1>2. /\ typing' = typing \ {u} /\ timers' = [timers EXCEPT ![u] = {}]
      /\ steady' = [steady EXCEPT ![u] = 0]
      /\ UNCHANGED <<allowed, cooling, quiet, keyed>>
      BY DEF Indicator!Load, Indicator!HandleTypingStop
<1>3. TypingTypes'
  <2>1. timers' \in [Viewers -> SUBSET (1 .. Timeout)]
        BY <1>2 DEF TypingTypes
  <2>2. steady' \in [Viewers -> 0 .. Indicator!MaxSteady]
        BY <1>2 DEF TypingTypes
  <2> QED
      BY <1>1, <1>2, <2>1, <2>2 DEF TypingTypes
<1>4. AnnouncedInTime'
      BY <1>1, <1>2 DEF AnnouncedInTime
<1>5. ASSUME NEW v \in Viewers PROVE ShownInTime(v)' /\ Lasts(v)'
  <2>1. CASE v = u
    <3>1. timers'[v] = {} /\ v \notin typing' /\ steady'[v] = 0
          BY <1>2, <2>1 DEF TypingTypes
    <3> QED
        BY <1>3, <3>1, NothingLasts DEF ShownInTime
  <2>2. CASE v # u
    <3>1. timers'[v] = timers[v] /\ (v \in typing' <=> v \in typing) /\ steady'[v] = steady[v]
          BY <1>2, <2>2 DEF TypingTypes
    <3>2. Toward(v)' = Toward(v)
          BY <1>1, <2>2 DEF Toward
    <3>3. InSight(v)' /\ MessagesPass(v)'
          BY <1>1, <1>2, <3>1 DEF Lasts, InSight, MessagesPass
    <3> QED
        BY <1>2, <3>1, <3>2, <3>3 DEF Lasts, ShownInTime, Announced, Due, Bridged, Runs
  <2> QED
      BY <2>1, <2>2
<1> QED
    BY <1>3, <1>4, <1>5

\* Whose access changes, has to see the typist go on anew.
LEMMA TypingAccess ==
    ASSUME TypingInvariant, NEW u \in Viewers \cup {Typist}, Indicator!Access(u)
    PROVE  TypingInvariant'
<1> USE Seconds DEF TypingInvariant
<1>1. /\ allowed' = IF u \in allowed THEN allowed \ {u} ELSE allowed \cup {u}
      /\ steady' = [v \in Viewers |-> IF u \in {v, Typist} THEN 0 ELSE steady[v]]
      /\ UNCHANGED <<cooling, wire, typing, timers, quiet, keyed>>
      BY DEF Indicator!Access
<1>2. TypingTypes'
  <2>1. steady' \in [Viewers -> 0 .. Indicator!MaxSteady]
        BY <1>1 DEF TypingTypes
  <2> QED
      BY <1>1, <2>1 DEF TypingTypes
<1>3. AnnouncedInTime'
      BY <1>1 DEF AnnouncedInTime
<1>4. ASSUME NEW v \in Viewers PROVE ShownInTime(v)' /\ Lasts(v)'
  <2>1. ShownInTime(v)'
        BY <1>1 DEF ShownInTime
  <2>2. CASE u \in {v, Typist}
    <3>1. steady'[v] = 0
          BY <1>1, <2>2
    <3> QED
        BY <1>2, <2>1, <3>1, NothingLasts
  <2>3. CASE u \notin {v, Typist}
    <3>1. steady'[v] = steady[v]
          BY <1>1, <2>3
    <3>2. InSight(v)'
          BY <1>1, <2>3, <3>1 DEF Lasts, InSight
    <3>3. Toward(v)' = Toward(v) /\ MessagesPass(v)'
          BY <1>1, <3>1 DEF Toward, Lasts, MessagesPass
    <3> QED
        BY <1>1, <2>1, <3>1, <3>2, <3>3 DEF Lasts, Announced, Due, Bridged, Runs
  <2> QED
      BY <2>2, <2>3
<1> QED
    BY <1>2, <1>3, <1>4

\* A second passes for the events, the timers and the cooldown alike.
LEMMA TypingTick ==
    ASSUME TypingInvariant, Indicator!Tick
    PROVE  TypingInvariant'
<1> USE Seconds DEF TypingInvariant
<1> DEFINE Older(e) == [e EXCEPT !.age = @ + 1]
<1> DEFINE over == {v \in Viewers : 1 \in timers[v]}
<1>1. /\ \A e \in wire : e.age < Delay
      /\ wire' = {Older(e) : e \in wire}
      /\ cooling' = IF cooling = 0 THEN 0 ELSE cooling - 1
      /\ typing' = typing \ over
      /\ timers' = [v \in Viewers |-> IF v \in over THEN {} ELSE {t - 1 : t \in timers[v]}]
      /\ quiet' = IF quiet < Indicator!MaxQuiet THEN quiet + 1 ELSE quiet
      /\ keyed' = FALSE /\ allowed' = allowed
      BY DEF Indicator!Tick
<1>2. steady' = [v \in Viewers |->
                    IF ~(keyed /\ {v, Typist} \subseteq allowed) THEN 0
                    ELSE IF steady[v] < Indicator!MaxSteady THEN steady[v] + 1
                    ELSE Indicator!MaxSteady]
      BY DEF Indicator!Tick
<1>3. \A e \in wire : /\ Older(e) \in Event /\ Older(e).event = e.event /\ Older(e).to = e.to
                      /\ Older(e).age = e.age + 1 /\ e.age \in Nat
  <2> SUFFICES ASSUME NEW e \in wire
               PROVE  /\ Older(e) \in Event /\ Older(e).event = e.event /\ Older(e).to = e.to
                      /\ Older(e).age = e.age + 1 /\ e.age \in Nat
      OBVIOUS
  <2>1. e \in Event /\ {"event", "to", "age"} \subseteq DOMAIN e
        BY DEF TypingTypes, Event
  <2>2. e.age \in Nat /\ e.age + 1 \in 0 .. Delay
        BY <1>1, <2>1 DEF Event
  <2>3. Older(e) = [event |-> e.event, to |-> e.to, age |-> e.age + 1]
        BY <2>1 DEF Event
  <2> QED
      BY <2>1, <2>2, <2>3 DEF Event
<1> HIDE DEF Older
<1>4. TypingTypes'
  <2>1. timers' \in [Viewers -> SUBSET (1 .. Timeout)]
    <3>1. ASSUME NEW v \in Viewers \ over PROVE {t - 1 : t \in timers[v]} \subseteq 1 .. Timeout
      <4>1. timers[v] \subseteq 1 .. Timeout /\ 1 \notin timers[v]
            BY DEF TypingTypes
      <4> QED
          BY <4>1
    <3> QED
        BY <1>1, <3>1
  <2>2. steady' \in [Viewers -> 0 .. Indicator!MaxSteady]
        BY <1>2 DEF TypingTypes
  <2>3. wire' \subseteq Event
        BY <1>1, <1>3
  <2>4. cooling' \in 0 .. Cooldown /\ quiet' \in 0 .. (Timeout + Delay + 1)
        BY <1>1 DEF TypingTypes, Indicator!MaxQuiet
  <2>5. typing' \subseteq Viewers /\ allowed' \subseteq Viewers \cup {Typist} /\ keyed' \in BOOLEAN
        BY <1>1 DEF TypingTypes
  <2> QED
      BY <2>1, <2>2, <2>3, <2>4, <2>5 DEF TypingTypes
<1>5. quiet' <= quiet + 1 /\ quiet \in Nat /\ quiet' \in Nat
      BY <1>1 DEF TypingTypes
<1>6. AnnouncedInTime'
      BY <1>1, <1>3, <1>5 DEF AnnouncedInTime
<1>7. ASSUME NEW v \in Viewers PROVE ShownInTime(v)' /\ Lasts(v)'
  <2>1. /\ timers[v] \subseteq 1 .. Timeout /\ \A t, s \in timers[v] : t = s
        /\ v \in typing <=> timers[v] # {}
        /\ \A t \in timers[v] : quiet + t <= Timeout + Delay
        BY DEF TypingTypes, ShownInTime
  <2>2. timers'[v] = IF 1 \in timers[v] THEN {} ELSE {t - 1 : t \in timers[v]}
        BY <1>1
  <2>3. ShownInTime(v)'
    <3>1. v \in typing' <=> timers'[v] # {}
          BY <1>1, <2>1, <2>2
    <3>2. \A t \in timers'[v] : t + 1 \in timers[v] /\ t \in Nat
          BY <2>1, <2>2
    <3>3. \A t, s \in timers'[v] : t = s
          BY <2>1, <3>2
    <3>4. \A t \in timers'[v] : quiet' + t <= Timeout + Delay
          BY <1>5, <2>1, <3>2
    <3> QED
        BY <3>1, <3>3, <3>4 DEF ShownInTime
  <2>4. ASSUME NEW n \in Int, n >= 2, Runs(v, n) PROVE Runs(v, n - 1)'
    <3>1. PICK t \in timers[v] : t >= n
          BY <2>4 DEF Runs
    <3>2. 1 \notin timers[v] /\ t \in Nat
          BY <2>1, <2>4, <3>1
    <3>3. t - 1 \in timers'[v] /\ t - 1 >= n - 1
          BY <2>2, <3>1, <3>2
    <3> QED
        BY <3>3 DEF Runs
  <2>5. CASE steady'[v] = 0
        BY <1>4, <2>3, <2>5, NothingLasts
  <2>6. CASE steady'[v] # 0
    <3>1. /\ keyed /\ {v, Typist} \subseteq allowed
          /\ steady[v] \in Nat /\ steady'[v] \in Nat /\ steady'[v] <= steady[v] + 1
          BY <1>2, <2>6 DEF TypingTypes
    <3>2. InSight(v)'
          BY <1>1, <3>1 DEF InSight
    <3>3. MessagesPass(v)'
          BY <1>1, <1>3, <3>1 DEF Lasts, MessagesPass
    <3>4. /\ \A e \in Toward(v) : e \in wire /\ Older(e) \in Toward(v)' /\ e.age < Delay
          /\ Toward(v) = {} => Toward(v)' = {}
          /\ Toward(v)' = {} => Toward(v) = {}
          BY <1>1, <1>3 DEF Toward
    <3>5. Announced(v)'
      <4> SUFFICES ASSUME cooling' > 0, steady'[v] + cooling' > Cooldown + Delay
                   PROVE  \/ \E e \in Toward(v)' : e.age + cooling' = Cooldown
                          \/ \E t \in timers'[v] : t >= Timeout + cooling' - Cooldown
          BY DEF Announced, Runs
      <4>1. cooling \in Nat /\ cooling >= 2 /\ cooling' = cooling - 1
            BY <1>1 DEF TypingTypes
      <4>2. steady[v] + cooling > Cooldown + Delay
            BY <3>1, <4>1
      <4>3. \/ \E e \in Toward(v) : e.age + cooling = Cooldown
            \/ Runs(v, Timeout + cooling - Cooldown)
            BY <4>1, <4>2 DEF Lasts, Announced
      <4>4. ASSUME NEW e \in Toward(v), e.age + cooling = Cooldown
            PROVE  \E o \in Toward(v)' : o.age + cooling' = Cooldown
            BY <1>3, <3>4, <4>1, <4>4
      <4>5. ASSUME Runs(v, Timeout + cooling - Cooldown)
            PROVE  \E t \in timers'[v] : t >= Timeout + cooling' - Cooldown
        <5>1. PICK t \in timers[v] : t >= Timeout + cooling - Cooldown
              BY <4>5 DEF Runs
        <5>2. 1 \notin timers[v] /\ t \in Nat
              BY <2>1, <4>1, <5>1
        <5> QED
            BY <2>2, <4>1, <5>1, <5>2
      <4> QED
          BY <4>3, <4>4, <4>5
    <3>6. Due(v)'
      <4> SUFFICES ASSUME cooling' = 0, Toward(v)' = {}, steady'[v] > Cooldown + Delay
                   PROVE  Runs(v, Timeout - Cooldown)'
          BY <1>1 DEF Due
      <4> DEFINE n == Timeout - Cooldown + 1
      <4>1. Toward(v) = {} /\ steady[v] >= Cooldown + Delay /\ n \in Int /\ n >= 2
            BY <3>1, <3>4
      <4>2. cooling \in {0, 1}
            BY <1>1 DEF TypingTypes
      <4>3. Runs(v, n)
        <5>1. CASE cooling = 0
              BY <3>1, <4>1, <5>1 DEF Lasts, Due
        <5>2. CASE cooling = 1
          <6>1. Runs(v, Timeout + 1 - Cooldown)
                BY <3>1, <4>1, <5>2 DEF Lasts, Announced
          <6>2. Timeout + 1 - Cooldown = n
                OBVIOUS
          <6> QED
              BY <6>1, <6>2
        <5> QED
            BY <4>2, <5>1, <5>2
      <4>4. Runs(v, n - 1)' /\ n - 1 = Timeout - Cooldown
            BY <2>4, <4>1, <4>3
      <4> QED
          BY <4>4 DEF Runs
    <3>7. Bridged(v)'
      <4> SUFFICES ASSUME Toward(v)' # {}
                   PROVE  \E o \in Toward(v)' :
                              steady'[v] > Cooldown + Delay + o.age
                                  => \E t \in timers'[v] : t >= Timeout - Cooldown - o.age
          BY DEF Bridged, Runs
      <4>1. PICK e \in Toward(v) :
                steady[v] > Cooldown + Delay + e.age => Runs(v, Timeout - Cooldown - e.age)
            BY <3>4 DEF Lasts, Bridged
      <4>2. /\ e \in wire /\ Older(e) \in Toward(v)' /\ Older(e).age = e.age + 1
            /\ e.age \in Nat /\ e.age < Delay
            BY <1>3, <3>4
      <4>3. ASSUME steady'[v] > Cooldown + Delay + (e.age + 1)
            PROVE  Runs(v, Timeout - Cooldown - (e.age + 1))'
        <5> DEFINE n == Timeout - Cooldown - e.age
        <5>1. n \in Int /\ n >= 2 /\ n - 1 = Timeout - Cooldown - (e.age + 1)
              BY <4>2
        <5>2. Runs(v, n)
              BY <3>1, <4>1, <4>2, <4>3
        <5>3. Runs(v, n - 1)'
              BY <2>4, <5>1, <5>2
        <5> QED
            BY <5>1, <5>3 DEF Runs
      <4> QED
          BY <4>2, <4>3 DEF Runs
    <3> QED
        BY <2>3, <3>2, <3>3, <3>5, <3>6, <3>7 DEF Lasts
  <2> QED
      BY <2>5, <2>6
<1> QED
    BY <1>4, <1>6, <1>7

LEMMA TypingSteps == TypingInvariant /\ [Indicator!Next]_typingVars => TypingInvariant'
<1> SUFFICES ASSUME TypingInvariant, [Indicator!Next]_typingVars PROVE TypingInvariant'
    OBVIOUS
<1>1. CASE UNCHANGED typingVars
      BY <1>1 DEF typingVars, TypingInvariant, TypingTypes, AnnouncedInTime, ShownInTime, Lasts,
         InSight, MessagesPass, Announced, Due, Bridged, Toward, Runs
<1> QED
    BY <1>1, TypingKey, TypingEnter, TypingLeave, TypingBroadcast, TypingReceive, TypingLoad,
       TypingAccess, TypingTick DEF Indicator!Next

\* Nobody is shown as typing long after the last key, and who goes on typing is shown without a
\* break, for every cooldown, timeout and delay such that a cooldown and a delay are shorter
\* than the timeout (page.tsx:164-175, user-typing-store.ts:36-76).
THEOREM IndicatorTellsTheTruth == Spec => []IndicatorIsTimely
<1>1. Init => TypingInvariant
      BY TypingStarts DEF Init
<1>2. TypingInvariant /\ [Next]_vars => TypingInvariant'
      BY OneMoves, TypingSteps
<1>3. TypingInvariant => IndicatorIsTimely
  <2> SUFFICES ASSUME TypingInvariant, NEW v \in Viewers
               PROVE  /\ v \in typing => quiet <= Timeout + Delay
                      /\ steady[v] > Cooldown + 2 * Delay => v \in typing
      BY DEF IndicatorIsTimely, Indicator!IndicatorIsTimely
  <2> USE Seconds
  <2>1. /\ TypingTypes /\ ShownInTime(v) /\ Lasts(v) /\ 2 * Delay = Delay + Delay
        BY DEF TypingInvariant
  <2>2. v \in typing => quiet <= Timeout + Delay
        BY <2>1 DEF ShownInTime, TypingTypes
  <2>3. (\E n \in Int : Runs(v, n)) => v \in typing
        BY <2>1 DEF ShownInTime, Runs
  <2>4. ASSUME steady[v] > Cooldown + Delay + Delay PROVE \E n \in Int : Runs(v, n)
    <3>1. steady[v] \in Nat /\ cooling \in Nat
          BY <2>1 DEF TypingTypes
    <3>2. CASE Toward(v) # {}
      <4>1. PICK e \in Toward(v) :
                steady[v] > Cooldown + Delay + e.age => Runs(v, Timeout - Cooldown - e.age)
            BY <2>1, <3>2 DEF Lasts, Bridged
      <4>2. e.age \in 0 .. Delay
            BY <2>1 DEF TypingTypes, Toward, Event
      <4> QED
          BY <2>4, <3>1, <4>1, <4>2
    <3>3. CASE Toward(v) = {} /\ cooling = 0
          BY <2>1, <2>4, <3>1, <3>3 DEF Lasts, Due
    <3>4. CASE Toward(v) = {} /\ cooling > 0
          BY <2>1, <2>4, <3>1, <3>4 DEF Lasts, Announced
    <3> QED
        BY <3>1, <3>2, <3>3, <3>4
  <2> QED
      BY <2>1, <2>2, <2>3, <2>4
<1> QED
    BY <1>1, <1>2, <1>3, PTL DEF Spec

-----------------------------------------------------------------------------
(* Profiles.  Unless changes overlap, the row, what is announced last and what a client that *)
(* has taken every event shows are one.                                                      *)

Person == Profile!Profile

Change == [kind : {"status", "profile"}, id : Nat, step : {"sent", "save", "emit", "answered"},
           copy : Person, ok : BOOLEAN, heard : BOOLEAN,
           status : Statuses \cup {None}, before : Statuses \cup {None},
           name : Names \cup {""}, bio : Texts \cup {""}, pronouns : Texts \cup {""}]

Asked(r) ==
    IF r.kind = "status" THEN r.status \in Statuses
    ELSE r.name \in Names /\ r.bio \in Texts /\ r.pronouns \in Texts

ProfileTypes ==
    /\ row \in Person /\ wanted \in Person
    /\ queue \in Seq(Person)
    /\ mail \in [Clients -> Seq(Person)]
    /\ subscribed \subseteq Clients /\ missed \subseteq Clients
    /\ snapshot \in [Clients -> Person \cup {None}]
    /\ profile \in [Clients -> Person \cup {None}]
    /\ status \in Statuses \cup {None}
    /\ changed \in Nat /\ mixed \in BOOLEAN
    /\ changes \subseteq Change
    /\ \A r \in changes : Asked(r)

\* A client that loads is subscribed again once it shows the answer.
Sockets ==
    \A c \in Clients :
        IF c \in subscribed THEN snapshot[c] = None /\ profile[c] # None
        ELSE snapshot[c] # None /\ mail[c] = <<>>

\* The one change there is was made of the row, or to it.
ChangeIsCurrent(r) ==
    /\ r.heard
    /\ r.step = "save" => r.copy = Profile!Apply(r, row)
    /\ r.step = "emit" \/ r.ok => r.copy = row
    /\ r.step \in {"sent", "save", "emit"} => ~r.ok
    /\ IF r.kind = "status"
       THEN /\ status = r.status
            /\ row.status = IF r.step = "emit" \/ r.ok THEN r.status ELSE r.before
       ELSE status = row.status

OneChange ==
    /\ \A r, q \in changes : r = q
    /\ \A r \in changes : ChangeIsCurrent(r)
    /\ row = wanted
    /\ changes = {} => status \in {row.status, None}
    /\ IF profile[Me] = None THEN changes = {} /\ snapshot[Me] = row /\ status = None
       ELSE status # None

\* Unless the row has yet to be announced, the last announcement is of the row; and when all
\* are sent, so is the last that is on its way to a client, or else what the client shows.
AllAreTold ==
    (\A r \in changes : r.step # "emit") =>
        /\ queue # <<>> => queue[Len(queue)] = row
        /\ queue = <<>> => \A c \in Clients \ missed :
              /\ snapshot[c] \in {None, row}
              /\ IF mail[c] = <<>> THEN profile[c] \in {None, row} ELSE mail[c][Len(mail[c])] = row

ProfileInvariant == ProfileTypes /\ Sockets /\ (~mixed => OneChange /\ AllAreTold)

LEMMA ProfileConstants ==
    /\ Me \in Clients /\ Texts # {} /\ Statuses # {} /\ None \notin Statuses /\ None \notin Person
BY ComponentsAssumption DEF Person, Profile!Profile

LEMMA LastAppended ==
    ASSUME NEW S, NEW q \in Seq(S), NEW x \in S
    PROVE  Append(q, x) \in Seq(S) /\ Append(q, x) # <<>> /\ Append(q, x)[Len(Append(q, x))] = x
OBVIOUS

LEMMA LastStays ==
    ASSUME NEW S, NEW q \in Seq(S), q # <<>>
    PROVE  /\ Head(q) \in S /\ Tail(q) \in Seq(S)
           /\ Tail(q) = <<>> => Head(q) = q[Len(q)]
           /\ Tail(q) # <<>> => Tail(q)[Len(Tail(q))] = q[Len(q)]
<1>1. /\ Head(q) = q[1] /\ Tail(q) \in Seq(S) /\ Len(Tail(q)) = Len(q) - 1
      /\ Len(q) \in Nat \ {0} /\ q[1] \in S
      /\ \A i \in 1 .. (Len(q) - 1) : Tail(q)[i] = q[i + 1]
      OBVIOUS
<1>2. \A t \in Seq(S) : t = <<>> <=> Len(t) = 0
      OBVIOUS
<1>3. PICK rest : rest = Tail(q)
      OBVIOUS
<1>4. rest = <<>> <=> Len(q) = 1
      BY <1>1, <1>2, <1>3
<1> QED
    BY <1>1, <1>3, <1>4

\* What a change makes of a profile is a profile.
LEMMA AppliedIsPerson ==
    ASSUME NEW r \in Change, NEW p \in Person, Asked(r)
    PROVE  /\ Profile!Apply(r, p) \in Person
           /\ Profile!Apply(r, p).status = IF r.kind = "status" THEN r.status ELSE p.status
<1> USE DEF Asked
<1>1. p = [name |-> p.name, bio |-> p.bio, pronouns |-> p.pronouns, status |-> p.status]
      BY DEF Person, Profile!Profile
<1>2. CASE r.kind = "status"
  <2>1. Profile!Apply(r, p) = [name |-> p.name, bio |-> p.bio, pronouns |-> p.pronouns,
                               status |-> r.status]
        BY <1>1, <1>2 DEF Profile!Apply, Profile!ApplyStatus
  <2> QED
      BY <1>2, <2>1 DEF Person, Profile!Profile
<1>3. CASE r.kind # "status"
  <2> DEFINE n == IF r.name = "" THEN UserName ELSE r.name
  <2>1. Profile!Apply(r, p) = [name |-> n, bio |-> r.bio, pronouns |-> r.pronouns,
                               status |-> p.status]
        BY <1>1, <1>3 DEF Profile!Apply, Profile!ApplyProfile
  <2>2. n \in Names \cup {UserName} /\ r.bio \in Texts /\ r.pronouns \in Texts
        BY <1>3
  <2>3. p.status \in Statuses
        BY DEF Person, Profile!Profile
  <2> HIDE DEF n
  <2> QED
      BY <1>3, <2>1, <2>2, <2>3 DEF Person, Profile!Profile
<1> QED
    BY <1>2, <1>3

LEMMA ProfileStarts == Profile!Init => ProfileInvariant
<1> SUFFICES ASSUME Profile!Init PROVE ProfileInvariant
    OBVIOUS
<1> USE ProfileConstants DEF Profile!Init
<1>1. row \in Person
      BY DEF Person, Profile!Profile
<1>2. ProfileTypes
  <2>1. row.status \in Statuses
        BY <1>1 DEF Person, Profile!Profile
  <2>2. queue \in Seq(Person) /\ mail \in [Clients -> Seq(Person)] /\ <<>> \in Seq(Person)
        OBVIOUS
  <2>3. /\ snapshot \in [Clients -> Person \cup {None}]
        /\ profile \in [Clients -> Person \cup {None}]
        BY <1>1
  <2> QED
      BY <1>1, <2>1, <2>2, <2>3 DEF ProfileTypes
<1>3. Sockets
      BY <1>1 DEF Sockets
<1>4. OneChange /\ AllAreTold
      BY <1>1, <1>2 DEF OneChange, AllAreTold, ProfileTypes
<1> QED
    BY <1>2, <1>3, <1>4 DEF ProfileInvariant

\* A change that goes on asks for the same.
Same(n, r) ==
    /\ n \in Change
    /\ <<n.kind, n.status, n.before, n.name, n.bio, n.pronouns>> =
           <<r.kind, r.status, r.before, r.name, r.bio, r.pronouns>>

LEMMA ChangeIsRefused ==
    ASSUME NEW r \in Change, NEW n, n = [r EXCEPT !.step = "answered"]
    PROVE  Same(n, r) /\ n.heard = r.heard /\ n.step = "answered" /\ n.ok = r.ok /\ n.copy = r.copy
<1>1. {"kind", "id", "step", "copy", "ok", "heard", "status", "before", "name", "bio", "pronouns"}
          \subseteq DOMAIN r
      BY DEF Change
<1>2. n \in Change
      BY <1>1 DEF Change
<1>3. n.heard = r.heard /\ n.step = "answered" /\ n.ok = r.ok /\ n.copy = r.copy
      BY <1>1
<1>4. /\ n.kind = r.kind /\ n.status = r.status /\ n.before = r.before
      /\ n.name = r.name /\ n.bio = r.bio /\ n.pronouns = r.pronouns
      BY <1>1
<1> QED
    BY <1>2, <1>3, <1>4 DEF Same

LEMMA ChangeIsSaved ==
    ASSUME NEW r \in Change, NEW n, n = [r EXCEPT !.step = "emit"]
    PROVE  Same(n, r) /\ n.heard = r.heard /\ n.step = "emit" /\ n.ok = r.ok /\ n.copy = r.copy
<1>1. {"kind", "id", "step", "copy", "ok", "heard", "status", "before", "name", "bio", "pronouns"}
          \subseteq DOMAIN r
      BY DEF Change
<1>2. n \in Change
      BY <1>1 DEF Change
<1>3. n.heard = r.heard /\ n.step = "emit" /\ n.ok = r.ok /\ n.copy = r.copy
      BY <1>1
<1>4. /\ n.kind = r.kind /\ n.status = r.status /\ n.before = r.before
      /\ n.name = r.name /\ n.bio = r.bio /\ n.pronouns = r.pronouns
      BY <1>1
<1> QED
    BY <1>2, <1>3, <1>4 DEF Same

LEMMA ChangeIsAnswered ==
    ASSUME NEW r \in Change, NEW n, n = [r EXCEPT !.step = "answered", !.ok = TRUE]
    PROVE  Same(n, r) /\ n.heard = r.heard /\ n.step = "answered" /\ n.ok /\ n.copy = r.copy
<1>1. {"kind", "id", "step", "copy", "ok", "heard", "status", "before", "name", "bio", "pronouns"}
          \subseteq DOMAIN r
      BY DEF Change
<1>2. n \in Change
      BY <1>1 DEF Change
<1>3. n.heard = r.heard /\ n.step = "answered" /\ n.ok /\ n.copy = r.copy
      BY <1>1
<1>4. /\ n.kind = r.kind /\ n.status = r.status /\ n.before = r.before
      /\ n.name = r.name /\ n.bio = r.bio /\ n.pronouns = r.pronouns
      BY <1>1
<1> QED
    BY <1>2, <1>3, <1>4 DEF Same

LEMMA ChangeIsUnheard ==
    ASSUME NEW r \in Change, NEW n, n = [r EXCEPT !.heard = FALSE]
    PROVE  Same(n, r) /\ n.step = r.step
<1>1. {"kind", "id", "step", "copy", "ok", "heard", "status", "before", "name", "bio", "pronouns"}
          \subseteq DOMAIN r
      BY DEF Change
<1>2. n \in Change
      BY <1>1 DEF Change
<1>3. n.step = r.step
      BY <1>1
<1>4. /\ n.kind = r.kind /\ n.status = r.status /\ n.before = r.before
      /\ n.name = r.name /\ n.bio = r.bio /\ n.pronouns = r.pronouns
      BY <1>1
<1> QED
    BY <1>2, <1>3, <1>4 DEF Same

\* What a request does to the types of requests.
LEMMA RequestsGoOn ==
    ASSUME ProfileTypes, NEW r \in changes, NEW n, Same(n, r)
    PROVE  /\ Asked(r) /\ Asked(n) /\ r \in Change /\ n \in Change
           /\ \A p : Profile!Apply(n, p) = Profile!Apply(r, p)
           /\ \A q \in (changes \ {r}) \cup {n} : q \in Change /\ Asked(q)
<1>1. /\ n.kind = r.kind /\ n.status = r.status /\ n.before = r.before /\ n.name = r.name
      /\ n.bio = r.bio /\ n.pronouns = r.pronouns /\ n \in Change
      BY DEF Same
<1>2. \A q \in changes : q \in Change /\ Asked(q)
      BY DEF ProfileTypes, Asked
<1>3. Asked(n)
      BY <1>1, <1>2 DEF Asked
<1>4. \A p : Profile!Apply(n, p) = Profile!Apply(r, p)
      BY <1>1 DEF Profile!Apply, Profile!ApplyStatus, Profile!ApplyProfile
<1> QED
    BY <1>1, <1>2, <1>3, <1>4

\* The service reads the row, or refuses.
LEMMA ProfileFind ==
    ASSUME ProfileInvariant, NEW r \in changes, Profile!Find(r)
    PROVE  ProfileInvariant'
<1> USE ProfileConstants DEF ProfileInvariant
<1>1. r \in Change /\ Asked(r) /\ Profile!Apply(r, row) \in Person
      BY AppliedIsPerson DEF ProfileTypes
<1>2. /\ r.step = "sent"
      /\ UNCHANGED <<row, queue, mail, subscribed, snapshot, profile, status, changed, wanted,
                     mixed, missed>>
      BY DEF Profile!Find, Profile!serverVars, Profile!clientVars, Profile!boundVars
<1>3. PICK n : /\ changes' = (changes \ {r}) \cup {n} /\ Same(n, r) /\ n.heard = r.heard
               /\ n.ok = r.ok
               /\ n.step = "answered" \/ (n.step = "save" /\ n.copy = Profile!Apply(r, row))
  <2>1. PICK n : /\ changes' = (changes \ {r}) \cup {n}
                 /\ \/ n = [r EXCEPT !.step = "save", !.copy = Profile!Apply(r, row)]
                    \/ n = [r EXCEPT !.step = "answered"]
        BY DEF Profile!Find, Profile!Moves
  <2>2. CASE n = [r EXCEPT !.step = "save", !.copy = Profile!Apply(r, row)]
    <3>1. {"kind", "id", "step", "copy", "ok", "heard", "status", "before", "name", "bio",
           "pronouns"} \subseteq DOMAIN r
          BY <1>1 DEF Change
    <3>2. PICK p \in Person : p = Profile!Apply(r, row)
          BY <1>1
    <3>3. n = [r EXCEPT !.step = "save", !.copy = p]
          BY <2>2, <3>2
    <3>4. n \in Change
          BY <1>1, <3>1, <3>3 DEF Change
    <3>5. n.heard = r.heard /\ n.step = "save" /\ n.copy = p /\ n.ok = r.ok
          BY <3>1, <3>3
    <3>6. /\ n.kind = r.kind /\ n.status = r.status /\ n.before = r.before
          /\ n.name = r.name /\ n.bio = r.bio /\ n.pronouns = r.pronouns
          BY <3>1, <3>3
    <3> QED
        BY <2>1, <3>2, <3>4, <3>5, <3>6 DEF Same
  <2>3. CASE n = [r EXCEPT !.step = "answered"]
        BY <1>1, <2>1, <2>3, ChangeIsRefused
  <2> QED
      BY <2>1, <2>2, <2>3
<1>4. ProfileTypes'
      BY <1>2, <1>3, RequestsGoOn DEF ProfileTypes, Asked
<1>5. Sockets'
      BY <1>2 DEF Sockets
<1>6. ASSUME ~mixed' PROVE OneChange' /\ AllAreTold'
  <2>1. OneChange /\ AllAreTold /\ changes' = {n} /\ changes = {r}
        BY <1>2, <1>3, <1>6 DEF OneChange
  <2>2. ChangeIsCurrent(n)'
        BY <1>2, <1>3, <2>1, RequestsGoOn DEF OneChange, ChangeIsCurrent, Same
  <2>3. OneChange'
        BY <1>2, <2>1, <2>2 DEF OneChange
  <2>4. AllAreTold'
        BY <1>2, <2>1 DEF AllAreTold
  <2> QED
      BY <2>3, <2>4
<1> QED
    BY <1>4, <1>5, <1>6

\* The row is written, and has yet to be announced.
LEMMA ProfileSave ==
    ASSUME ProfileInvariant, NEW r \in changes, Profile!Save(r)
    PROVE  ProfileInvariant'
<1> USE ProfileConstants DEF ProfileInvariant
<1>1. r \in Change /\ Asked(r) /\ r.copy \in Person
      /\ Profile!Apply(r, row) \in Person /\ Profile!Apply(r, wanted) \in Person
      BY AppliedIsPerson DEF ProfileTypes, Change
<1>2. /\ r.step = "save" /\ row' = r.copy /\ wanted' = Profile!Apply(r, wanted)
      /\ UNCHANGED <<queue, mail, subscribed, snapshot, profile, status, changed, mixed, missed>>
      BY DEF Profile!Save, Profile!clientVars, Profile!boundVars
<1>3. PICK n : /\ changes' = (changes \ {r}) \cup {n} /\ Same(n, r) /\ n.heard = r.heard
               /\ n.ok = r.ok /\ n.step = "emit" /\ n.copy = r.copy
  <2>1. PICK n : changes' = (changes \ {r}) \cup {n} /\ n = [r EXCEPT !.step = "emit"]
        BY DEF Profile!Save, Profile!Moves
  <2> QED
      BY <1>1, <2>1, ChangeIsSaved
<1>4. ProfileTypes'
      BY <1>1, <1>2, <1>3, RequestsGoOn DEF ProfileTypes, Asked
<1>5. Sockets'
      BY <1>2 DEF Sockets
<1>6. ASSUME ~mixed' PROVE OneChange' /\ AllAreTold'
  <2>1. OneChange /\ changes' = {n} /\ changes = {r} /\ ChangeIsCurrent(r)
        BY <1>2, <1>3, <1>6 DEF OneChange
  <2>2. row' = Profile!Apply(r, row)
        BY <1>2, <2>1 DEF ChangeIsCurrent
  <2>3. row'.status = IF r.kind = "status" THEN r.status ELSE row.status
        BY <1>1, <2>2, AppliedIsPerson DEF ProfileTypes
  <2>4. ChangeIsCurrent(n)'
        BY <1>2, <1>3, <2>1, <2>3 DEF ChangeIsCurrent, Same
  <2>5. OneChange'
        BY <1>2, <2>1, <2>2, <2>4 DEF OneChange
  <2>6. AllAreTold'
        BY <1>3, <2>1 DEF AllAreTold
  <2> QED
      BY <2>5, <2>6
<1> QED
    BY <1>4, <1>5, <1>6

\* The row is announced.
LEMMA ProfileEmit ==
    ASSUME ProfileInvariant, NEW r \in changes, Profile!Emit(r)
    PROVE  ProfileInvariant'
<1> USE ProfileConstants DEF ProfileInvariant
<1>1. r \in Change /\ Asked(r) /\ r.copy \in Person
      BY DEF ProfileTypes, Change
<1>2. /\ r.step = "emit" /\ queue' = Append(queue, r.copy)
      /\ UNCHANGED <<row, mail, subscribed, snapshot, profile, status, changed, wanted, mixed,
                     missed>>
      BY DEF Profile!Emit, Profile!clientVars, Profile!boundVars
<1>3. PICK n : /\ changes' = (changes \ {r}) \cup {n} /\ Same(n, r) /\ n.heard = r.heard
               /\ n.ok /\ n.step = "answered" /\ n.copy = r.copy
  <2>1. PICK n : /\ changes' = (changes \ {r}) \cup {n}
                 /\ n = [r EXCEPT !.step = "answered", !.ok = TRUE]
        BY DEF Profile!Emit, Profile!Moves
  <2>2. /\ Same(n, r) /\ n.heard = r.heard /\ n.ok /\ n.step = "answered" /\ n.copy = r.copy
        BY <1>1, <2>1, ChangeIsAnswered
  <2> QED
      BY <2>1, <2>2
<1>4. queue' \in Seq(Person) /\ queue' # <<>> /\ queue'[Len(queue')] = r.copy
      BY <1>1, <1>2, LastAppended DEF ProfileTypes
<1>5. ProfileTypes'
      BY <1>2, <1>3, <1>4, RequestsGoOn DEF ProfileTypes, Asked
<1>6. Sockets'
      BY <1>2 DEF Sockets
<1>7. ASSUME ~mixed' PROVE OneChange' /\ AllAreTold'
  <2>1. OneChange /\ changes' = {n} /\ changes = {r} /\ ChangeIsCurrent(r)
        BY <1>2, <1>3, <1>7 DEF OneChange
  <2>2. ChangeIsCurrent(n)' /\ row' = r.copy
        BY <1>2, <1>3, <2>1 DEF ChangeIsCurrent, Same
  <2>3. OneChange'
        BY <1>2, <2>1, <2>2 DEF OneChange
  <2>4. AllAreTold'
        BY <1>4, <2>2 DEF AllAreTold
  <2> QED
      BY <2>3, <2>4
<1> QED
    BY <1>5, <1>6, <1>7

\* The gateway sends the announcement to whoever is subscribed by then.
LEMMA ProfileDeliver ==
    ASSUME ProfileInvariant, Profile!Deliver
    PROVE  ProfileInvariant'
<1> USE ProfileConstants DEF ProfileInvariant
<1>1. /\ queue # <<>> /\ queue' = Tail(queue)
      /\ mail' = [c \in Clients |->
                     IF c \in subscribed THEN Append(mail[c], Head(queue)) ELSE mail[c]]
      /\ missed' = missed \cup {c \in Clients \ subscribed : snapshot[c] # None}
      /\ UNCHANGED <<row, subscribed, changes, snapshot, profile, status, changed, wanted, mixed>>
      BY DEF Profile!Deliver, Profile!clientVars, Profile!boundVars
<1>2. /\ Head(queue) \in Person /\ Tail(queue) \in Seq(Person)
      /\ Tail(queue) = <<>> => Head(queue) = queue[Len(queue)]
      /\ Tail(queue) # <<>> => Tail(queue)[Len(Tail(queue))] = queue[Len(queue)]
      BY <1>1, LastStays DEF ProfileTypes
<1>3. ASSUME NEW c \in Clients
      PROVE  /\ mail'[c] \in Seq(Person)
             /\ c \in subscribed => mail'[c] # <<>> /\ mail'[c][Len(mail'[c])] = Head(queue)
             /\ c \notin subscribed => mail'[c] = mail[c]
  <2>1. mail[c] \in Seq(Person)
        BY DEF ProfileTypes
  <2>2. mail'[c] = IF c \in subscribed THEN Append(mail[c], Head(queue)) ELSE mail[c]
        BY <1>1
  <2> QED
      BY <1>2, <2>1, <2>2, LastAppended
<1>4. ProfileTypes'
  <2>1. mail' \in [Clients -> Seq(Person)]
        BY <1>1, <1>3
  <2>2. missed' \subseteq Clients
        BY <1>1 DEF ProfileTypes
  <2> QED
      BY <1>1, <1>2, <2>1, <2>2 DEF ProfileTypes, Asked
<1>5. Sockets'
      BY <1>1, <1>3 DEF Sockets
<1>6. ASSUME ~mixed' PROVE OneChange' /\ AllAreTold'
  <2>1. OneChange /\ AllAreTold
        BY <1>1, <1>6
  <2>2. OneChange'
        BY <1>1, <2>1 DEF OneChange, ChangeIsCurrent
  <2>3. ASSUME \A r \in changes : r.step # "emit", Tail(queue) = <<>>, NEW c \in Clients \ missed'
        PROVE  /\ snapshot[c] = None
               /\ mail'[c] # <<>> /\ mail'[c][Len(mail'[c])] = row
    <3>1. Head(queue) = row
          BY <1>1, <1>2, <2>1, <2>3 DEF AllAreTold
    <3>2. c \in subscribed /\ snapshot[c] = None
          BY <1>1, <2>3 DEF Sockets
    <3> QED
        BY <1>3, <3>1, <3>2
  <2>4. AllAreTold'
        BY <1>1, <1>2, <2>1, <2>3 DEF AllAreTold
  <2> QED
      BY <2>2, <2>4
<1> QED
    BY <1>4, <1>5, <1>6

\* A page is loaded: the answer holds the row as it is now.
LEMMA ProfileLoad ==
    ASSUME ProfileInvariant, NEW c \in Clients, Profile!Load(c)
    PROVE  ProfileInvariant'
<1> USE ProfileConstants DEF ProfileInvariant
<1>1. /\ subscribed' = subscribed \ {c} /\ missed' = missed \ {c}
      /\ mail' = [mail EXCEPT ![c] = <<>>]
      /\ snapshot' = [snapshot EXCEPT ![c] = row]
      /\ profile' = [profile EXCEPT ![c] = None]
      /\ UNCHANGED <<row, queue, changed, wanted>>
      BY DEF Profile!Load
<1>2. IF c = Me
      THEN /\ status' = None
           /\ changes' = {[r EXCEPT !.heard = FALSE] : r \in changes}
           /\ mixed' = (mixed \/ changes # {})
      ELSE UNCHANGED <<status, changes, mixed>>
      BY DEF Profile!Load
<1>3. \A r \in changes' : r \in Change /\ Asked(r)
  <2>1. CASE c = Me
    <3> SUFFICES ASSUME NEW r \in changes, NEW n, n = [r EXCEPT !.heard = FALSE]
                 PROVE  n \in Change /\ Asked(n)
        BY <1>2, <2>1
    <3>1. r \in Change /\ Asked(r) /\ Same(n, r)
          BY ChangeIsUnheard DEF ProfileTypes
    <3> QED
        BY <3>1 DEF Same, Asked
  <2>2. CASE c # Me
        BY <1>2, <2>2 DEF ProfileTypes
  <2> QED
      BY <2>1, <2>2
<1>4. ProfileTypes'
  <2>1. mail' \in [Clients -> Seq(Person)]
    <3>1. <<>> \in Seq(Person)
          OBVIOUS
    <3> QED
        BY <1>1, <3>1 DEF ProfileTypes
  <2>2. /\ snapshot' \in [Clients -> Person \cup {None}]
        /\ profile' \in [Clients -> Person \cup {None}]
        BY <1>1 DEF ProfileTypes
  <2>3. subscribed' \subseteq Clients /\ missed' \subseteq Clients
        BY <1>1 DEF ProfileTypes
  <2>4. status' \in Statuses \cup {None}
        BY <1>2 DEF ProfileTypes
  <2>5. mixed' \in BOOLEAN
    <3>1. CASE c = Me
          BY <1>2, <3>1
    <3>2. CASE c # Me
          BY <1>2, <3>2 DEF ProfileTypes
    <3> QED
        BY <3>1, <3>2
  <2> QED
      BY <1>1, <1>3, <2>1, <2>2, <2>3, <2>4, <2>5 DEF ProfileTypes
<1>5. /\ mail'[c] = <<>> /\ snapshot'[c] = row /\ profile'[c] = None /\ row # None
      /\ \A d \in Clients \ {c} : /\ mail'[d] = mail[d] /\ snapshot'[d] = snapshot[d]
                                  /\ profile'[d] = profile[d]
      BY <1>1 DEF ProfileTypes
<1>6. Sockets'
      BY <1>1, <1>5 DEF Sockets
<1>7. ASSUME ~mixed' PROVE OneChange' /\ AllAreTold'
  <2>1. ~mixed /\ changes' = changes /\ (c = Me => changes = {})
    <3>1. CASE c = Me
          BY <1>2, <1>7, <3>1
    <3>2. CASE c # Me
          BY <1>2, <1>7, <3>2
    <3> QED
        BY <3>1, <3>2
  <2>2. OneChange /\ AllAreTold
        BY <2>1
  <2>3. OneChange'
    <3>1. CASE c = Me
          BY <1>1, <1>2, <1>5, <2>1, <2>2, <3>1 DEF OneChange
    <3>2. CASE c # Me
          BY <1>1, <1>2, <1>5, <2>1, <2>2, <3>2 DEF OneChange, ChangeIsCurrent
    <3> QED
        BY <3>1, <3>2
  <2>4. AllAreTold'
        BY <1>1, <1>5, <2>1, <2>2 DEF AllAreTold
  <2> QED
      BY <2>3, <2>4
<1> QED
    BY <1>4, <1>6, <1>7

\* The answer is shown.
LEMMA ProfileShow ==
    ASSUME ProfileInvariant, NEW c \in Clients, Profile!Show(c)
    PROVE  ProfileInvariant'
<1> USE ProfileConstants DEF ProfileInvariant
<1>1. /\ snapshot[c] # None /\ profile[c] = None
      /\ profile' = [profile EXCEPT ![c] = snapshot[c]]
      /\ status' = IF c = Me THEN snapshot[c].status ELSE status
      /\ UNCHANGED <<row, queue, mail, subscribed, changes, snapshot, changed, wanted, mixed,
                     missed>>
      BY DEF Profile!Show, Profile!serverVars, Profile!boundVars
<1>2. snapshot[c] \in Person /\ snapshot[c].status \in Statuses
      BY <1>1 DEF ProfileTypes, Person, Profile!Profile
<1>3. /\ profile'[c] = snapshot[c] /\ profile' \in [Clients -> Person \cup {None}]
      /\ \A d \in Clients \ {c} : profile'[d] = profile[d]
      BY <1>1, <1>2 DEF ProfileTypes
<1>4. ProfileTypes'
      BY <1>1, <1>2, <1>3 DEF ProfileTypes, Asked
<1>5. Sockets'
      BY <1>1, <1>3 DEF Sockets
<1>6. ASSUME ~mixed' PROVE OneChange' /\ AllAreTold'
  <2>1. OneChange /\ AllAreTold
        BY <1>1, <1>6
  <2>2. OneChange'
    <3>1. CASE c = Me
          BY <1>1, <1>2, <1>3, <2>1, <3>1 DEF OneChange
    <3>2. CASE c # Me
          BY <1>1, <1>3, <2>1, <3>2 DEF OneChange, ChangeIsCurrent
    <3> QED
        BY <3>1, <3>2
  <2>3. mail[c] = <<>>
        BY <1>1 DEF Sockets
  <2>4. AllAreTold'
        BY <1>1, <1>3, <2>1, <2>3 DEF AllAreTold
  <2> QED
      BY <2>2, <2>4
<1> QED
    BY <1>4, <1>5, <1>6

\* A client that shows the answer subscribes.
LEMMA ProfileSubscribe ==
    ASSUME ProfileInvariant, NEW c \in Clients, Profile!SubscribeEvents(c)
    PROVE  ProfileInvariant'
<1> USE ProfileConstants DEF ProfileInvariant
<1>1. /\ snapshot[c] # None /\ profile[c] # None /\ subscribed' = subscribed \cup {c}
      /\ snapshot' = [snapshot EXCEPT ![c] = None]
      /\ UNCHANGED <<row, queue, mail, changes, profile, status, changed, wanted, mixed, missed>>
      BY DEF Profile!SubscribeEvents, Profile!boundVars
<1>2. /\ snapshot'[c] = None /\ snapshot' \in [Clients -> Person \cup {None}]
      /\ \A d \in Clients \ {c} : snapshot'[d] = snapshot[d]
      BY <1>1 DEF ProfileTypes
<1>3. ProfileTypes'
      BY <1>1, <1>2 DEF ProfileTypes, Asked
<1>4. Sockets'
      BY <1>1, <1>2 DEF Sockets
<1>5. ASSUME ~mixed' PROVE OneChange' /\ AllAreTold'
  <2>1. OneChange /\ AllAreTold
        BY <1>1, <1>5
  <2>2. OneChange'
        BY <1>1, <1>2, <2>1 DEF OneChange, ChangeIsCurrent
  <2>3. AllAreTold'
        BY <1>1, <1>2, <2>1 DEF AllAreTold
  <2> QED
      BY <2>2, <2>3
<1> QED
    BY <1>3, <1>4, <1>5

\* The profile store takes the next announcement.
LEMMA ProfileHandle ==
    ASSUME ProfileInvariant, NEW c \in Clients, Profile!HandleUserStatusUpdate(c)
    PROVE  ProfileInvariant'
<1> USE ProfileConstants DEF ProfileInvariant
<1>1. /\ mail[c] # <<>> /\ mail' = [mail EXCEPT ![c] = Tail(mail[c])]
      /\ profile' = [profile EXCEPT ![c] = IF profile[c] = None THEN None ELSE Head(mail[c])]
      /\ UNCHANGED <<row, queue, subscribed, changes, snapshot, status, changed, wanted, mixed,
                     missed>>
      BY DEF Profile!HandleUserStatusUpdate, Profile!Replace, Profile!boundVars
<1>2. /\ Head(mail[c]) \in Person /\ Tail(mail[c]) \in Seq(Person)
      /\ Tail(mail[c]) = <<>> => Head(mail[c]) = mail[c][Len(mail[c])]
      /\ Tail(mail[c]) # <<>> =>
            Tail(mail[c])[Len(Tail(mail[c]))] = mail[c][Len(mail[c])]
  <2>1. mail[c] \in Seq(Person)
        BY DEF ProfileTypes
  <2> QED
      BY <1>1, <2>1, LastStays
<1>3. c \in subscribed /\ snapshot[c] = None /\ profile[c] # None
      BY <1>1 DEF Sockets
<1>4. /\ mail' \in [Clients -> Seq(Person)] /\ mail'[c] = Tail(mail[c])
      /\ profile' \in [Clients -> Person \cup {None}] /\ profile'[c] = Head(mail[c])
      /\ \A d \in Clients \ {c} : mail'[d] = mail[d] /\ profile'[d] = profile[d]
      BY <1>1, <1>2, <1>3 DEF ProfileTypes
<1>5. ProfileTypes'
      BY <1>1, <1>4 DEF ProfileTypes, Asked
<1>6. Sockets'
      BY <1>1, <1>2, <1>3, <1>4 DEF Sockets
<1>7. ASSUME ~mixed' PROVE OneChange' /\ AllAreTold'
  <2>1. OneChange /\ AllAreTold
        BY <1>1, <1>7
  <2>2. profile'[Me] = None <=> profile[Me] = None
        BY <1>2, <1>3, <1>4
  <2>3. OneChange'
        BY <1>1, <2>1, <2>2 DEF OneChange, ChangeIsCurrent
  <2>4. ASSUME \A r \in changes : r.step # "emit", queue = <<>>, NEW d \in Clients \ missed
        PROVE  /\ snapshot[d] \in {None, row}
               /\ IF mail'[d] = <<>> THEN profile'[d] \in {None, row}
                  ELSE mail'[d][Len(mail'[d])] = row
        BY <1>1, <1>2, <1>3, <1>4, <2>1, <2>4 DEF AllAreTold
  <2>5. AllAreTold'
        BY <1>1, <2>1, <2>4 DEF AllAreTold
  <2> QED
      BY <2>3, <2>5
<1> QED
    BY <1>5, <1>6, <1>7

\* The answer to the form holds what the announcement does, and a refusal of a status brings
\* back the one before.
LEMMA ProfileAnswer ==
    ASSUME ProfileInvariant, NEW r \in changes, Profile!TakeAnswer(r)
    PROVE  ProfileInvariant'
<1> USE ProfileConstants DEF ProfileInvariant
<1>1. /\ r.step = "answered" /\ changes' = changes \ {r}
      /\ status' = IF r.heard /\ r.kind = "status" /\ ~r.ok THEN r.before ELSE status
      /\ UNCHANGED <<row, queue, mail, subscribed, snapshot, changed, wanted, mixed, missed>>
      BY DEF Profile!TakeAnswer, Profile!serverVars, Profile!boundVars
<1>2. \/ /\ r.heard /\ r.kind = "profile" /\ r.ok
         /\ profile' = [profile EXCEPT ![Me] = IF profile[Me] = None THEN None ELSE r.copy]
      \/ profile' = profile
      BY DEF Profile!TakeAnswer, Profile!Replace
<1>3. r \in Change /\ r.copy \in Person /\ r.before \in Statuses \cup {None}
      BY DEF ProfileTypes, Change
<1>4. /\ profile' \in [Clients -> Person \cup {None}]
      /\ profile'[Me] = None <=> profile[Me] = None
      /\ profile'[Me] = profile[Me] \/ (r.ok /\ profile'[Me] = r.copy)
      /\ \A d \in Clients \ {Me} : profile'[d] = profile[d]
      BY <1>2, <1>3 DEF ProfileTypes
<1>5. ProfileTypes'
      BY <1>1, <1>3, <1>4 DEF ProfileTypes, Asked
<1>6. Sockets'
      BY <1>1, <1>4 DEF Sockets
<1>7. ASSUME ~mixed' PROVE OneChange' /\ AllAreTold'
  <2>1. OneChange /\ AllAreTold /\ changes = {r} /\ changes' = {} /\ ChangeIsCurrent(r)
        BY <1>1, <1>7 DEF OneChange
  <2>2. profile[Me] # None /\ status # None /\ row.status \in Statuses
        BY <2>1 DEF OneChange, ProfileTypes, Person, Profile!Profile
  <2>3. status' = row.status
        BY <1>1, <2>1 DEF ChangeIsCurrent
  <2>4. OneChange'
        BY <1>1, <1>4, <2>1, <2>2, <2>3 DEF OneChange
  <2>5. \A d \in Clients : profile'[d] \in {profile[d], row}
        BY <1>4, <2>1 DEF ChangeIsCurrent
  <2>6. AllAreTold'
        BY <1>1, <2>1, <2>5 DEF AllAreTold
  <2> QED
      BY <2>4, <2>6
<1> QED
    BY <1>5, <1>6, <1>7

\* A change is asked for: it has the types of one, and begins with what the menu shows.
LEMMA ProfileAsks ==
    ASSUME ProfileInvariant, NEW n \in Change, Asked(n), Profile!Ask(n),
           profile[Me] # None, n.step = "sent", n.heard, ~n.ok,
           UNCHANGED <<row, queue, mail, subscribed, snapshot, profile, wanted, missed>>,
           IF n.kind = "status" THEN status' = n.status /\ n.before = status ELSE status' = status
    PROVE  ProfileInvariant'
<1> USE ProfileConstants DEF ProfileInvariant
<1>1. /\ changed' = changed + 1 /\ changes' = changes \cup {n}
      /\ mixed' = (mixed \/ changes # {})
      BY DEF Profile!Ask
<1>2. status' \in Statuses \cup {None}
      BY DEF ProfileTypes, Asked
<1>3. mixed' \in BOOLEAN
      BY <1>1
<1>4. ProfileTypes'
  <2>1. changed' \in Nat
        BY <1>1 DEF ProfileTypes
  <2>2. \A r \in changes' : r \in Change /\ Asked(r)
        BY <1>1 DEF ProfileTypes
  <2> QED
      BY <1>2, <1>3, <2>1, <2>2 DEF ProfileTypes
<1>5. Sockets'
      BY DEF Sockets
<1>6. ASSUME ~mixed' PROVE OneChange' /\ AllAreTold'
  <2>1. ~mixed /\ changes = {}
        BY <1>1, <1>6
  <2>2. OneChange /\ AllAreTold /\ changes' = {n}
        BY <1>1, <2>1
  <2>3. status = row.status /\ status # None
        BY <2>1, <2>2 DEF OneChange
  <2>4. ChangeIsCurrent(n)'
        BY <2>3 DEF ChangeIsCurrent
  <2>5. status' # None
        BY <2>3 DEF Asked
  <2>6. OneChange'
        BY <2>2, <2>4, <2>5 DEF OneChange
  <2>7. AllAreTold'
        BY <2>1, <2>2 DEF AllAreTold
  <2> QED
      BY <2>6, <2>7
<1> QED
    BY <1>4, <1>5, <1>6

\* What is filled into a request makes it a change.
LEMMA RequestIsChange ==
    ASSUME ProfileTypes, NEW kind \in {"status", "profile"}, NEW base,
           base = Profile!Request(kind)
    PROVE  /\ base \in Change /\ base.kind = kind /\ base.step = "sent" /\ base.heard /\ ~base.ok
           /\ {"kind", "id", "step", "copy", "ok", "heard", "status", "before", "name", "bio",
               "pronouns"} \subseteq DOMAIN base
<1>1. changed + 1 \in Nat /\ row \in Person
      BY DEF ProfileTypes
<1>2. base.kind = kind /\ base.step = "sent" /\ base.heard /\ ~base.ok
      BY DEF Profile!Request
<1>3. {"kind", "id", "step", "copy", "ok", "heard", "status", "before", "name", "bio",
       "pronouns"} \subseteq DOMAIN base
      BY DEF Profile!Request
<1>4. base \in Change
      BY <1>1 DEF Profile!Request, Change
<1> QED
    BY <1>2, <1>3, <1>4

LEMMA ProfileStatus ==
    ASSUME ProfileInvariant, NEW s \in Statuses, Profile!HandleUpdateStatus(s)
    PROVE  ProfileInvariant'
<1> USE DEF ProfileInvariant
<1>1. PICK base : base = Profile!Request("status")
      OBVIOUS
<1>2. PICK n : n = [base EXCEPT !.status = s, !.before = status]
      OBVIOUS
<1>3. /\ Profile!Ask(n) /\ profile[Me] # None /\ status' = s
      /\ UNCHANGED <<row, queue, mail, subscribed, snapshot, profile, wanted, missed>>
      BY <1>1, <1>2 DEF Profile!HandleUpdateStatus, Profile!serverVars
<1>4. /\ base \in Change /\ base.kind = "status" /\ base.step = "sent" /\ base.heard /\ ~base.ok
      /\ {"kind", "id", "step", "copy", "ok", "heard", "status", "before", "name", "bio",
          "pronouns"} \subseteq DOMAIN base
      BY <1>1, RequestIsChange
<1>5. n.kind = "status" /\ n.step = "sent" /\ n.heard /\ ~n.ok
      BY <1>2, <1>4
<1>6. n.status = s /\ n.before = status
      BY <1>2, <1>4
<1>7. n \in Change
  <2>1. status \in Statuses \cup {None}
        BY DEF ProfileTypes
  <2> QED
      BY <1>2, <1>4, <2>1 DEF Change
<1>8. Asked(n)
      BY <1>5, <1>6 DEF Asked
<1> QED
    BY <1>3, <1>5, <1>6, <1>7, <1>8, ProfileAsks

LEMMA ProfileForm ==
    ASSUME ProfileInvariant, NEW draft \in [name : Names, bio : Texts, pronouns : Texts],
           Profile!OnSaveChanges(draft)
    PROVE  ProfileInvariant'
<1> USE DEF ProfileInvariant
<1>1. PICK base : base = Profile!Request("profile")
      OBVIOUS
<1>2. PICK n : n = [base EXCEPT !.name = draft.name, !.bio = draft.bio, !.pronouns = draft.bio]
      OBVIOUS
<1>3. /\ Profile!Ask(n) /\ profile[Me] # None /\ status' = status
      /\ UNCHANGED <<row, queue, mail, subscribed, snapshot, profile, wanted, missed>>
      BY <1>1, <1>2 DEF Profile!OnSaveChanges, Profile!serverVars, Profile!clientVars
<1>4. /\ base \in Change /\ base.kind = "profile" /\ base.step = "sent" /\ base.heard /\ ~base.ok
      /\ {"kind", "id", "step", "copy", "ok", "heard", "status", "before", "name", "bio",
          "pronouns"} \subseteq DOMAIN base
      BY <1>1, RequestIsChange
<1>5. n.kind = "profile" /\ n.step = "sent" /\ n.heard /\ ~n.ok
      BY <1>2, <1>4
<1>6. n.name = draft.name /\ n.bio = draft.bio /\ n.pronouns = draft.bio
      BY <1>2, <1>4
<1>7. draft.name \in Names /\ draft.bio \in Texts
      OBVIOUS
<1>8. n \in Change
      BY <1>2, <1>4, <1>7 DEF Change
<1>9. Asked(n)
      BY <1>5, <1>6, <1>7 DEF Asked
<1> QED
    BY <1>3, <1>5, <1>8, <1>9, ProfileAsks

LEMMA ProfileSteps == ProfileInvariant /\ [Profile!Next]_profileVars => ProfileInvariant'
<1> SUFFICES ASSUME ProfileInvariant, [Profile!Next]_profileVars PROVE ProfileInvariant'
    OBVIOUS
<1>1. CASE UNCHANGED profileVars
      BY <1>1 DEF profileVars, ProfileInvariant, ProfileTypes, Asked, Sockets, OneChange,
         ChangeIsCurrent, AllAreTold
<1> QED
    BY <1>1, ProfileFind, ProfileSave, ProfileEmit, ProfileAnswer, ProfileDeliver, ProfileLoad,
       ProfileShow, ProfileSubscribe, ProfileHandle, ProfileStatus, ProfileForm DEF Profile!Next

\* Changes that never overlapped are stored and shown, for every number of clients and changes,
\* whichever way an answer and an announcement of one change overtake each other
\* (user-profiles.service.ts:110-180, 238-280).
THEOREM ProfilesComeToBeShown == Spec => []ProfileIsShown
<1>1. Init => ProfileInvariant
      BY ProfileStarts DEF Init
<1>2. ProfileInvariant /\ [Next]_vars => ProfileInvariant'
      BY OneMoves, ProfileSteps
<1>3. ProfileInvariant => ProfileIsShown
  <2> SUFFICES ASSUME ProfileInvariant, ~mixed, changes = {}
               PROVE  /\ row = wanted
                      /\ queue = <<>> => \A c \in Clients \ missed :
                            profile[c] # None /\ mail[c] = <<>> => profile[c] = row
                      /\ status \in {row.status, None}
      BY DEF ProfileIsShown, Profile!ProfileIsShown
  <2>1. OneChange /\ AllAreTold
        BY DEF ProfileInvariant
  <2> QED
      BY <2>1 DEF OneChange, AllAreTold
<1> QED
    BY <1>1, <1>2, <1>3, PTL DEF Spec

-----------------------------------------------------------------------------
(* The types of the invites and of the direct channels, which their invariants above do not  *)
(* say: what is stored and what clients show came in by a request and an answer, each of its *)
(* kind.                                                                                     *)

InvitesAreRows ==
    /\ members \subseteq Users /\ stored \subseteq TextChannels
    /\ \A i \in invites : i \in Invite!Invite /\ i.channel \in stored
    /\ \A i \in expired : i \in Invite!Invite /\ i.maxAge # Never

\* What an answer carries is what its request asked for.
Brings(r) ==
    /\ r.kind = "create" => r.channel \in TextChannels /\ r.maxAge \in MaxAges
    /\ r.step = "answered" /\ r.answer.success =>
          /\ r.kind = "create" => r.answer.data \in Invite!Invite
          /\ r.kind = "list" => r.answer.data \subseteq Invite!Invite

Dialog == [id : Users \X Nat, channel : TextChannels, screen : {"create-invite", "edit-invite"},
           settings : MaxAges, invite : Invite!Invite \cup {None}]

GuildIsShown ==
    /\ DOMAIN dialog = Users /\ DOMAIN listing = Users
    /\ \A u \in Users :
          /\ dialog[u] # None => dialog[u] \in Dialog
          /\ listing[u] # None => listing[u] \subseteq Invite!Invite
    /\ shown \subseteq Users /\ links \subseteq Invite!Invite

InviteTypes == InvitesAreRows /\ (\A r \in requests : Brings(r)) /\ GuildIsShown

LEMMA InviteIsTyped ==
    ASSUME InviteInvariant, InviteTypes
    PROVE  Invite!TypeOK
BY DEF InviteInvariant, RequestsAreApart, IsRequest, InviteTypes, InvitesAreRows, GuildIsShown,
       Dialog, Invite!TypeOK

LEMMA InviteTypesStart == Invite!Init => InviteTypes
BY DEF Invite!Init, InviteTypes, InvitesAreRows, GuildIsShown

\* An answer is of its request.
LEMMA AnswerBrings ==
    ASSUME NEW r \in requests, IsRequest(r), r.step # "answered", Brings(r), NEW answer,
           Invite!Answers(r, answer), \A q \in requests : Brings(q),
           answer.success =>
              /\ r.kind = "create" => answer.data \in Invite!Invite
              /\ r.kind = "list" => answer.data \subseteq Invite!Invite
    PROVE  \A q \in requests' : Brings(q)
<1>1. PICK n : Handled(r, n) /\ n.step = "answered" /\ n.answer = answer
      BY AnswersHandle
<1>2. Brings(n)
      BY <1>1 DEF Brings, Handled
<1> QED
    BY <1>1, <1>2 DEF Handled

LEMMA MoveBrings ==
    ASSUME NEW r \in requests, IsRequest(r), r.step # "answered", Brings(r),
           NEW step \in {"save", "load"},
           Invite!Moves(r, step), \A q \in requests : Brings(q)
    PROVE  \A q \in requests' : Brings(q)
<1> DEFINE n == [r EXCEPT !.step = step]
<1>1. Handled(r, n) /\ n.step = step
      BY MovesHandle
<1> HIDE DEF n
<1>2. Brings(n)
      BY <1>1 DEF Brings, Handled
<1> QED
    BY <1>1, <1>2 DEF Handled

LEMMA InviteTypesServed ==
    ASSUME InviteInvariant, InviteTypes, NEW r \in requests, Invite!Serve(r)
    PROVE  InviteTypes'
<1>1. IsRequest(r) /\ r.by \in Users /\ r.id \in Users \X Nat /\ Brings(r)
      BY DEF InviteInvariant, RequestsAreApart, IsRequest, InviteTypes
<1>2. UNCHANGED <<dialog, listing, shown, links, stored, expired>>
      BY DEF Invite!Serve, Invite!CreateFind, Invite!CreateSave, Invite!List, Invite!DeleteFind,
             Invite!DeleteSave, Invite!JoinFind, Invite!JoinSave, Invite!JoinLoad, Invite!Leave,
             Invite!serverVars, Invite!clientVars
<1>3. GuildIsShown'
      BY <1>2 DEF InviteTypes, GuildIsShown
<1>4. CASE Invite!CreateSave(r)
  <2> DEFINE new == [id |-> r.id, channel |-> r.channel, maxAge |-> r.maxAge]
  <2>1. r.kind = "create" /\ r.step = "save" /\ UNCHANGED members
        BY <1>4 DEF Invite!CreateSave, Invite!Handles
  <2>2. new \in Invite!Invite /\ new.channel = r.channel
        BY <1>1, <2>1 DEF Brings, Invite!Invite
  <2>3. \/ r.channel \in stored /\ invites' = invites \cup {new} /\ Invite!Answers(r, Invite!Ok(new))
        \/ invites' = invites /\ Invite!Answers(r, Invite!Failed)
        BY <1>4 DEF Invite!CreateSave
  <2> HIDE DEF new
  <2>4. InvitesAreRows'
        BY <1>2, <2>1, <2>2, <2>3 DEF InviteTypes, InvitesAreRows
  <2>5. \A q \in requests' : Brings(q)
        BY <1>1, <2>1, <2>2, <2>3, AnswerBrings, AnswersSucceed DEF InviteTypes
  <2> QED
      BY <1>3, <2>4, <2>5 DEF InviteTypes
<1>5. CASE ~Invite!CreateSave(r)
  <2>1. r.step # "answered" /\ invites' \subseteq invites
        BY <1>5 DEF Invite!Serve, Invite!CreateFind, Invite!List, Invite!DeleteFind,
             Invite!DeleteSave, Invite!JoinFind, Invite!JoinSave, Invite!JoinLoad, Invite!Leave,
             Invite!serverVars, Invite!Handles
  <2>2. members' \subseteq members \cup {r.by}
        BY <1>5 DEF Invite!Serve, Invite!CreateFind, Invite!List, Invite!DeleteFind,
             Invite!DeleteSave, Invite!JoinFind, Invite!JoinSave, Invite!JoinLoad, Invite!Leave,
             Invite!serverVars
  <2>3. InvitesAreRows'
        BY <1>1, <1>2, <2>1, <2>2 DEF InviteTypes, InvitesAreRows
  <2>4. \/ Invite!Moves(r, "save") \/ Invite!Moves(r, "load")
        \/ Invite!Answers(r, Invite!Failed)
        \/ r.kind \notin {"create", "list"} /\ Invite!Answers(r, Invite!Ok(None))
        \/ r.kind = "create" /\ \E i \in invites : Invite!Answers(r, Invite!Ok(i))
        \/ /\ r.kind = "list"
           /\ \E found \in SUBSET invites : Invite!Answers(r, Invite!Ok(found))
    <3>1. CASE Invite!CreateFind(r)
          BY <3>1 DEF Invite!CreateFind, Invite!Handles, Invite!Finds
    <3>2. CASE Invite!List(r)
      <4> DEFINE found == {i \in invites \ expired : r.channel \in {None, i.channel}}
      <4>1. found \in SUBSET invites
            OBVIOUS
      <4>2. Invite!Answers(r, Invite!Ok(found)) \/ Invite!Answers(r, Invite!Failed)
            BY <3>2 DEF Invite!List
      <4>3. r.kind = "list"
            BY <3>2 DEF Invite!List, Invite!Handles
      <4> HIDE DEF found
      <4> QED
          BY <4>1, <4>2, <4>3
    <3>3. CASE Invite!DeleteFind(r) \/ Invite!DeleteSave(r)
          BY <3>3 DEF Invite!DeleteFind, Invite!DeleteSave, Invite!Handles
    <3>4. CASE Invite!JoinFind(r) \/ Invite!JoinSave(r) \/ Invite!JoinLoad(r) \/ Invite!Leave(r)
          BY <3>4 DEF Invite!JoinFind, Invite!JoinSave, Invite!JoinLoad, Invite!Leave,
                      Invite!Handles
    <3> QED
        BY <1>5, <3>1, <3>2, <3>3, <3>4 DEF Invite!Serve
  <2>5. invites \subseteq Invite!Invite
        BY DEF InviteTypes, InvitesAreRows
  <2>6. \A q \in requests' : Brings(q)
        BY <1>1, <2>1, <2>4, <2>5, MoveBrings, AnswerBrings, AnswersSucceed DEF InviteTypes
  <2> QED
      BY <1>3, <2>3, <2>6 DEF InviteTypes
<1> QED
    BY <1>4, <1>5

LEMMA InviteTypesReceived ==
    ASSUME InviteInvariant, InviteTypes, NEW r \in requests, Invite!Receive(r)
    PROVE  InviteTypes'
<1>1. r.by \in Users /\ Brings(r)
      BY DEF InviteInvariant, RequestsAreApart, IsRequest, InviteTypes
<1>2. /\ UNCHANGED <<members, stored, invites, expired>> /\ requests' = requests \ {r}
      /\ r.step = "answered"
      BY DEF Invite!Receive, Invite!TakeInvite, Invite!TakeList, Invite!TakeMembership,
             Invite!TakeDeletion, Invite!serverVars, Invite!Handles
<1>3. InvitesAreRows' /\ \A q \in requests' : Brings(q)
      BY <1>2 DEF InviteTypes, InvitesAreRows
<1>4. GuildIsShown
      BY DEF InviteTypes
<1>5. CASE Invite!TakeInvite(r)
  <2>1. UNCHANGED <<listing, shown>> /\ r.kind = "create"
        BY <1>5 DEF Invite!TakeInvite, Invite!Handles
  <2>2. links' \subseteq Invite!Invite
        BY <1>1, <1>2, <1>4, <1>5, <2>1 DEF Invite!TakeInvite, Brings, GuildIsShown
  <2>3. DOMAIN dialog' = Users
        BY <1>4, <1>5 DEF Invite!TakeInvite, GuildIsShown
  <2>4. ASSUME NEW u \in Users, dialog'[u] # None PROVE dialog'[u] \in Dialog
    <3>1. CASE u = r.by /\ dialog[u] # None /\ dialog[u].id = r.dialog
      <4>1. PICK d : d = dialog[u]
            OBVIOUS
      <4>2. d \in Dialog
            BY <1>4, <3>1, <4>1 DEF GuildIsShown
      <4>3. PICK i : i = IF r.answer.success THEN r.answer.data
                         ELSE IF r.id = r.dialog THEN None ELSE d.invite
            OBVIOUS
      <4>4. i \in Invite!Invite \cup {None}
            BY <1>1, <1>2, <2>1, <4>2, <4>3 DEF Brings, Dialog
      <4>5. PICK s : s = IF r.id = r.dialog THEN d.screen ELSE "create-invite"
            OBVIOUS
      <4>6. dialog' = [dialog EXCEPT ![u] = [[d EXCEPT !.invite = i] EXCEPT !.screen = s]]
            BY <1>4, <1>5, <3>1, <4>1, <4>2, <4>3, <4>5 DEF Invite!TakeInvite, GuildIsShown, Dialog
      <4>7. [[d EXCEPT !.invite = i] EXCEPT !.screen = s] \in Dialog
            BY <4>2, <4>4, <4>5 DEF Dialog
      <4> QED
          BY <1>4, <4>6, <4>7 DEF GuildIsShown
    <3>2. CASE ~(u = r.by /\ dialog[u] # None /\ dialog[u].id = r.dialog)
      <4>1. dialog'[u] = dialog[u]
            BY <1>4, <1>5, <3>2 DEF Invite!TakeInvite, GuildIsShown
      <4> QED
          BY <1>4, <2>4, <4>1 DEF GuildIsShown
    <3> QED
        BY <3>1, <3>2
  <2> QED
      BY <1>3, <1>4, <2>1, <2>2, <2>3, <2>4 DEF InviteTypes, GuildIsShown
<1>6. CASE Invite!TakeList(r)
  <2>1. UNCHANGED <<dialog, shown>> /\ r.kind = "list"
        BY <1>6 DEF Invite!TakeList, Invite!Handles
  <2>2. r.answer.success => r.answer.data \subseteq Invite!Invite
        BY <1>1, <1>2, <2>1 DEF Brings
  <2>3. GuildIsShown'
        BY <1>1, <1>4, <1>6, <2>1, <2>2 DEF Invite!TakeList, GuildIsShown
  <2> QED
      BY <1>3, <2>3 DEF InviteTypes
<1>7. CASE Invite!TakeMembership(r)
  <2>1. GuildIsShown'
        BY <1>1, <1>4, <1>7 DEF Invite!TakeMembership, GuildIsShown
  <2> QED
      BY <1>3, <2>1 DEF InviteTypes
<1>8. CASE Invite!TakeDeletion(r)
  <2>1. GuildIsShown'
        BY <1>4, <1>8 DEF Invite!TakeDeletion, Invite!clientVars, GuildIsShown
  <2> QED
      BY <1>3, <2>1 DEF InviteTypes
<1> QED
    BY <1>5, <1>6, <1>7, <1>8 DEF Invite!Receive

LEMMA AskingBrings ==
    ASSUME InviteTypes, NEW u, NEW kind, NEW channel, NEW maxAge, NEW invite,
           Invite!Ask(u, kind, channel, maxAge, invite),
           kind = "create" => channel \in TextChannels /\ maxAge \in MaxAges
    PROVE  \A q \in requests' : Brings(q)
<1> DEFINE new(d) == [by |-> u, kind |-> kind, step |-> "sent", id |-> <<u, made[u] + 1>>,
                      channel |-> channel, maxAge |-> maxAge, invite |-> invite,
                      answer |-> None, dialog |-> d]
<1>1. PICK d : requests' = requests \cup {new(d)}
      BY DEF Invite!Ask
<1>2. PICK n : n = new(d)
      OBVIOUS
<1>3. Brings(n)
      BY <1>2 DEF Brings
<1> QED
    BY <1>1, <1>2, <1>3 DEF InviteTypes

LEMMA InviteTypesClicked ==
    ASSUME InviteInvariant, InviteTypes, NEW u \in Users, Invite!Click(u)
    PROVE  InviteTypes'
<1>1. UNCHANGED <<members, stored, invites, expired, shown, links>>
      BY DEF Invite!Click, Invite!OpenDialog, Invite!EditLink, Invite!GenerateLink,
             Invite!CloseDialog, Invite!OpenList, Invite!CloseList, Invite!Revoke,
             Invite!FollowLink, Invite!LeaveGuild, Invite!serverVars, Invite!clientVars
<1>2. InvitesAreRows'
      BY <1>1 DEF InviteTypes, InvitesAreRows
<1>3. GuildIsShown
      BY DEF InviteTypes
<1>4. ASSUME NEW c \in TextChannels, Invite!OpenDialog(u, c) PROVE InviteTypes'
  <2>1. \A q \in requests' : Brings(q)
        BY <1>4, AskingBrings, ComponentsAssumption DEF Invite!OpenDialog
  <2>2. PICK d : d = [id |-> <<u, made[u] + 1>>, channel |-> c, screen |-> "create-invite",
                      settings |-> Default, invite |-> None]
        OBVIOUS
  <2>3. <<u, made[u] + 1>> \in Users \X Nat
        BY DEF InviteInvariant, RequestsAreApart
  <2>4. d \in Dialog
        BY <2>2, <2>3, ComponentsAssumption DEF Dialog
  <2>5. dialog' = [dialog EXCEPT ![u] = d] /\ UNCHANGED listing
        BY <1>4, <2>2 DEF Invite!OpenDialog
  <2>6. GuildIsShown'
        BY <1>1, <1>3, <2>4, <2>5 DEF GuildIsShown
  <2> QED
      BY <1>2, <2>1, <2>6 DEF InviteTypes
<1>5. CASE Invite!EditLink(u)
  <2>1. UNCHANGED <<requests, listing>> /\ dialog[u] # None
        BY <1>5 DEF Invite!EditLink
  <2>2. PICK d : d = dialog[u]
        OBVIOUS
  <2>3. d \in Dialog
        BY <1>3, <2>1, <2>2 DEF GuildIsShown
  <2>4. \/ \E s \in {"create-invite", "edit-invite"} :
              dialog' = [dialog EXCEPT ![u] = [d EXCEPT !.screen = s]]
        \/ \E age \in MaxAges : dialog' = [dialog EXCEPT ![u] = [d EXCEPT !.settings = age]]
        BY <1>5, <2>2 DEF Invite!EditLink
  <2>5. /\ \A s \in {"create-invite", "edit-invite"} : [d EXCEPT !.screen = s] \in Dialog
        /\ \A age \in MaxAges : [d EXCEPT !.settings = age] \in Dialog
        BY <2>3 DEF Dialog
  <2>6. \E e \in Dialog : dialog' = [dialog EXCEPT ![u] = e]
        BY <2>4, <2>5
  <2>7. GuildIsShown'
        BY <1>1, <1>3, <2>1, <2>6 DEF GuildIsShown
  <2> QED
      BY <1>2, <2>1, <2>7 DEF InviteTypes
<1>6. CASE Invite!GenerateLink(u)
  <2>1. dialog[u] \in Dialog
        BY <1>3, <1>6 DEF Invite!GenerateLink, GuildIsShown
  <2>2. dialog[u].channel \in TextChannels /\ dialog[u].settings \in MaxAges
        BY <2>1 DEF Dialog
  <2>3. \A q \in requests' : Brings(q)
        BY <1>6, <2>2, AskingBrings DEF Invite!GenerateLink
  <2>4. GuildIsShown'
        BY <1>3, <1>6 DEF GuildIsShown, Invite!GenerateLink, Invite!clientVars
  <2> QED
      BY <1>2, <2>3, <2>4 DEF InviteTypes
<1>7. CASE Invite!CloseDialog(u) \/ Invite!CloseList(u)
  <2>1. GuildIsShown' /\ UNCHANGED requests
        BY <1>1, <1>3, <1>7 DEF GuildIsShown, Invite!CloseDialog, Invite!CloseList
  <2> QED
      BY <1>2, <2>1 DEF InviteTypes
<1>8. ASSUME NEW c \in TextChannels \cup {None}, Invite!OpenList(u, c) PROVE InviteTypes'
  <2>1. \A q \in requests' : Brings(q)
        BY <1>8, AskingBrings DEF Invite!OpenList
  <2>2. GuildIsShown'
        BY <1>1, <1>3, <1>8 DEF GuildIsShown, Invite!OpenList
  <2> QED
      BY <1>2, <2>1, <2>2 DEF InviteTypes
<1>9. CASE Invite!Revoke(u) \/ Invite!FollowLink(u) \/ Invite!LeaveGuild(u)
  <2>1. PICK kind \in {"delete", "join", "leave"} :
            \E i : Invite!Ask(u, kind, None, None, i)
        BY <1>9 DEF Invite!Revoke, Invite!FollowLink, Invite!LeaveGuild
  <2>2. \A q \in requests' : Brings(q)
        BY <2>1, AskingBrings
  <2>3. GuildIsShown'
        BY <1>3, <1>9 DEF GuildIsShown, Invite!Revoke, Invite!FollowLink, Invite!LeaveGuild,
                          Invite!clientVars
  <2> QED
      BY <1>2, <2>2, <2>3 DEF InviteTypes
<1> QED
    BY <1>4, <1>5, <1>6, <1>7, <1>8, <1>9 DEF Invite!Click

LEMMA InviteTypesStay ==
    ASSUME InviteInvariant, InviteTypes, [Invite!Next]_inviteVars
    PROVE  InviteTypes'
<1>1. ASSUME NEW c \in TextChannels, Invite!DeleteChannel(c) PROVE InviteTypes'
  <2>1. UNCHANGED <<members, expired, requests, dialog, listing, shown, links>>
        /\ stored' = stored \ {c} /\ invites' = {i \in invites : i.channel # c}
        BY <1>1 DEF Invite!DeleteChannel, Invite!clientVars
  <2> QED
      BY <2>1 DEF InviteTypes, InvitesAreRows, GuildIsShown
<1>2. ASSUME NEW i \in invites, Invite!Expire(i) PROVE InviteTypes'
  <2>1. UNCHANGED <<members, stored, invites, requests, dialog, listing, shown, links>>
        /\ expired' = expired \cup {i} /\ i.maxAge # Never
        BY <1>2 DEF Invite!Expire, Invite!clientVars
  <2> QED
      BY <2>1 DEF InviteTypes, InvitesAreRows, GuildIsShown
<1>3. CASE UNCHANGED inviteVars
      BY <1>3 DEF inviteVars, InviteTypes, InvitesAreRows, GuildIsShown
<1> QED
    BY <1>1, <1>2, <1>3, InviteTypesServed, InviteTypesReceived, InviteTypesClicked
       DEF Invite!Next

OrdersAreTyped ==
    /\ ordered \in [Users -> Nat]
    /\ \A r \in orders :
          /\ r \in Order /\ r.id \in Direct!Id /\ r.by # r.with
          /\ r.step = "recipients" => r.id \in channels

DirectRows == channels \subseteq Direct!Id /\ recipients \subseteq channels \X Users

With(u) == [id : Direct!Id, with : Users \ {u}]

ChannelsAreShown ==
    /\ DOMAIN known = Users /\ DOMAIN queried = Users
    /\ \A u \in Users :
          known[u] \subseteq With(u) /\ (queried[u] = None \/ queried[u] \subseteq With(u))

DirectTypes == OrdersAreTyped /\ DirectRows /\ ChannelsAreShown

LEMMA RowsAreShown ==
    ASSUME DirectRows, NEW u \in Users
    PROVE  Direct!GetDMChannels(u) \subseteq With(u)
<1> SUFFICES ASSUME NEW c \in Direct!GetDMChannels(u) PROVE c \in With(u)
    OBVIOUS
<1>1. PICK p \in recipients : p[2] # u /\ c = [id |-> p[1], with |-> p[2]]
      BY DEF Direct!GetDMChannels
<1>2. p[1] \in Direct!Id /\ p[2] \in Users
      BY DEF DirectRows
<1> QED
    BY <1>1, <1>2 DEF With

LEMMA OrderGoesOn ==
    ASSUME OrdersAreTyped, NEW r \in orders, UNCHANGED ordered, channels \subseteq channels',
           NEW n \in Order, n.id = r.id /\ n.by = r.by /\ n.with = r.with,
           n.step = "recipients" => r.id \in channels',
           orders' \subseteq orders \cup {n}
    PROVE  OrdersAreTyped'
BY DEF OrdersAreTyped

LEMMA DirectServes ==
    ASSUME DirectTypes, NEW r \in orders,
           Direct!Find(r) \/ Direct!SaveChannel(r) \/ Direct!SaveRecipients(r)
    PROVE  DirectTypes'
<1>1. r \in Order /\ r.id \in Direct!Id /\ UNCHANGED <<ordered, known, queried>>
      BY DEF DirectTypes, OrdersAreTyped, Direct!Find, Direct!SaveChannel, Direct!SaveRecipients,
             Direct!clientVars, Direct!boundVars
<1>2. ChannelsAreShown'
      BY <1>1 DEF DirectTypes, ChannelsAreShown
<1>3. CASE Direct!Find(r)
  <2>1. PICK n \in {[r EXCEPT !.step = "answered", !.ok = FALSE], [r EXCEPT !.step = "channel"]} :
            orders' = (orders \ {r}) \cup {n}
        BY <1>3 DEF Direct!Find, Direct!Answers, Direct!Moves
  <2>2. n \in Order /\ n.id = r.id /\ n.by = r.by /\ n.with = r.with /\ n.step # "recipients"
        BY <1>1, <2>1 DEF Order
  <2>3. UNCHANGED <<channels, recipients>>
        BY <1>3 DEF Direct!Find, Direct!dbVars
  <2> QED
      BY <1>1, <1>2, <2>1, <2>2, <2>3, OrderGoesOn DEF DirectTypes, DirectRows
<1>4. CASE Direct!SaveChannel(r)
  <2>1. PICK n : n = [r EXCEPT !.step = "recipients"]
        OBVIOUS
  <2>2. n \in Order /\ n.id = r.id /\ n.by = r.by /\ n.with = r.with
        BY <1>1, <2>1 DEF Order
  <2>3. /\ orders' = (orders \ {r}) \cup {n} /\ channels' = channels \cup {r.id}
        /\ UNCHANGED recipients
        BY <1>4, <2>1 DEF Direct!SaveChannel, Direct!Moves
  <2>4. OrdersAreTyped'
        BY <1>1, <2>2, <2>3, OrderGoesOn DEF DirectTypes
  <2> QED
      BY <1>1, <1>2, <2>3, <2>4 DEF DirectTypes, DirectRows
<1>5. CASE Direct!SaveRecipients(r)
  <2>1. PICK n \in {[r EXCEPT !.step = "answered", !.ok = TRUE],
                    [r EXCEPT !.step = "answered", !.ok = FALSE]} :
            /\ orders' = (orders \ {r}) \cup {n}
            /\ \/ recipients' = recipients \cup {<<r.id, r.by>>, <<r.id, r.with>>}
               \/ UNCHANGED recipients
        BY <1>5 DEF Direct!SaveRecipients, Direct!Answers
  <2>2. n \in Order /\ n.id = r.id /\ n.by = r.by /\ n.with = r.with /\ n.step # "recipients"
        BY <1>1, <2>1 DEF Order
  <2>3. UNCHANGED channels /\ r.step = "recipients"
        BY <1>5 DEF Direct!SaveRecipients
  <2>4. r.id \in channels /\ r.by \in Users /\ r.with \in Users
        BY <1>1, <2>3 DEF DirectTypes, OrdersAreTyped, Order
  <2>5. OrdersAreTyped'
        BY <1>1, <2>1, <2>2, <2>3, OrderGoesOn DEF DirectTypes
  <2> QED
      BY <1>2, <2>1, <2>3, <2>4, <2>5 DEF DirectTypes, DirectRows
<1> QED
    BY <1>3, <1>4, <1>5

LEMMA DirectAsks ==
    ASSUME DirectTypes, NEW u \in Users, NEW v \in Users \ {u},
           Direct!MessageButton(u, v) \/ Direct!MessageItem(u, v)
    PROVE  DirectTypes'
<1>1. PICK kind \in {"button", "menu"} : Direct!Ask(u, v, kind)
      BY DEF Direct!MessageButton, Direct!MessageItem
<1>2. UNCHANGED <<channels, recipients, known, queried>>
      BY DEF Direct!MessageButton, Direct!MessageItem, Direct!dbVars, Direct!clientVars
<1>3. PICK id : id = <<u, ordered[u] + 1>>
      OBVIOUS
<1>4. PICK n : n = [by |-> u, with |-> v, kind |-> kind, id |-> id, step |-> "sent", ok |-> FALSE,
                    heard |-> TRUE]
      OBVIOUS
<1>5. ordered[u] \in Nat /\ MaxOrders[u] \in Nat /\ ordered[u] < MaxOrders[u]
      BY <1>1, ComponentsAssumption DEF DirectTypes, OrdersAreTyped, Direct!Ask
<1>6. id \in Direct!Id /\ id \in Users \X Nat
  <2>1. ordered[u] + 1 \in 1 .. MaxOrders[u]
        BY <1>5
  <2> QED
      BY <1>3, <1>5, <2>1 DEF Direct!Id
<1>7. n \in Order /\ n.id \in Direct!Id /\ n.by # n.with /\ n.step = "sent"
      BY <1>4, <1>6 DEF Order
<1>8. orders' = orders \cup {n} /\ ordered' = [ordered EXCEPT ![u] = @ + 1]
      BY <1>1, <1>3, <1>4 DEF Direct!Ask
<1>9. OrdersAreTyped'
      BY <1>2, <1>5, <1>7, <1>8 DEF DirectTypes, OrdersAreTyped
<1> QED
    BY <1>2, <1>9 DEF DirectTypes, DirectRows, ChannelsAreShown

LEMMA DirectShows ==
    ASSUME DirectTypes,
           \/ \E r \in orders : Direct!TakeAnswer(r)
           \/ \E u \in Users : Direct!OpenMenu(u) \/ Direct!Load(u)
    PROVE  DirectTypes'
<1>1. UNCHANGED <<channels, recipients, ordered>>
      BY DEF Direct!TakeAnswer, Direct!OpenMenu, Direct!Load, Direct!dbVars, Direct!boundVars
<1>2. DirectRows'
      BY <1>1 DEF DirectTypes, DirectRows
<1>3. ASSUME NEW r \in orders, Direct!TakeAnswer(r) PROVE DirectTypes'
  <2>1. r \in Order /\ r.id \in Direct!Id /\ r.by # r.with
        BY DEF DirectTypes, OrdersAreTyped
  <2>2. PICK c : c = [id |-> r.id, with |-> r.with]
        OBVIOUS
  <2>3. c \in With(r.by) /\ r.by \in Users
        BY <2>1, <2>2 DEF With, Order
  <2>4. ChannelsAreShown'
    <3>1. \/ UNCHANGED known
          \/ known' = [known EXCEPT ![r.by] = @ \cup {c}]
          BY <1>3, <2>2 DEF Direct!TakeAnswer
    <3>2. UNCHANGED queried
          BY <1>3 DEF Direct!TakeAnswer
    <3> QED
        BY <2>3, <3>1, <3>2 DEF DirectTypes, ChannelsAreShown, With
  <2>5. orders' \subseteq orders
        BY <1>3 DEF Direct!TakeAnswer
  <2> QED
      BY <1>1, <1>2, <2>4, <2>5 DEF DirectTypes, OrdersAreTyped
<1>4. ASSUME NEW u \in Users, Direct!OpenMenu(u) PROVE DirectTypes'
  <2>1. UNCHANGED <<orders, known>> /\ queried' = [queried EXCEPT ![u] = Direct!GetDMChannels(u)]
        BY <1>4 DEF Direct!OpenMenu
  <2>2. Direct!GetDMChannels(u) \subseteq With(u)
        BY RowsAreShown DEF DirectTypes
  <2>3. ChannelsAreShown'
        BY <2>1, <2>2 DEF DirectTypes, ChannelsAreShown, With
  <2> QED
      BY <1>1, <1>2, <2>1, <2>3 DEF DirectTypes, OrdersAreTyped
<1>5. ASSUME NEW u \in Users, Direct!Load(u) PROVE DirectTypes'
  <2>1. /\ known' = [known EXCEPT ![u] = Direct!GetDMChannels(u)]
        /\ queried' = [queried EXCEPT ![u] = None]
        BY <1>5 DEF Direct!Load
  <2>2. Direct!GetDMChannels(u) \subseteq With(u)
        BY RowsAreShown DEF DirectTypes
  <2>3. ChannelsAreShown'
        BY <2>1, <2>2 DEF DirectTypes, ChannelsAreShown, With
  <2>4. ASSUME NEW n \in orders'
        PROVE  \E r \in orders : /\ n \in Order /\ n.id = r.id /\ n.by = r.by /\ n.with = r.with
                                 /\ n.step = r.step
    <3>1. PICK r \in orders : n = IF r.by = u THEN [r EXCEPT !.heard = FALSE] ELSE r
          BY <1>5, <2>4 DEF Direct!Load
    <3>2. r \in Order
          BY DEF DirectTypes, OrdersAreTyped
    <3> QED
        BY <3>1, <3>2 DEF Order
  <2>5. OrdersAreTyped'
        BY <1>1, <2>4 DEF DirectTypes, OrdersAreTyped
  <2> QED
      BY <1>2, <2>3, <2>5 DEF DirectTypes
<1> QED
    BY <1>3, <1>4, <1>5

LEMMA DirectIsTyped == DirectTypes /\ [Direct!Next]_directVars => DirectTypes'
<1>1. CASE UNCHANGED directVars
      BY <1>1 DEF directVars, DirectTypes, OrdersAreTyped, DirectRows, ChannelsAreShown
<1>2. CASE Direct!Next
      BY <1>2, DirectServes, DirectAsks, DirectShows DEF Direct!Next
<1> QED
    BY <1>1, <1>2

LEMMA DirectTypesStart == Direct!Init => DirectTypes
BY DEF Direct!Init, DirectTypes, OrdersAreTyped, DirectRows, ChannelsAreShown

LEMMA DirectIsOfType == DirectTypes => Direct!TypeOK
<1> SUFFICES ASSUME DirectTypes PROVE Direct!TypeOK
    OBVIOUS
<1>1. \A r \in orders : r.by \in Users /\ r.with \in Users \ {r.by}
      BY DEF DirectTypes, OrdersAreTyped, Order
<1> QED
    BY <1>1 DEF DirectTypes, DirectRows, ChannelsAreShown, With, Direct!TypeOK

\* Every variable of the components keeps its type: no channel without an id, no invite to a
\* deleted channel (invites.service.ts:73-98, channels.service.ts:251-286), no dialog, list or
\* profile of another shape than its page expects.
THEOREM TypeCorrect == Spec => []TypeOK
<1> DEFINE Inv == /\ AccountInvariant /\ InviteInvariant /\ InviteTypes /\ DirectTypes
                  /\ ProfileInvariant /\ TypingInvariant /\ MicInvariant
<1>1. Init => Inv
      BY AccountStarts, InviteStarts, InviteTypesStart, DirectTypesStart, ProfileStarts,
         TypingStarts, MicStarts DEF Init
<1>2. Inv /\ [Next]_vars => Inv'
      BY OneMoves, AccountSteps, InviteSteps, InviteTypesStay, DirectIsTyped, ProfileSteps,
         TypingSteps, MicSteps
<1>3. Inv => TypeOK
  <2> SUFFICES ASSUME Inv PROVE TypeOK
      OBVIOUS
  <2>1. Account!TypeOK /\ Mic!TypeOK
        BY DEF AccountInvariant, AccountTypes, MicInvariant
  <2>2. Invite!TypeOK /\ Direct!TypeOK
        BY InviteIsTyped, DirectIsOfType
  <2>3. Profile!TypeOK
        BY DEF ProfileInvariant, ProfileTypes, Person, Profile!TypeOK, Change
  <2>4. Indicator!TypeOK
        BY DEF TypingInvariant, TypingTypes, Event, Indicator!TypeOK, Indicator!MaxSteady,
               Indicator!MaxQuiet
  <2> QED
      BY <2>1, <2>2, <2>3, <2>4 DEF TypeOK
<1> QED
    BY <1>1, <1>2, <1>3, PTL DEF Spec
=============================================================================
