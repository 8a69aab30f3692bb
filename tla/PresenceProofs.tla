---------------------------- MODULE PresenceProofs ----------------------------
(***************************************************************************)
(* Theorems about the presence of a user, for every set of sockets and of  *)
(* viewers, and any number of announcements and replies under way.         *)
(***************************************************************************)
EXTENDS Presence, SequenceTheorems, TLAPS

-----------------------------------------------------------------------------
(* Types *)

Change ==
    [stage : {"none"}]
    \cup [stage : {"save"}, from : {"visible", "invisible"}, to : {"visible", "invisible"}]

\* What is left of a sequence without one of its items.
LEMMA RemoveAtType ==
    ASSUME NEW S, NEW s \in Seq(S), NEW i \in DOMAIN s
    PROVE  RemoveAt(s, i) \in Seq(S) /\ (Len(s) = 1 => RemoveAt(s, i) = << >>)
<1>1. i \in 1..Len(s) /\ Len(s) \in Nat
  OBVIOUS
<1> DEFINE before == SubSeq(s, 1, i - 1)
           after  == SubSeq(s, i + 1, Len(s))
<1>2. /\ before \in Seq(S) /\ Len(before) = i - 1
      /\ after \in Seq(S) /\ Len(after) = Len(s) - i
  BY <1>1, SubSeqProperties
<1>3. RemoveAt(s, i) = before \o after
  BY DEF RemoveAt
<1> HIDE DEF before, after
<1>4. before \o after \in Seq(S) /\ Len(before \o after) = Len(s) - 1
  BY <1>1, <1>2, ConcatProperties
<1>5. \A t \in Seq(S) : Len(t) = 0 => t = << >>
  OBVIOUS
<1>6. ASSUME Len(s) = 1
      PROVE  Len(before \o after) = 0
  BY <1>4, <1>6
<1>7. Len(s) = 1 => before \o after = << >>
  BY <1>4, <1>5, <1>6
<1> QED
  BY <1>3, <1>4, <1>7

\* An announcement that goes on is one still.
LEMMA JobStages ==
    ASSUME TypeOK, NEW i \in DOMAIN jobs
    PROVE  /\ jobs[i] \in Job
           /\ RemoveAt(jobs, i) \in Seq(Job)
           /\ \A stage \in {"read", "key", "subscribers", "tell"} :
                 [jobs EXCEPT ![i].stage = stage] \in Seq(Job)
           /\ \A todo \in SUBSET Viewers :
                 /\ [jobs EXCEPT ![i].todo = todo] \in Seq(Job)
                 /\ [jobs EXCEPT ![i].stage = "tell", ![i].todo = todo] \in Seq(Job)
<1>1. jobs \in Seq(Job) /\ i \in 1..Len(jobs)
  BY DEF TypeOK
<1>2. jobs[i] \in Job
  BY <1>1
<1>3. \A job \in Job : [jobs EXCEPT ![i] = job] \in Seq(Job)
  BY <1>1, ExceptSeq
<1>4. /\ \A stage \in {"read", "key", "subscribers", "tell"} :
            [jobs[i] EXCEPT !.stage = stage] \in Job
      /\ \A todo \in SUBSET Viewers :
            /\ [jobs[i] EXCEPT !.todo = todo] \in Job
            /\ [jobs[i] EXCEPT !.stage = "tell", !.todo = todo] \in Job
  BY <1>2 DEF Job
<1>5. /\ \A stage \in {"read", "key", "subscribers", "tell"} :
            [jobs EXCEPT ![i].stage = stage] \in Seq(Job)
      /\ \A todo \in SUBSET Viewers :
            /\ [jobs EXCEPT ![i].todo = todo] \in Seq(Job)
            /\ [jobs EXCEPT ![i].stage = "tell", ![i].todo = todo] \in Seq(Job)
  BY <1>3, <1>4
<1> QED
  BY <1>1, <1>2, <1>5, RemoveAtType

\* A new announcement makes the announcements longer.
LEMMA JobAdded ==
    ASSUME TypeOK, NEW online \in BOOLEAN, NEW stage \in {"read", "key"}
    PROVE  Append(jobs, NewJob(online, stage)) \in Seq(Job)
<1>1. NewJob(online, stage) \in Job
  BY DEF NewJob, Job
<1> QED
  BY <1>1 DEF TypeOK

\* What the user does, and its handlers do, keeps the types.
LEMMA UserType ==
    ASSUME TypeOK, UserAct \/ SaveStatus \/ FailStatus \/ \E s \in Sockets : SocketStep(s)
    PROVE  TypeOK'
<1>1. CASE UserAct
  <2>1. ASSUME NEW s \in Sockets, Connect(s) \/ Disconnect(s)
        PROVE  TypeOK'
    BY <2>1 DEF Connect, Disconnect, viewerVars, TypeOK
  <2>2. ASSUME NEW to \in {"visible", "invisible"}, ChangeStatus(to)
        PROVE  TypeOK'
    <3>1. change' \in [stage : {"save"}, from : {"visible", "invisible"},
                      to : {"visible", "invisible"}]
      BY <2>2 DEF ChangeStatus, TypeOK
    <3> QED
      BY <2>2, <3>1 DEF ChangeStatus, viewerVars, TypeOK
  <2> QED
    BY <1>1, <2>1, <2>2 DEF UserAct
<1>2. CASE SaveStatus
  <2>1. change.to \in {"visible", "invisible"}
    BY <1>2 DEF SaveStatus, TypeOK
  <2>2. jobs' \in Seq(Job)
    BY <1>2, JobAdded DEF SaveStatus, TypeOK
  <2> QED
    BY <1>2, <2>1, <2>2 DEF SaveStatus, viewerVars, TypeOK
<1>3. CASE FailStatus
  BY <1>3 DEF FailStatus, viewerVars, TypeOK
<1>4. ASSUME NEW s \in Sockets, SocketStep(s)
      PROVE  TypeOK'
  <2>1. CASE ConnectKey(s)
    BY <2>1 DEF ConnectKey, viewerVars, TypeOK
  <2>2. CASE ConnectAdd(s)
    <3>1. jobs' \in Seq(Job)
      BY <2>2, JobAdded DEF ConnectAdd
    <3> QED
      BY <2>2, <3>1 DEF ConnectAdd, viewerVars, TypeOK
  <2>3. CASE Disconnected(s)
    <3>1. jobs' \in Seq(Job)
      BY <2>3, JobAdded DEF Disconnected
    <3> QED
      BY <2>3, <3>1 DEF Disconnected, viewerVars, TypeOK
  <2> QED
    BY <1>4, <2>1, <2>2, <2>3 DEF SocketStep
<1> QED
  BY <1>1, <1>2, <1>3, <1>4

\* A message under way to a viewer makes its inbox longer.
LEMMA ItemAdded ==
    ASSUME TypeOK, NEW v \in Viewers, NEW kind \in {"ready", "merge", "event"},
           NEW online \in BOOLEAN
    PROVE  [inbox EXCEPT ![v] = Append(@, [kind |-> kind, online |-> online])]
               \in [Viewers -> Seq(Item)]
<1>1. [kind |-> kind, online |-> online] \in Item
  BY DEF Item
<1>2. Append(inbox[v], [kind |-> kind, online |-> online]) \in Seq(Item)
  BY <1>1 DEF TypeOK
<1> QED
  BY <1>2 DEF TypeOK

\* The gateway's handling of an announcement keeps the types.
LEMMA JobType ==
    ASSUME TypeOK, NEW i \in DOMAIN jobs, JobStep(i)
    PROVE  TypeOK'
<1>1. CASE ReadProfile(i)
  <2>1. jobs' \in Seq(Job)
    BY <1>1, JobStages DEF ReadProfile
  <2> QED
    BY <1>1, <2>1 DEF ReadProfile, userVars, viewerVars, TypeOK
<1>2. CASE WriteKey(i)
  <2>1. jobs' \in Seq(Job) /\ presence' \in BOOLEAN
    BY <1>2, JobStages DEF WriteKey, Job
  <2> QED
    BY <1>2, <2>1 DEF WriteKey, userVars, viewerVars, TypeOK
<1>3. CASE ReadSubscribers(i)
  <2>1. jobs' \in Seq(Job)
    BY <1>3, JobStages DEF ReadSubscribers, TypeOK
  <2> QED
    BY <1>3, <2>1 DEF ReadSubscribers, userVars, TypeOK
<1>4. CASE AllTold(i)
  <2>1. jobs' \in Seq(Job)
    BY <1>4, JobStages DEF AllTold
  <2> QED
    BY <1>4, <2>1 DEF AllTold, userVars, viewerVars, TypeOK
<1>5. ASSUME NEW v \in Viewers, Tell(i, v)
      PROVE  TypeOK'
  <2>1. jobs[i].online \in BOOLEAN /\ jobs[i].todo \in SUBSET Viewers
    BY JobStages DEF Job
  <2>2. inbox' \in [Viewers -> Seq(Item)]
    BY <1>5, <2>1, ItemAdded DEF Tell
  <2>3. Remaining(i, v) \in SUBSET Viewers
    BY <2>1 DEF Remaining
  <2>4. jobs' \in Seq(Job)
    BY <1>5, <2>3, JobStages DEF Tell
  <2> QED
    BY <1>5, <2>2, <2>4 DEF Tell, userVars, TypeOK
<1> QED
  BY <1>1, <1>2, <1>3, <1>4, <1>5 DEF JobStep

\* The second answer comes to a client that has the first.
MergeFollows ==
    \A v \in Viewers : \A i \in DOMAIN inbox[v] :
        inbox[v][i].kind = "merge" => load[v].stage = "follow"

\* What a viewer's client does and is told keeps the types.
LEMMA ViewerType ==
    ASSUME TypeOK, MergeFollows, NEW v \in Viewers, Arrive(v) \/ Depart(v) \/ LoadStep(v) \/ Receive(v)
    PROVE  TypeOK'
<1>1. load[v] \in Load /\ inbox[v] \in Seq(Item) /\ jobs \in Seq(Job)
  BY DEF TypeOK
<1>2. \A part : load[v].stage = "follow" => [load[v] EXCEPT !.left = @ \ {part}] \in Load
  BY <1>1 DEF Load
<1>3. CASE Arrive(v)
  <2>1. load' \in [Viewers -> Load]
    BY <1>3 DEF Arrive, Load, TypeOK
  <2> QED
    BY <1>3, <2>1 DEF Arrive, userVars, TypeOK
<1>4. CASE Depart(v)
  <2>1. load' \in [Viewers -> Load]
    BY <1>4 DEF Depart, Load, Away, TypeOK
  <2>2. jobs' \in Seq(Job)
    <3>1. ASSUME NEW i \in 1..Len(jobs)
          PROVE  [jobs[i] EXCEPT !.todo = @ \ {v}] \in Job
      <4>1. jobs[i] \in Job
        BY <1>1
      <4> QED
        BY <4>1 DEF Job
    <3>2. jobs' = [i \in 1..Len(jobs) |-> [jobs[i] EXCEPT !.todo = @ \ {v}]]
      BY <1>1, <1>4 DEF Depart
    <3>3. Len(jobs) \in Nat
      BY <1>1
    <3> QED
      BY <3>1, <3>2, <3>3
  <2>3. inbox' \in [Viewers -> Seq(Item)]
    BY <1>4 DEF Depart, TypeOK
  <2> QED
    BY <1>4, <2>1, <2>2, <2>3 DEF Depart, userVars, TypeOK
<1>5. CASE ReadVisible(v)
  <2>1. load' \in [Viewers -> Load]
    BY <1>5 DEF ReadVisible, Load, TypeOK
  <2> QED
    BY <1>5, <2>1 DEF ReadVisible, userVars, TypeOK
<1>6. CASE ReadKeys(v)
  <2>1. load' \in [Viewers -> Load]
    BY <1>6 DEF ReadKeys, Load, TypeOK
  <2>2. (load[v].visible /\ presence) \in BOOLEAN
    OBVIOUS
  <2>3. inbox' \in [Viewers -> Seq(Item)]
    BY <1>6, <2>2, ItemAdded DEF ReadKeys
  <2> QED
    BY <1>6, <2>1, <2>3 DEF ReadKeys, userVars, TypeOK
<1>7. CASE Subscribe(v)
  BY <1>2, <1>7 DEF Subscribe, Done, userVars, TypeOK
<1>8. CASE AskAgain(v)
  <2>1. presence \in BOOLEAN
    BY DEF TypeOK
  <2>2. inbox' \in [Viewers -> Seq(Item)]
    BY <1>8, <2>1, ItemAdded DEF AskAgain
  <2> QED
    BY <1>2, <1>8, <2>2 DEF AskAgain, Done, userVars, TypeOK
<1>9. CASE Receive(v)
  <2>1. PICK kind \in {"ready", "merge", "event"} : Got(v, kind)
    BY <1>9 DEF Receive, ReceiveReady, ReceiveMerge, HandlePresenceUpdate
  <2>2. Head(inbox[v]) \in Item /\ Tail(inbox[v]) \in Seq(Item)
    BY <1>1, <2>1 DEF Got
  <2>3. inbox' \in [Viewers -> Seq(Item)]
    BY <2>1, <2>2 DEF Got, TypeOK
  <2>4. Head(inbox[v]).online \in BOOLEAN
    BY <2>2 DEF Item
  <2>5. CASE ReceiveReady(v)
    <3>1. load' \in [Viewers -> Load]
      BY <2>5 DEF ReceiveReady, Load, TypeOK
    <3> QED
      BY <2>3, <2>4, <2>5, <3>1 DEF ReceiveReady, userVars, TypeOK
  <2>6. CASE ReceiveMerge(v)
    <3>1. Head(inbox[v]).kind = "merge" /\ inbox[v] # << >>
      BY <2>6 DEF ReceiveMerge, Got
    <3>2. load[v].stage = "follow"
      BY <1>1, <3>1 DEF MergeFollows
    <3>3. load' \in [Viewers -> Load]
      BY <1>2, <2>6, <3>2 DEF ReceiveMerge, Done, TypeOK
    <3>4. shown' \in [Viewers -> BOOLEAN]
      BY <2>4, <2>6 DEF ReceiveMerge, TypeOK
    <3> QED
      BY <2>3, <2>6, <3>3, <3>4 DEF ReceiveMerge, userVars, TypeOK
  <2>7. CASE HandlePresenceUpdate(v)
    BY <2>3, <2>4, <2>7 DEF HandlePresenceUpdate, userVars, TypeOK
  <2> QED
    BY <1>9, <2>5, <2>6, <2>7 DEF Receive
<1> QED
  BY <1>3, <1>4, <1>5, <1>6, <1>7, <1>8, <1>9 DEF LoadStep

\* A step lets no second answer reach a client that has not got the first.
LEMMA MergeStep ==
    ASSUME TypeOK, MergeFollows, [Next]_vars
    PROVE  MergeFollows'
<1>1. CASE UNCHANGED <<inbox, load>>
  BY <1>1 DEF MergeFollows
<1>2. ASSUME NEW i \in DOMAIN jobs, NEW v \in Viewers, Tell(i, v)
      PROVE  MergeFollows'
  <2> DEFINE item == [kind |-> "event", online |-> jobs[i].online]
  <2>1. inbox[v] \in Seq(Item)
    BY DEF TypeOK
  <2>2. item.kind # "merge"
    OBVIOUS
  <2> HIDE DEF item
  <2>3. UNCHANGED load /\ inbox' = [inbox EXCEPT ![v] = Append(inbox[v], item)]
    BY <1>2 DEF Tell, item
  <2> QED
    BY <2>1, <2>2, <2>3 DEF MergeFollows, TypeOK
<1>3. ASSUME NEW v \in Viewers, Arrive(v) \/ Depart(v) \/ LoadStep(v) \/ Receive(v)
      PROVE  MergeFollows'
  <2>1. inbox[v] \in Seq(Item) /\ load[v] \in Load
    BY DEF TypeOK
  <2>2. \A w \in Viewers \ {v} : inbox'[w] = inbox[w] /\ load'[w] = load[w]
    BY <1>3 DEF Arrive, Depart, LoadStep, ReadVisible, ReadKeys, Subscribe, AskAgain, Done,
                Receive, ReceiveReady, ReceiveMerge, HandlePresenceUpdate, Got, TypeOK
  <2>3. \A part : load[v].stage = "follow" =>
                      [load[v] EXCEPT !.left = @ \ {part}].stage = "follow"
    BY <2>1 DEF Load
  <2>4. ASSUME NEW i \in DOMAIN inbox'[v], inbox'[v][i].kind = "merge"
        PROVE  load'[v].stage = "follow"
    <3>1. CASE Arrive(v) \/ ReadVisible(v)
      BY <2>4, <3>1 DEF Arrive, ReadVisible, Away, MergeFollows, TypeOK
    <3>2. CASE Depart(v)
      BY <2>4, <3>2 DEF Depart, TypeOK
    <3>3. CASE ReadKeys(v)
      <4> DEFINE item == [kind |-> "ready", online |-> load[v].visible /\ presence]
      <4>1. item.kind # "merge"
        OBVIOUS
      <4> HIDE DEF item
      <4>2. inbox'[v] = Append(inbox[v], item) /\ load[v].stage = "keys"
        BY <3>3 DEF ReadKeys, TypeOK, item
      <4>3. i \in DOMAIN inbox[v] /\ inbox[v][i].kind = "merge"
        BY <2>1, <2>4, <4>1, <4>2
      <4> QED
        BY <4>2, <4>3 DEF MergeFollows
    <3>4. CASE Subscribe(v) \/ AskAgain(v) \/ ReceiveReady(v)
      <4>1. CASE ReceiveReady(v)
        BY <4>1 DEF ReceiveReady, TypeOK
      <4>2. CASE Subscribe(v) \/ AskAgain(v)
        <5>1. load[v].stage = "follow" /\ \E part : Done(v, part)
          BY <4>2 DEF Subscribe, AskAgain
        <5> QED
          BY <2>3, <5>1 DEF Done, TypeOK
      <4> QED
        BY <3>4, <4>1, <4>2
    <3>5. CASE ReceiveMerge(v) \/ HandlePresenceUpdate(v)
      <4>1. inbox[v] # << >> /\ inbox'[v] = Tail(inbox[v])
        BY <3>5 DEF ReceiveMerge, HandlePresenceUpdate, Got, TypeOK
      <4>2. i + 1 \in DOMAIN inbox[v] /\ inbox[v][i + 1] = inbox'[v][i]
        BY <2>1, <4>1
      <4>3. load[v].stage = "follow"
        BY <2>4, <4>2 DEF MergeFollows
      <4>4. UNCHANGED load \/ \E part : Done(v, part)
        BY <3>5 DEF ReceiveMerge, HandlePresenceUpdate
      <4>5. CASE \E part : Done(v, part)
        BY <2>3, <4>3, <4>5 DEF Done, TypeOK
      <4> QED
        BY <4>3, <4>4, <4>5
    <3> QED
      BY <1>3, <3>1, <3>2, <3>3, <3>4, <3>5 DEF LoadStep, Receive
  <2> QED
    BY <2>2, <2>4 DEF MergeFollows
<1>4. CASE UserAct \/ SaveStatus \/ FailStatus \/ \E s \in Sockets : SocketStep(s)
  <2>1. UNCHANGED <<inbox, load>>
    BY <1>4 DEF UserAct, Connect, Disconnect, ChangeStatus, SaveStatus, FailStatus,
                SocketStep, ConnectKey, ConnectAdd, Disconnected, viewerVars
  <2> QED
    BY <1>1, <2>1
<1>5. ASSUME NEW i \in DOMAIN jobs,
             ReadProfile(i) \/ WriteKey(i) \/ ReadSubscribers(i) \/ AllTold(i)
      PROVE  MergeFollows'
  <2>1. UNCHANGED <<inbox, load>>
    BY <1>5 DEF ReadProfile, WriteKey, ReadSubscribers, AllTold, viewerVars
  <2> QED
    BY <1>1, <2>1
<1>6. CASE UNCHANGED vars
  BY <1>1, <1>6 DEF vars, viewerVars
<1> QED
  BY <1>2, <1>3, <1>4, <1>5, <1>6 DEF Next, JobStep

\* The types hold together with the order of a client's answers.
LEMMA TypesHold == Spec => [](TypeOK /\ MergeFollows)
<1>1. Init => TypeOK /\ MergeFollows
  <2> SUFFICES ASSUME Init PROVE TypeOK /\ MergeFollows
    OBVIOUS
  <2>1. Away \in Load
    BY DEF Away, Load
  <2>2. load \in [Viewers -> Load] /\ inbox \in [Viewers -> Seq(Item)]
    BY <2>1 DEF Init
  <2>3. jobs \in Seq(Job)
    BY DEF Init
  <2>4. TypeOK
    BY <2>2, <2>3 DEF Init, TypeOK
  <2> QED
    BY <2>4 DEF Init, MergeFollows
<1>2. TypeOK /\ MergeFollows /\ [Next]_vars => TypeOK' /\ MergeFollows'
  <2> SUFFICES ASSUME TypeOK, MergeFollows, [Next]_vars PROVE TypeOK'
    BY MergeStep
  <2>1. CASE UNCHANGED vars
    BY <2>1 DEF vars, userVars, viewerVars, TypeOK
  <2> QED
    BY <2>1, UserType, JobType, ViewerType DEF Next
<1> QED
  BY <1>1, <1>2, PTL DEF Spec

\* Every variable keeps its type, for any number of connections, announcements and viewers,
\* whether or not what the user does overlaps (ws.gateway.ts:70-160, layout.tsx:364-378).
THEOREM TypeCorrect == Spec => []TypeOK
BY TypesHold, PTL

-----------------------------------------------------------------------------
(* The key of a user who does one thing at a time *)

Opened == \A s \in Sockets : opening[s] = "done"

\* The key, or what the announcement under way makes of it, says whether the user is connected.
KeyWillFollow ==
    status = "visible" =>
        /\ jobs = << >> \/ jobs[1].stage \in {"subscribers", "tell"} => (presence <=> link # {})
        /\ jobs # << >> /\ jobs[1].stage \in {"read", "key"} => (jobs[1].online <=> link # {})

\* One thing is under way at a time, and leaves a key that follows the connection: a
\* connection that opens, one that closes, a change of status, or an announcement.
OneAtATime ==
    /\ \A s, t \in link : s = t
    /\ Len(jobs) <= 1
    /\ \A s \in Sockets : opening[s] # "done" =>
          /\ link = {s} /\ closing = {} /\ jobs = << >> /\ change.stage = "none"
          /\ \A t \in Sockets \ {s} : opening[t] = "done"
          /\ opening[s] = "add" => presence
    /\ closing # {} =>
          /\ link = {} /\ Opened /\ jobs = << >> /\ change.stage = "none"
          /\ \A s, t \in closing : s = t
    /\ change.stage = "save" =>
          /\ link # {} /\ Opened /\ closing = {} /\ jobs = << >>
          /\ change.from = status
    /\ Opened /\ closing = {} => KeyWillFollow

\* A connection that opens or closes goes on by itself.
LEMMA SocketKeepsOne ==
    ASSUME ~Overlap, TypeOK, OneAtATime, NEW s \in Sockets,
           Connect(s) \/ Disconnect(s) \/ SocketStep(s)
    PROVE  OneAtATime'
<1>1. CASE Connect(s)
  <2>1. Announced /\ link = {} /\ s \notin closing
    BY <1>1 DEF Connect, MayAct
  <2>2. /\ link' = {s} /\ opening' = [opening EXCEPT ![s] = "key"]
        /\ UNCHANGED <<status, closing, change, presence, jobs>>
    BY <1>1, <2>1 DEF Connect
  <2> QED
    BY <2>1, <2>2 DEF OneAtATime, Announced, Opened, TypeOK
<1>2. CASE ConnectKey(s)
  <2>1. /\ opening[s] = "key" /\ presence' /\ opening' = [opening EXCEPT ![s] = "add"]
        /\ UNCHANGED <<status, link, closing, change, jobs>>
    BY <1>2 DEF ConnectKey
  <2>2. /\ link = {s} /\ closing = {} /\ jobs = << >> /\ change.stage = "none"
        /\ \A t \in Sockets \ {s} : opening[t] = "done"
    BY <2>1 DEF OneAtATime
  <2> QED
    BY <2>1, <2>2 DEF OneAtATime, Opened, TypeOK
<1>3. CASE ConnectAdd(s)
  <2>1. /\ opening[s] = "add" /\ opening' = [opening EXCEPT ![s] = "done"]
        /\ jobs' = Append(jobs, NewJob(TRUE, "read"))
        /\ UNCHANGED <<status, link, closing, change, presence>>
    BY <1>3 DEF ConnectAdd
  <2>2. /\ link = {s} /\ closing = {} /\ jobs = << >> /\ change.stage = "none"
        /\ \A t \in Sockets \ {s} : opening[t] = "done"
    BY <2>1 DEF OneAtATime
  <2>3. /\ Opened'
        /\ jobs' # << >> /\ Len(jobs') = 1
        /\ jobs'[1].stage = "read" /\ jobs'[1].online
    BY <2>1, <2>2 DEF Opened, NewJob, TypeOK
  <2>4. KeyWillFollow'
    BY <2>1, <2>2, <2>3 DEF KeyWillFollow
  <2> QED
    BY <2>1, <2>2, <2>3, <2>4 DEF OneAtATime, Opened
<1>4. CASE Disconnect(s)
  <2>1. Announced /\ s \in link
    BY <1>4 DEF Disconnect, MayAct
  <2>2. /\ link' = {} /\ closing' = {s}
        /\ UNCHANGED <<status, opening, change, presence, jobs>>
    BY <1>4, <2>1 DEF Disconnect, Announced, OneAtATime
  <2> QED
    BY <2>1, <2>2 DEF OneAtATime, Announced, Opened
<1>5. CASE Disconnected(s)
  <2>1. /\ s \in closing /\ closing' = closing \ {s}
        /\ jobs' = Append(jobs, NewJob(FALSE, "read"))
        /\ UNCHANGED <<status, link, opening, change, presence>>
    BY <1>5 DEF Disconnected
  <2>2. /\ link = {} /\ Opened /\ jobs = << >> /\ change.stage = "none" /\ closing' = {}
    BY <2>1 DEF OneAtATime
  <2>3. /\ jobs' # << >> /\ Len(jobs') = 1
        /\ jobs'[1].stage = "read" /\ ~jobs'[1].online
    BY <2>1, <2>2 DEF NewJob
  <2>4. KeyWillFollow'
    BY <2>1, <2>2, <2>3 DEF KeyWillFollow
  <2> QED
    BY <2>1, <2>2, <2>3, <2>4 DEF OneAtATime, Opened
<1> QED
  BY <1>1, <1>2, <1>3, <1>4, <1>5 DEF SocketStep

\* A change of status goes on by itself.
LEMMA StatusKeepsOne ==
    ASSUME ~Overlap, TypeOK, OneAtATime,
           SaveStatus \/ FailStatus \/ \E to \in {"visible", "invisible"} : ChangeStatus(to)
    PROVE  OneAtATime'
<1>1. ASSUME NEW to \in {"visible", "invisible"}, ChangeStatus(to)
      PROVE  OneAtATime'
  <2>1. Announced /\ link # {}
    BY <1>1 DEF ChangeStatus, MayAct
  <2>2. /\ change' = [stage |-> "save", from |-> status, to |-> to]
        /\ UNCHANGED <<status, link, opening, closing, presence, jobs>>
    BY <1>1 DEF ChangeStatus
  <2> QED
    BY <2>1, <2>2 DEF OneAtATime, Announced, Opened, KeyWillFollow
<1>2. ASSUME SaveStatus \/ FailStatus
      PROVE  /\ link # {} /\ Opened /\ closing = {} /\ jobs = << >> /\ change.from = status
             /\ status = "visible" => (presence <=> link # {})
  <2>1. change.stage = "save"
    BY <1>2 DEF SaveStatus, FailStatus
  <2>2. /\ link # {} /\ Opened /\ closing = {} /\ jobs = << >> /\ change.from = status
        /\ KeyWillFollow
    BY <2>1 DEF OneAtATime
  <2> QED
    BY <2>2 DEF KeyWillFollow
<1>3. CASE FailStatus
  <2>1. change' = [stage |-> "none"] /\ UNCHANGED <<status, link, opening, closing, presence, jobs>>
    BY <1>3 DEF FailStatus
  <2> QED
    BY <1>2, <1>3, <2>1 DEF OneAtATime, Opened, KeyWillFollow
<1>4. CASE SaveStatus
  <2>1. /\ status' = change.to /\ change' = [stage |-> "none"]
        /\ UNCHANGED <<link, opening, closing, presence>>
    BY <1>4 DEF SaveStatus
  <2>2. change.to \in {"visible", "invisible"} /\ change.from \in {"visible", "invisible"}
    BY <1>4 DEF SaveStatus, TypeOK
  <2>3. ASSUME change.to = "invisible"
        PROVE  Len(jobs') <= 1 /\ KeyWillFollow'
    <3>1. jobs' = Append(jobs, NewJob(FALSE, "key"))
      BY <1>4, <2>3 DEF SaveStatus
    <3>2. Len(jobs') = 1
      BY <1>2, <1>4, <3>1
    <3> QED
      BY <2>1, <2>3, <3>2 DEF KeyWillFollow
  <2>4. ASSUME change.to = "visible", change.from = "invisible"
        PROVE  Len(jobs') <= 1 /\ KeyWillFollow'
    <3>1. jobs' = Append(jobs, NewJob(TRUE, "key"))
      BY <1>4, <2>4 DEF SaveStatus
    <3>2. Len(jobs') = 1 /\ jobs'[1].stage = "key" /\ jobs'[1].online
      BY <1>2, <1>4, <3>1 DEF NewJob
    <3> QED
      BY <1>2, <1>4, <2>1, <3>2 DEF KeyWillFollow
  <2>5. ASSUME change.to = "visible", change.from = "visible"
        PROVE  Len(jobs') <= 1 /\ KeyWillFollow'
    <3>1. jobs' = << >>
      BY <1>2, <1>4, <2>5 DEF SaveStatus
    <3> QED
      BY <1>2, <1>4, <2>1, <2>5, <3>1 DEF KeyWillFollow
  <2>6. Len(jobs') <= 1 /\ KeyWillFollow'
    BY <2>2, <2>3, <2>4, <2>5
  <2> QED
    BY <1>2, <1>4, <2>1, <2>6 DEF OneAtATime, Opened
<1> QED
  BY <1>1, <1>3, <1>4

\* One at a time, the only announcement is the first.
LEMMA OnlyJob ==
    ASSUME TypeOK, OneAtATime, NEW i \in DOMAIN jobs
    PROVE  i = 1 /\ Len(jobs) = 1 /\ jobs # << >> /\ jobs \in Seq(Job) /\ jobs[1] \in Job
<1>1. jobs \in Seq(Job) /\ Len(jobs) \in Nat /\ Len(jobs) <= 1 /\ i \in 1..Len(jobs)
  BY DEF OneAtATime, TypeOK
<1>2. \A n \in Nat : \A k \in 1..n : n <= 1 => n = 1 /\ k = 1
  OBVIOUS
<1>3. Len(jobs) = 1 /\ i = 1
  BY <1>1, <1>2
<1> QED
  BY <1>1, <1>3

\* The only announcement goes on by itself.
LEMMA JobKeepsOne ==
    ASSUME TypeOK, OneAtATime, NEW i \in DOMAIN jobs, JobStep(i)
    PROVE  OneAtATime'
<1>1. jobs \in Seq(Job) /\ Len(jobs) \in Nat /\ Len(jobs) <= 1 /\ i \in 1..Len(jobs)
  BY DEF OneAtATime, TypeOK
<1>2. i = 1 /\ Len(jobs) = 1 /\ jobs # << >> /\ jobs[1] \in Job
  BY OnlyJob
<1>3. Opened /\ closing = {} /\ change.stage # "save" /\ KeyWillFollow
  BY <1>2 DEF OneAtATime, Opened
<1>4. UNCHANGED <<status, link, opening, closing, change>>
  BY DEF JobStep, ReadProfile, WriteKey, ReadSubscribers, AllTold, Tell, userVars
<1>5. ASSUME Len(jobs') <= 1, KeyWillFollow'
      PROVE  OneAtATime'
  <2>1. Opened' /\ closing' = {} /\ change'.stage # "save"
    BY <1>3, <1>4 DEF Opened
  <2>2. \A s, t \in link' : s = t
    BY <1>4 DEF OneAtATime
  <2> QED
    BY <1>5, <2>1, <2>2 DEF OneAtATime, Opened
<1>6. ASSUME jobs' = RemoveAt(jobs, i), UNCHANGED presence,
             status = "invisible" \/ jobs[1].stage = "tell"
      PROVE  OneAtATime'
  <2>1. jobs' = << >> /\ Len(jobs') = 0
    BY <1>1, <1>2, <1>6, RemoveAtType DEF RemoveAt
  <2>2. KeyWillFollow'
    BY <1>2, <1>3, <1>4, <1>6, <2>1 DEF KeyWillFollow
  <2> QED
    BY <1>5, <2>1, <2>2
<1>7. ASSUME NEW stage, jobs' = [jobs EXCEPT ![i].stage = stage], UNCHANGED presence,
             jobs[i].stage = "read", stage = "key"
      PROVE  OneAtATime'
  <2>1. Len(jobs') = 1 /\ jobs'[1].stage = "key" /\ jobs'[1].online = jobs[1].online /\ jobs' # << >>
    BY <1>1, <1>2, <1>7 DEF Job
  <2>2. KeyWillFollow'
    BY <1>2, <1>3, <1>4, <1>7, <2>1 DEF KeyWillFollow
  <2> QED
    BY <1>5, <2>1, <2>2
<1>8. CASE WriteKey(i)
  <2>1. /\ Len(jobs') = 1 /\ jobs'[1].stage = "subscribers" /\ jobs' # << >>
        /\ jobs[1].stage = "key" /\ presence' = jobs[1].online
    BY <1>1, <1>2, <1>8 DEF WriteKey, Job
  <2>2. KeyWillFollow'
    BY <1>2, <1>3, <1>4, <2>1 DEF KeyWillFollow
  <2> QED
    BY <1>5, <2>1, <2>2
<1>9. CASE ReadSubscribers(i)
  <2>1. /\ Len(jobs') = 1 /\ jobs'[1].stage = "tell" /\ jobs' # << >>
        /\ jobs[1].stage = "subscribers" /\ UNCHANGED presence
    BY <1>1, <1>2, <1>9 DEF ReadSubscribers, Job
  <2>2. KeyWillFollow'
    BY <1>2, <1>3, <1>4, <2>1 DEF KeyWillFollow
  <2> QED
    BY <1>5, <2>1, <2>2
<1>10. ASSUME NEW v \in Viewers, Tell(i, v)
       PROVE  OneAtATime'
  <2>1. jobs' = [jobs EXCEPT ![1].todo = Remaining(1, v)] /\ UNCHANGED presence
    BY <1>2, <1>10 DEF Tell
  <2>2. /\ Len(jobs') = 1 /\ jobs' # << >>
        /\ jobs'[1].stage = jobs[1].stage /\ jobs'[1].online = jobs[1].online
    BY <1>1, <1>2, <2>1 DEF Job
  <2>3. KeyWillFollow'
    BY <1>2, <1>3, <1>4, <2>1, <2>2 DEF KeyWillFollow
  <2> QED
    BY <1>5, <2>2, <2>3
<1>11. CASE ReadProfile(i) \/ AllTold(i)
  BY <1>2, <1>6, <1>7, <1>11 DEF ReadProfile, AllTold
<1> QED
  BY <1>8, <1>9, <1>10, <1>11 DEF JobStep

\* Viewers leave the user alone; one who goes is only struck from those to be told.
LEMMA ViewerKeepsOne ==
    ASSUME TypeOK, OneAtATime, NEW v \in Viewers,
           Arrive(v) \/ Depart(v) \/ LoadStep(v) \/ Receive(v)
    PROVE  OneAtATime'
<1>1. UNCHANGED <<userVars, presence>>
  BY DEF Arrive, Depart, LoadStep, ReadVisible, ReadKeys, Subscribe, AskAgain,
         Receive, ReceiveReady, ReceiveMerge, HandlePresenceUpdate
<1>2. jobs \in Seq(Job)
  BY DEF TypeOK
<1>3. /\ Len(jobs') = Len(jobs)
      /\ jobs' = << >> <=> jobs = << >>
      /\ jobs # << >> => jobs'[1].stage = jobs[1].stage /\ jobs'[1].online = jobs[1].online
  <2>1. CASE Depart(v)
    <3>1. jobs' = [i \in DOMAIN jobs |-> [jobs[i] EXCEPT !.todo = @ \ {v}]]
      BY <2>1 DEF Depart
    <3>2. jobs' \in Seq(Job) /\ Len(jobs') = Len(jobs)
      <4>1. \A job \in Job : [job EXCEPT !.todo = @ \ {v}] \in Job
        BY DEF Job
      <4>2. jobs' \in [1..Len(jobs) -> Job] /\ Len(jobs) \in Nat
        BY <1>2, <3>1, <4>1
      <4> QED
        BY <4>2
    <3>3. jobs' = << >> <=> jobs = << >>
      BY <1>2, <3>2
    <3>4. ASSUME jobs # << >>
          PROVE  jobs'[1].stage = jobs[1].stage /\ jobs'[1].online = jobs[1].online
      <4>1. 1 \in DOMAIN jobs /\ jobs[1] \in Job
        BY <1>2, <3>4
      <4> QED
        BY <3>1, <4>1 DEF Job
    <3> QED
      BY <3>2, <3>3, <3>4
  <2>2. CASE ~Depart(v)
    <3>1. UNCHANGED jobs
      BY <2>2 DEF Arrive, LoadStep, ReadVisible, ReadKeys, Subscribe, AskAgain,
                  Receive, ReceiveReady, ReceiveMerge, HandlePresenceUpdate
    <3> QED
      BY <3>1
  <2> QED
    BY <2>1, <2>2
<1>4. KeyWillFollow => KeyWillFollow'
  BY <1>1, <1>3 DEF KeyWillFollow, userVars
<1> QED
  BY <1>1, <1>3, <1>4 DEF OneAtATime, Opened, userVars

\* What the user does goes on one thing at a time.
LEMMA OneAtATimeHolds ==
    ASSUME ~Overlap
    PROVE  Spec => []OneAtATime
<1>1. Init => OneAtATime
  BY DEF Init, OneAtATime, Opened, KeyWillFollow
<1>2. TypeOK /\ OneAtATime /\ [Next]_vars => OneAtATime'
  <2> SUFFICES ASSUME TypeOK, OneAtATime, [Next]_vars PROVE OneAtATime'
    OBVIOUS
  <2>1. CASE UNCHANGED vars
    BY <2>1 DEF vars, userVars, OneAtATime, Opened, KeyWillFollow
  <2> QED
    BY <2>1, SocketKeepsOne, StatusKeepsOne, JobKeepsOne, ViewerKeepsOne DEF Next, UserAct
<1> QED
  BY <1>1, <1>2, TypeCorrect, PTL DEF Spec

\* For a user who waits until what was done before is announced, and has one connection at a
\* time, the presence key of a user who is not invisible says whether the user is connected
\* (ws.gateway.ts:70-87, 141-147): for any number of viewers, and whatever they do meanwhile.
THEOREM KeyIsTheConnection ==
    ASSUME ~Overlap
    PROVE  Spec => []KeyFollowsConnection
<1>1. TypeOK /\ OneAtATime => KeyFollowsConnection
  <2> SUFFICES ASSUME TypeOK, OneAtATime, Announced, status = "visible"
               PROVE  presence = (link # {})
    BY DEF KeyFollowsConnection
  <2>1. presence <=> link # {}
    BY DEF OneAtATime, Opened, KeyWillFollow, Announced
  <2>2. presence = TRUE \/ presence = FALSE
    BY DEF TypeOK
  <2> QED
    BY <2>1, <2>2
<1> QED
  BY <1>1, TypeCorrect, OneAtATimeHolds, PTL

-----------------------------------------------------------------------------
(* What viewers show *)

\* What a client comes to show when it has received the items is p: the last item that is not
\* a second answer says p, or it shows p already, and no second answer since adds to it.
ComesToShow(items, view, p) ==
    \E k \in 0..Len(items) :
        /\ k = 0 => view = p
        /\ k > 0 => items[k].kind # "merge" /\ items[k].online = p
        /\ \A i \in 1..Len(items) : i > k => /\ items[i].online => p
                                             /\ items[i].kind # "merge" => items[i].online = p

\* A client that is not yet loading has nothing to receive, one that waits has its snapshot,
\* and one that has subscribed is among the subscribers.
Placed(v, step, items, followers, todo) ==
    /\ step.stage \in {"away", "ready", "keys"} => items = << >>
    /\ step.stage = "wait" => Len(items) = 1 /\ items[1].kind = "ready"
    /\ step.stage # "follow" => v \notin followers \cup todo
    /\ step.stage = "follow" => /\ \A i \in 1..Len(items) : items[i].kind # "ready"
                                /\ "subscribe" \in step.left \/ v \in followers

\* A client whose loading goes on ends up showing p.
InSync(step, items, view, p) ==
    /\ step.stage = "keys" => step.visible
    /\ step.stage \in {"wait", "follow"} => ComesToShow(items, view, p)

\* Those whom the only announcement is still to be told.
Awaiting == IF jobs = << >> THEN {} ELSE jobs[1].todo

\* Nothing is to be announced that the subscribers have not been read for.
Settled ==
    /\ status = "visible" /\ Opened /\ closing = {}
    /\ jobs = << >> \/ jobs[1].stage = "tell"

ViewsInvariant ==
    /\ \A v \in Viewers : Placed(v, load[v], inbox[v], subscribed, Awaiting)
    /\ jobs # << >> /\ jobs[1].stage \in {"subscribers", "tell"} => presence = jobs[1].online
    /\ Settled => \A v \in Viewers : v \in missed \cup Awaiting
                                        \/ InSync(load[v], inbox[v], shown[v], presence)

\* An item that agrees with p.
Agrees(item, p) == IF item.kind = "merge" THEN item.online => p ELSE item.online = p

LEMMA ShowsAppended ==
    ASSUME NEW items \in Seq(Item), NEW view, NEW p \in BOOLEAN, NEW item \in Item,
           Agrees(item, p),
           ComesToShow(items, view, p) \/ item.kind # "merge"
    PROVE  ComesToShow(Append(items, item), view, p)
<1>1. PICK long : long = Append(items, item)
  OBVIOUS
<1>2. /\ Len(items) \in Nat /\ Len(long) = Len(items) + 1
      /\ \A i \in 1..Len(items) : long[i] = items[i]
      /\ long[Len(items) + 1] = item
  BY <1>1
<1>3. CASE item.kind # "merge"
  BY <1>1, <1>2, <1>3 DEF ComesToShow, Agrees
<1>4. CASE item.kind = "merge" /\ ComesToShow(items, view, p)
  <2>1. PICK k \in 0..Len(items) :
          /\ k = 0 => view = p
          /\ k > 0 => items[k].kind # "merge" /\ items[k].online = p
          /\ \A i \in 1..Len(items) : i > k => /\ items[i].online => p
                                               /\ items[i].kind # "merge" => items[i].online = p
    BY <1>4 DEF ComesToShow
  <2>2. k \in 0..Len(long)
    BY <1>2
  <2>3. k > 0 => long[k].kind # "merge" /\ long[k].online = p
    BY <1>2, <2>1
  <2>4. ASSUME NEW i \in 1..Len(long), i > k
        PROVE  (long[i].online => p) /\ (long[i].kind # "merge" => long[i].online = p)
    <3>1. CASE i \in 1..Len(items)
      BY <1>2, <2>1, <2>4, <3>1
    <3>2. CASE i = Len(items) + 1
      BY <1>2, <1>4, <3>2 DEF Agrees
    <3> QED
      BY <1>2, <3>1, <3>2
  <2> QED
    BY <1>1, <2>1, <2>2, <2>3, <2>4 DEF ComesToShow
<1> QED
  BY <1>3, <1>4

\* What a client shows once it has received an item.
ViewAfter(item, view) == IF item.kind = "merge" THEN view \/ item.online ELSE item.online

LEMMA ShowsReceived ==
    ASSUME NEW items \in Seq(Item), items # << >>, NEW view \in BOOLEAN, NEW p \in BOOLEAN,
           ComesToShow(items, view, p)
    PROVE  ComesToShow(Tail(items), ViewAfter(Head(items), view), p)
<1>1. PICK rest, after : rest = Tail(items) /\ after = ViewAfter(items[1], view)
  OBVIOUS
<1>2. /\ Len(items) \in Nat \ {0} /\ Len(rest) = Len(items) - 1 /\ Head(items) = items[1]
      /\ \A i \in 1..Len(rest) : rest[i] = items[i + 1]
      /\ items[1].online \in BOOLEAN
  <2>1. Len(items) \in Nat \ {0} /\ items[1] \in Item
    BY EmptySeq
  <2>2. items[1].online \in BOOLEAN
    BY <2>1 DEF Item
  <2>3. Head(items) = items[1]
    OBVIOUS
  <2>4. rest \in Seq(Item) /\ Len(rest) = Len(items) - 1
    BY <1>1
  <2>5. \A i \in 1..Len(rest) : rest[i] = items[i + 1]
    BY <1>1, <2>1, <2>4
  <2> QED
    BY <2>1, <2>2, <2>3, <2>4, <2>5
<1>3. PICK k \in 0..Len(items) :
        /\ k = 0 => view = p
        /\ k > 0 => items[k].kind # "merge" /\ items[k].online = p
        /\ \A i \in 1..Len(items) : i > k => /\ items[i].online => p
                                             /\ items[i].kind # "merge" => items[i].online = p
  BY DEF ComesToShow
<1>4. CASE k \in {0, 1}
  <2>1. after = p
    BY <1>1, <1>2, <1>3, <1>4 DEF ViewAfter
  <2>2. ASSUME NEW i \in 1..Len(rest)
        PROVE  (rest[i].online => p) /\ (rest[i].kind # "merge" => rest[i].online = p)
    <3>1. i + 1 \in 1..Len(items) /\ i + 1 > k
      BY <1>2, <1>4
    <3> QED
      BY <1>2, <1>3, <3>1
  <2>3. 0 \in 0..Len(rest)
    BY <1>2
  <2>4. ComesToShow(rest, after, p)
    BY <2>1, <2>2, <2>3 DEF ComesToShow
  <2> QED
    BY <1>1, <1>2, <2>4
<1>5. CASE k > 1
  <2>1. k - 1 \in 0..Len(rest) /\ k - 1 > 0 /\ k - 1 \in 1..Len(rest) /\ k - 1 # 0
    BY <1>2, <1>5
  <2>2. rest[k - 1].kind # "merge" /\ rest[k - 1].online = p
    BY <1>2, <1>3, <1>5, <2>1
  <2>3. ASSUME NEW i \in 1..Len(rest), i > k - 1
        PROVE  (rest[i].online => p) /\ (rest[i].kind # "merge" => rest[i].online = p)
    <3>1. i + 1 \in 1..Len(items) /\ i + 1 > k
      BY <1>2, <2>3
    <3> QED
      BY <1>2, <1>3, <3>1
  <2>4. ComesToShow(rest, after, p)
    BY <2>1, <2>2, <2>3 DEF ComesToShow
  <2> QED
    BY <1>1, <1>2, <2>4
<1> QED
  BY <1>2, <1>4, <1>5

\* What the user does reaches no viewer by itself, and leaves the call for an announcement
\* wherever it changes what they should show.
LEMMA UserUnsettles ==
    ASSUME ~Overlap, TypeOK, OneAtATime, UserAct \/ SaveStatus \/ FailStatus \/ \E s \in Sockets : SocketStep(s)
    PROVE  /\ UNCHANGED viewerVars
           /\ Awaiting' = Awaiting
           /\ \/ UNCHANGED <<jobs, presence>>
              \/ jobs' = << >>
              \/ jobs'[1].stage \in {"read", "key"}
           /\ Settled' => Settled /\ UNCHANGED presence
<1>1. ASSUME jobs = << >>, NEW online, NEW stage \in {"read", "key"},
             jobs' = Append(jobs, NewJob(online, stage))
      PROVE  /\ Awaiting' = Awaiting
             /\ jobs'[1].stage \in {"read", "key"}
             /\ ~Settled'
  <2>1. jobs' # << >> /\ jobs'[1] = NewJob(online, stage)
    BY <1>1
  <2>2. jobs'[1].stage = stage /\ jobs'[1].todo = {}
    BY <2>1 DEF NewJob
  <2>3. Awaiting = {} /\ Awaiting' = {}
    BY <1>1, <2>1, <2>2 DEF Awaiting
  <2> QED
    BY <1>1, <2>1, <2>2, <2>3 DEF Settled
<1>2. CASE UserAct
  <2>1. ASSUME NEW s \in Sockets, Connect(s)
        PROVE  ~Opened'
    BY <2>1 DEF Connect, Opened, TypeOK
  <2>2. ASSUME NEW s \in Sockets, Disconnect(s)
        PROVE  closing' # {}
    BY <2>2 DEF Disconnect
  <2>3. ASSUME NEW to \in {"visible", "invisible"}, ChangeStatus(to)
        PROVE  UNCHANGED <<status, opening, closing>>
    BY <2>3 DEF ChangeStatus
  <2>4. UNCHANGED <<viewerVars, jobs, presence>>
    BY <1>2 DEF UserAct, Connect, Disconnect, ChangeStatus, viewerVars
  <2>5. Settled' => Settled
    BY <1>2, <2>1, <2>2, <2>3, <2>4 DEF UserAct, Settled, Opened
  <2> QED
    BY <2>4, <2>5 DEF Awaiting
<1>3. CASE SaveStatus
  <2>1. jobs = << >> /\ change.from = status /\ Opened /\ closing = {}
    BY <1>3 DEF SaveStatus, OneAtATime
  <2>2. /\ status' = change.to /\ UNCHANGED <<opening, closing, presence, viewerVars>>
        /\ change.to \in {"visible", "invisible"} /\ change.from \in {"visible", "invisible"}
    BY <1>3 DEF SaveStatus, TypeOK
  <2>3. CASE change.to = "invisible"
    BY <1>1, <1>3, <2>1, <2>2, <2>3 DEF SaveStatus
  <2>4. CASE change.to = "visible" /\ change.from = "invisible"
    BY <1>1, <1>3, <2>1, <2>2, <2>4 DEF SaveStatus
  <2>5. CASE change.to = "visible" /\ change.from = "visible"
    <3>1. UNCHANGED <<status, jobs>>
      BY <1>3, <2>1, <2>2, <2>5 DEF SaveStatus
    <3> QED
      BY <2>2, <3>1 DEF Awaiting, Settled, Opened
  <2> QED
    BY <2>2, <2>3, <2>4, <2>5
<1>4. CASE FailStatus
  BY <1>4 DEF FailStatus, Awaiting, Settled, Opened
<1>5. ASSUME NEW s \in Sockets, SocketStep(s)
      PROVE  /\ UNCHANGED viewerVars
             /\ Awaiting' = Awaiting
             /\ \/ UNCHANGED <<jobs, presence>>
                \/ jobs' = << >>
                \/ jobs'[1].stage \in {"read", "key"}
             /\ ~Settled'
  <2>1. jobs = << >>
    BY <1>5 DEF SocketStep, ConnectKey, ConnectAdd, Disconnected, OneAtATime
  <2>2. CASE ConnectKey(s)
    <3>1. ~Opened' /\ UNCHANGED <<jobs, viewerVars>>
      BY <2>2 DEF ConnectKey, Opened, TypeOK
    <3> QED
      BY <2>1, <3>1 DEF Awaiting, Settled
  <2>3. CASE ConnectAdd(s) \/ Disconnected(s)
    <3>1. /\ UNCHANGED viewerVars
          /\ \E online \in BOOLEAN : jobs' = Append(jobs, NewJob(online, "read"))
      BY <2>3 DEF ConnectAdd, Disconnected
    <3> QED
      BY <1>1, <2>1, <3>1
  <2> QED
    BY <1>5, <2>2, <2>3 DEF SocketStep
<1> QED
  BY <1>2, <1>3, <1>4, <1>5
\* The only announcement keeps its subscribers in step: those it is still to be told to wait
\* for it, those it missed are named, and it says what the key says.
LEMMA JobKeepsViews ==
    ASSUME TypeOK, OneAtATime, ViewsInvariant, NEW i \in DOMAIN jobs, JobStep(i)
    PROVE  ViewsInvariant'
<1>1. i = 1 /\ Len(jobs) = 1 /\ jobs # << >> /\ jobs \in Seq(Job) /\ jobs[1] \in Job
  BY OnlyJob
<1>2. /\ \A v \in Viewers : Placed(v, load[v], inbox[v], subscribed, jobs[1].todo)
      /\ jobs[1].stage \in {"subscribers", "tell"} => presence = jobs[1].online
      /\ Settled => \A v \in Viewers : v \in missed \cup jobs[1].todo
                                            \/ InSync(load[v], inbox[v], shown[v], presence)
  BY <1>1 DEF ViewsInvariant, Awaiting
<1>3. UNCHANGED <<status, opening, closing>>
  BY DEF JobStep, ReadProfile, WriteKey, ReadSubscribers, AllTold, Tell, userVars
<1>4. ASSUME jobs' = << >>, UNCHANGED <<presence, viewerVars>>,
             status = "invisible" \/ (jobs[1].stage = "tell" /\ jobs[1].todo = {})
      PROVE  ViewsInvariant'
  <2>1. Awaiting' = {}
    BY <1>4 DEF Awaiting
  <2>2. \A v \in Viewers : Placed(v, load'[v], inbox'[v], subscribed', Awaiting')
    BY <1>2, <1>4, <2>1 DEF Placed, viewerVars
  <2>3. Settled' => Settled /\ jobs[1].todo = {}
    BY <1>3, <1>4 DEF Settled, Opened
  <2> QED
    BY <1>2, <1>4, <2>1, <2>2, <2>3 DEF ViewsInvariant, viewerVars
<1>5. CASE ReadProfile(i)
  <2>1. CASE status = "invisible"
    <3>1. RemoveAt(jobs, 1) = << >>
      BY <1>1, RemoveAtType
    <3>2. jobs' = << >> /\ UNCHANGED <<presence, viewerVars>>
      BY <1>1, <1>5, <2>1, <3>1 DEF ReadProfile
    <3> QED
      BY <1>4, <2>1, <3>2
  <2>2. CASE status # "invisible"
    <3>1. jobs' = [jobs EXCEPT ![1].stage = "key"] /\ UNCHANGED <<presence, viewerVars>>
      BY <1>1, <1>5, <2>2 DEF ReadProfile
    <3>2. jobs' # << >> /\ jobs'[1].stage = "key" /\ jobs'[1].todo = jobs[1].todo
      BY <1>1, <3>1 DEF Job
    <3> QED
      BY <1>2, <3>1, <3>2 DEF ViewsInvariant, Awaiting, Settled, viewerVars
  <2> QED
    BY <2>1, <2>2
<1>6. CASE WriteKey(i)
  <2>1. /\ jobs' = [jobs EXCEPT ![1].stage = "subscribers"] /\ presence' = jobs[1].online
        /\ UNCHANGED viewerVars
    BY <1>1, <1>6 DEF WriteKey
  <2>2. /\ jobs' # << >> /\ jobs'[1].stage = "subscribers" /\ jobs'[1].todo = jobs[1].todo
        /\ jobs'[1].online = jobs[1].online
    BY <1>1, <2>1 DEF Job
  <2> QED
    BY <1>2, <2>1, <2>2 DEF ViewsInvariant, Awaiting, Settled, viewerVars
<1>7. CASE ReadSubscribers(i)
  <2>1. /\ jobs[1].stage = "subscribers"
        /\ jobs' = [jobs EXCEPT ![1].stage = "tell", ![1].todo = subscribed]
        /\ missed' = missed \cup {v \in Viewers \ subscribed : load[v] \notin {Away, Loaded}}
        /\ UNCHANGED <<presence, subscribed, load, inbox, shown>>
    BY <1>1, <1>7 DEF ReadSubscribers
  <2>2. /\ jobs' # << >> /\ jobs'[1].stage = "tell" /\ jobs'[1].todo = subscribed
        /\ jobs'[1].online = jobs[1].online
    <3>1. PICK job : job = [jobs[1] EXCEPT !.stage = "tell", !.todo = subscribed]
      OBVIOUS
    <3>2. jobs' = [jobs EXCEPT ![1] = job]
      BY <2>1, <3>1
    <3>3. {"stage", "todo", "online"} \subseteq DOMAIN jobs[1]
      BY <1>1 DEF Job
    <3>4. job.stage = "tell" /\ job.todo = subscribed /\ job.online = jobs[1].online
      BY <3>1, <3>3
    <3> QED
      BY <1>1, <3>2, <3>4
  <2>3. Awaiting' = subscribed
    BY <2>2 DEF Awaiting
  <2>4. \A v \in Viewers : Placed(v, load'[v], inbox'[v], subscribed', Awaiting')
    BY <1>2, <2>1, <2>3 DEF Placed
  <2>5. ASSUME NEW v \in Viewers, v \notin missed', v \notin subscribed
        PROVE  InSync(load'[v], inbox'[v], shown'[v], presence')
    <3>1. load[v] = Away \/ load[v] = Loaded
      BY <2>1, <2>5
    <3>2. load[v] # Loaded
      BY <1>2, <2>5 DEF Placed, Loaded
    <3> QED
      BY <2>1, <3>1, <3>2 DEF InSync, Away
  <2> QED
    BY <1>2, <2>1, <2>2, <2>3, <2>4, <2>5 DEF ViewsInvariant
<1>8. ASSUME NEW v \in Viewers, Tell(i, v)
      PROVE  ViewsInvariant'
  <2>1. PICK item : item = [kind |-> "event", online |-> jobs[1].online]
    OBVIOUS
  <2>2. /\ v \in jobs[1].todo
        /\ inbox' = [inbox EXCEPT ![v] = Append(inbox[v], item)]
        /\ jobs' = [jobs EXCEPT ![1].todo = jobs[1].todo \ {v}]
        /\ UNCHANGED <<presence, subscribed, load, shown, missed>>
    BY <1>1, <1>8, <2>1 DEF Tell, Remaining
  <2>3. /\ jobs' # << >> /\ jobs'[1].stage = jobs[1].stage /\ jobs'[1].online = jobs[1].online
        /\ jobs'[1].todo = jobs[1].todo \ {v}
    BY <1>1, <2>2 DEF Job
  <2>4. Awaiting' = jobs[1].todo \ {v}
    BY <2>3 DEF Awaiting
  <2>5. item \in Item /\ item.kind = "event" /\ item.online = jobs[1].online
    BY <1>1, <2>1 DEF Item, Job
  <2>6. inbox \in [Viewers -> Seq(Item)] /\ presence \in BOOLEAN
    BY DEF TypeOK
  <2>7. /\ inbox'[v] = Append(inbox[v], item) /\ inbox[v] \in Seq(Item)
        /\ \A w \in Viewers \ {v} : inbox'[w] = inbox[w]
    BY <2>2, <2>6
  <2>8. load[v].stage = "follow"
    BY <1>2, <2>2 DEF Placed
  <2>9. Placed(v, load'[v], inbox'[v], subscribed', Awaiting')
    BY <1>2, <2>2, <2>4, <2>5, <2>7, <2>8 DEF Placed
  <2>10. \A w \in Viewers \ {v} : Placed(w, load'[w], inbox'[w], subscribed', Awaiting')
    BY <1>2, <2>2, <2>4, <2>7 DEF Placed
  <2>11. Settled' => Settled /\ jobs[1].stage = "tell"
    BY <1>1, <1>3, <2>3 DEF Settled, Opened
  <2>12. ASSUME Settled'
         PROVE  InSync(load'[v], inbox'[v], shown'[v], presence')
    <3>1. item.online = presence
      BY <1>2, <2>5, <2>11, <2>12
    <3>2. ComesToShow(inbox'[v], shown[v], presence)
      BY <2>5, <2>6, <2>7, <3>1, ShowsAppended DEF Agrees
    <3> QED
      BY <2>2, <2>8, <3>2 DEF InSync
  <2>13. ASSUME Settled', NEW w \in Viewers
         PROVE  w \in missed' \cup Awaiting' \/ InSync(load'[w], inbox'[w], shown'[w], presence')
    <3>1. CASE w = v
      BY <2>12, <2>13, <3>1
    <3>2. CASE w # v
      BY <1>2, <2>2, <2>4, <2>7, <2>11, <2>13, <3>2
    <3> QED
      BY <3>1, <3>2
  <2>14. \A w \in Viewers : Placed(w, load'[w], inbox'[w], subscribed', Awaiting')
    BY <2>9, <2>10
  <2> QED
    BY <1>2, <2>2, <2>3, <2>13, <2>14 DEF ViewsInvariant
<1>9. CASE AllTold(i)
  <2>1. RemoveAt(jobs, 1) = << >>
    BY <1>1, RemoveAtType
  <2> QED
    BY <1>1, <1>4, <1>9, <2>1 DEF AllTold
<1> QED
  BY <1>5, <1>6, <1>7, <1>8, <1>9 DEF JobStep
\* What a viewer's client does and receives brings it closer to the key.
LEMMA ViewerKeepsViews ==
    ASSUME TypeOK, OneAtATime, MergeFollows, ViewsInvariant, NEW v \in Viewers,
           Arrive(v) \/ Depart(v) \/ LoadStep(v) \/ Receive(v)
    PROVE  ViewsInvariant'
<1>1. /\ load \in [Viewers -> Load] /\ inbox \in [Viewers -> Seq(Item)]
      /\ shown \in [Viewers -> BOOLEAN] /\ presence \in BOOLEAN
      /\ load[v] \in Load /\ inbox[v] \in Seq(Item) /\ shown[v] \in BOOLEAN
  BY DEF TypeOK
<1>2. /\ \A w \in Viewers : Placed(w, load[w], inbox[w], subscribed, Awaiting)
      /\ jobs # << >> /\ jobs[1].stage \in {"subscribers", "tell"} => presence = jobs[1].online
      /\ Settled => \A w \in Viewers : w \in missed \cup Awaiting
                                            \/ InSync(load[w], inbox[w], shown[w], presence)
  BY DEF ViewsInvariant
<1>3. UNCHANGED <<userVars, presence>>
  BY DEF Arrive, Depart, LoadStep, ReadVisible, ReadKeys, Subscribe, AskAgain,
         Receive, ReceiveReady, ReceiveMerge, HandlePresenceUpdate
<1>4. PICK step, items, view : step = load'[v] /\ items = inbox'[v] /\ view = shown'[v]
  OBVIOUS
<1>5. ASSUME \/ UNCHANGED jobs
             \/ jobs' = << >> /\ jobs = << >>
             \/ /\ jobs # << >> /\ jobs' # << >> /\ jobs'[1].stage = jobs[1].stage
                /\ jobs'[1].online = jobs[1].online,
             Awaiting' \in {Awaiting, Awaiting \ {v}},
             \A w \in Viewers \ {v} : /\ load'[w] = load[w] /\ inbox'[w] = inbox[w]
                                      /\ shown'[w] = shown[w]
                                      /\ w \in subscribed' <=> w \in subscribed
                                      /\ w \in missed' <=> w \in missed,
             Placed(v, step, items, subscribed', Awaiting'),
             Settled => v \in missed' \cup Awaiting' \/ InSync(step, items, view, presence)
      PROVE  ViewsInvariant'
  <2>1. \A w \in Viewers : Placed(w, load'[w], inbox'[w], subscribed', Awaiting')
    <3>1. ASSUME NEW w \in Viewers \ {v}
          PROVE  Placed(w, load'[w], inbox'[w], subscribed', Awaiting')
      <4>1. Placed(w, load[w], inbox[w], subscribed, Awaiting)
        BY <1>2
      <4> QED
        BY <1>5, <4>1 DEF Placed
    <3> QED
      BY <1>4, <1>5, <3>1
  <2>2. jobs' # << >> /\ jobs'[1].stage \in {"subscribers", "tell"} => presence' = jobs'[1].online
    BY <1>2, <1>3, <1>5
  <2>3. Settled' => Settled
    BY <1>3, <1>5 DEF Settled, Opened, userVars
  <2>4. ASSUME Settled', NEW w \in Viewers
        PROVE  w \in missed' \cup Awaiting' \/ InSync(load'[w], inbox'[w], shown'[w], presence')
    <3>1. CASE w = v
      BY <1>3, <1>4, <1>5, <2>3, <2>4, <3>1
    <3>2. CASE w # v
      BY <1>2, <1>3, <1>5, <2>3, <2>4, <3>2
    <3> QED
      BY <3>1, <3>2
  <2> QED
    BY <2>1, <2>2, <2>4 DEF ViewsInvariant
<1>6. ASSUME UNCHANGED <<jobs, subscribed, missed>>,
             \A w \in Viewers \ {v} : /\ load'[w] = load[w] /\ inbox'[w] = inbox[w]
                                      /\ shown'[w] = shown[w],
             Placed(v, step, items, subscribed, Awaiting),
             Settled => v \in missed \cup Awaiting \/ InSync(step, items, view, presence)
      PROVE  ViewsInvariant'
  <2>1. Awaiting' = Awaiting
    BY <1>6 DEF Awaiting
  <2> QED
    BY <1>5, <1>6, <2>1
<1>7. Placed(v, load[v], inbox[v], subscribed, Awaiting)
  BY <1>2
<1>8. Settled => v \in missed \cup Awaiting \/ InSync(load[v], inbox[v], shown[v], presence)
  BY <1>2
<1>9. CASE Arrive(v)
  <2>1. /\ load[v] = Away /\ step = [stage |-> "ready"] /\ items = inbox[v] /\ view = shown[v]
        /\ UNCHANGED <<jobs, subscribed, inbox, shown, missed>>
        /\ \A w \in Viewers \ {v} : load'[w] = load[w]
    BY <1>1, <1>4, <1>9 DEF Arrive
  <2>2. Placed(v, step, items, subscribed, Awaiting)
    BY <1>7, <2>1 DEF Placed, Away
  <2>3. InSync(step, items, view, presence)
    BY <2>1 DEF InSync
  <2> QED
    BY <1>6, <2>1, <2>2, <2>3
<1>10. CASE ReadVisible(v)
  <2>1. /\ load[v].stage = "ready" /\ step = [stage |-> "keys", visible |-> status = "visible"]
        /\ items = inbox[v] /\ view = shown[v]
        /\ UNCHANGED <<jobs, subscribed, inbox, shown, missed>>
        /\ \A w \in Viewers \ {v} : load'[w] = load[w]
    BY <1>1, <1>4, <1>10 DEF ReadVisible
  <2>2. Placed(v, step, items, subscribed, Awaiting)
    BY <1>7, <2>1 DEF Placed
  <2>3. Settled => InSync(step, items, view, presence)
    BY <2>1 DEF InSync, Settled
  <2> QED
    BY <1>6, <2>1, <2>2, <2>3
<1>11. CASE ReadKeys(v)
  <2>1. PICK item : item = [kind |-> "ready", online |-> load[v].visible /\ presence]
    OBVIOUS
  <2>2. /\ load[v].stage = "keys" /\ step = [stage |-> "wait"]
        /\ items = Append(inbox[v], item) /\ view = shown[v]
        /\ UNCHANGED <<jobs, subscribed, shown, missed>>
        /\ \A w \in Viewers \ {v} : load'[w] = load[w] /\ inbox'[w] = inbox[w]
    BY <1>1, <1>4, <1>11, <2>1 DEF ReadKeys
  <2>3. /\ item \in Item /\ item.kind = "ready"
        /\ item.online = (load[v].visible /\ presence)
    <3>1. (load[v].visible /\ presence) \in BOOLEAN
      OBVIOUS
    <3> QED
      BY <2>1, <3>1 DEF Item
  <2>4. inbox[v] = << >> /\ Len(items) = 1 /\ items[1] = item
    BY <1>1, <1>7, <2>2 DEF Placed
  <2>5. Placed(v, step, items, subscribed, Awaiting)
    BY <1>7, <2>2, <2>3, <2>4 DEF Placed
  <2>6. ASSUME Settled, v \notin missed \cup Awaiting
        PROVE  InSync(step, items, view, presence)
    <3>1. item.online = presence
      BY <1>1, <1>8, <2>2, <2>3, <2>6 DEF InSync
    <3>2. ComesToShow(items, view, presence)
      BY <1>1, <2>2, <2>3, <3>1, ShowsAppended DEF Agrees
    <3> QED
      BY <2>2, <3>2 DEF InSync
  <2> QED
    BY <1>6, <2>2, <2>5, <2>6
<1>12. CASE Subscribe(v)
  <2>1. /\ load[v].stage = "follow" /\ step = [load[v] EXCEPT !.left = load[v].left \ {"subscribe"}]
        /\ items = inbox[v] /\ view = shown[v] /\ subscribed' = subscribed \cup {v}
        /\ UNCHANGED <<jobs, inbox, shown, missed>>
        /\ \A w \in Viewers \ {v} : load'[w] = load[w]
    BY <1>1, <1>4, <1>12 DEF Subscribe, Done
  <2>2. step.stage = "follow"
    BY <1>1, <2>1 DEF Load
  <2>3. Awaiting' = Awaiting
    BY <2>1 DEF Awaiting
  <2>4. Placed(v, step, items, subscribed', Awaiting')
    BY <1>7, <2>1, <2>2, <2>3 DEF Placed
  <2>5. Settled => v \in missed' \cup Awaiting' \/ InSync(step, items, view, presence)
    BY <1>8, <2>1, <2>2, <2>3 DEF InSync
  <2> QED
    BY <1>5, <2>1, <2>3, <2>4, <2>5
<1>13. CASE AskAgain(v)
  <2>1. PICK item : item = [kind |-> "merge", online |-> presence]
    OBVIOUS
  <2>2. /\ load[v].stage = "follow" /\ step = [load[v] EXCEPT !.left = load[v].left \ {"ask"}]
        /\ items = Append(inbox[v], item) /\ view = shown[v]
        /\ UNCHANGED <<jobs, subscribed, shown, missed>>
        /\ \A w \in Viewers \ {v} : load'[w] = load[w] /\ inbox'[w] = inbox[w]
    BY <1>1, <1>4, <1>13, <2>1 DEF AskAgain, Done
  <2>3. item \in Item /\ item.kind = "merge" /\ item.online = presence
    BY <1>1, <2>1 DEF Item
  <2>4. step.stage = "follow" /\ ("subscribe" \in step.left <=> "subscribe" \in load[v].left)
    BY <1>1, <2>2 DEF Load
  <2>5. Placed(v, step, items, subscribed, Awaiting)
    BY <1>1, <1>7, <2>2, <2>3, <2>4 DEF Placed
  <2>6. ASSUME Settled, v \notin missed \cup Awaiting
        PROVE  InSync(step, items, view, presence)
    <3>1. ComesToShow(inbox[v], shown[v], presence)
      BY <1>8, <2>2, <2>6 DEF InSync
    <3>2. ComesToShow(items, view, presence)
      BY <1>1, <2>2, <2>3, <3>1, ShowsAppended DEF Agrees
    <3> QED
      BY <2>4, <3>2 DEF InSync
  <2> QED
    BY <1>6, <2>2, <2>5, <2>6
<1>14. CASE Receive(v)
  <2>1. PICK first : first = Head(inbox[v])
    OBVIOUS
  <2>2. /\ inbox[v] # << >> /\ items = Tail(inbox[v]) /\ view = ViewAfter(first, shown[v])
        /\ UNCHANGED <<jobs, subscribed, missed>>
        /\ \A w \in Viewers \ {v} : /\ load'[w] = load[w] /\ inbox'[w] = inbox[w]
                                     /\ shown'[w] = shown[w]
    BY <1>1, <1>4, <1>14, <2>1 DEF Receive, ReceiveReady, ReceiveMerge, HandlePresenceUpdate,
                                   Got, Done, ViewAfter
  <2>3. load[v].stage \in {"wait", "follow"}
    BY <1>1, <1>7, <2>2 DEF Placed, Load
  <2>4. /\ first = inbox[v][1] /\ 1 \in 1..Len(inbox[v])
        /\ first.kind = "merge" => load[v].stage = "follow"
    BY <1>1, <2>1, <2>2 DEF MergeFollows
  <2>5. step.stage = "follow" \/ step = load[v]
    BY <1>1, <1>4, <1>14, <2>1, <2>4 DEF Receive, ReceiveReady, ReceiveMerge,
                                          HandlePresenceUpdate, Got, Done, Load
  <2>6. Placed(v, step, items, subscribed, Awaiting)
    <3>1. /\ Len(inbox[v]) \in Nat \ {0} /\ Len(items) = Len(inbox[v]) - 1
          /\ \A i \in 1..Len(items) : items[i] = inbox[v][i + 1]
      BY <1>1, <2>2
    <3>2. CASE load[v].stage = "wait"
      <4>1. first.kind = "ready" /\ Len(items) = 0
        BY <1>7, <2>4, <3>1, <3>2 DEF Placed
      <4>2. ReceiveReady(v)
        BY <1>14, <2>1, <4>1 DEF Receive, ReceiveMerge, HandlePresenceUpdate, Got
      <4>3. step.stage = "follow" /\ "subscribe" \in step.left
        BY <1>1, <1>4, <4>2 DEF ReceiveReady
      <4> QED
        BY <4>1, <4>3 DEF Placed
    <3>3. CASE load[v].stage = "follow"
      <4>1. \A i \in 1..Len(inbox[v]) : inbox[v][i].kind # "ready"
        BY <1>7, <3>3 DEF Placed
      <4>2. \A i \in 1..Len(items) : items[i].kind # "ready"
        BY <3>1, <4>1
      <4>3. ReceiveMerge(v) \/ HandlePresenceUpdate(v)
        BY <1>14, <2>1, <2>4, <4>1 DEF Receive, ReceiveReady, Got
      <4>4. /\ step.stage = "follow"
            /\ "subscribe" \in load[v].left => "subscribe" \in step.left
        BY <1>1, <1>4, <3>3, <4>3 DEF ReceiveMerge, HandlePresenceUpdate, Done, Load
      <4> QED
        BY <1>7, <3>3, <4>2, <4>4 DEF Placed
    <3> QED
      BY <2>3, <3>2, <3>3
  <2>7. ASSUME Settled, v \notin missed \cup Awaiting
        PROVE  InSync(step, items, view, presence)
    <3>1. ComesToShow(inbox[v], shown[v], presence)
      BY <1>8, <2>3, <2>7 DEF InSync
    <3>2. ComesToShow(items, view, presence)
      BY <1>1, <2>1, <2>2, <3>1, ShowsReceived
    <3> QED
      BY <2>3, <2>5, <3>2 DEF InSync
  <2> QED
    BY <1>6, <2>2, <2>6, <2>7
<1>15. CASE Depart(v)
  <2>1. /\ step = Away /\ items = << >> /\ subscribed' = subscribed \ {v}
        /\ missed' = missed \ {v}
        /\ \A w \in Viewers \ {v} : /\ load'[w] = load[w] /\ inbox'[w] = inbox[w]
                                     /\ shown'[w] = shown[w]
    BY <1>1, <1>4, <1>15 DEF Depart
  <2>2. jobs' = [i \in DOMAIN jobs |-> [jobs[i] EXCEPT !.todo = @ \ {v}]]
    BY <1>15 DEF Depart
  <2>3. jobs \in Seq(Job)
    BY DEF TypeOK
  <2>4. CASE jobs = << >>
    <3>1. jobs' = << >>
      BY <2>2, <2>4
    <3>2. Awaiting' = Awaiting /\ Awaiting = {}
      BY <2>4, <3>1 DEF Awaiting
    <3>3. Placed(v, step, items, subscribed', Awaiting')
      BY <2>1, <3>2 DEF Placed, Away
    <3>4. InSync(step, items, view, presence)
      BY <2>1 DEF InSync, Away
    <3> QED
      BY <1>5, <2>1, <2>4, <3>1, <3>2, <3>3, <3>4
  <2>5. CASE jobs # << >>
    <3>1. 1 \in DOMAIN jobs /\ jobs[1] \in Job
      BY <2>3, <2>5
    <3>2. DOMAIN jobs' = DOMAIN jobs /\ jobs'[1] = [jobs[1] EXCEPT !.todo = jobs[1].todo \ {v}]
      BY <2>2, <3>1
    <3>3. jobs' # << >>
      BY <3>1, <3>2
    <3>4. /\ jobs'[1].stage = jobs[1].stage /\ jobs'[1].online = jobs[1].online
          /\ jobs'[1].todo = jobs[1].todo \ {v}
      BY <3>1, <3>2 DEF Job
    <3>5. Awaiting' = Awaiting \ {v}
      BY <2>5, <3>3, <3>4 DEF Awaiting
    <3>6. Placed(v, step, items, subscribed', Awaiting')
      BY <2>1, <3>5 DEF Placed, Away
    <3>7. InSync(step, items, view, presence)
      BY <2>1 DEF InSync, Away
    <3> QED
      BY <1>5, <2>1, <2>5, <3>3, <3>4, <3>5, <3>6, <3>7
  <2> QED
    BY <2>4, <2>5
<1> QED
  BY <1>9, <1>10, <1>11, <1>12, <1>13, <1>14, <1>15 DEF LoadStep
\* For a user who waits until what was done before is announced, a viewer's client that has
\* loaded and received everything shows a user who is not invisible as the key says, unless an
\* announcement was made between its snapshot and its subscription (layout.tsx:364-377,
\* ws.gateway.ts:89-160): for any number of viewers, who come and go as they like.
THEOREM ViewersFollowTheKey ==
    ASSUME ~Overlap
    PROVE  Spec => []ViewersShowTheKey
<1>1. Init => ViewsInvariant
  <2> SUFFICES ASSUME Init PROVE ViewsInvariant
    OBVIOUS
  <2>1. Awaiting = {} /\ jobs = << >>
    BY DEF Init, Awaiting
  <2>2. ASSUME NEW v \in Viewers
        PROVE  /\ Placed(v, load[v], inbox[v], subscribed, Awaiting)
               /\ InSync(load[v], inbox[v], shown[v], presence)
    BY <2>1 DEF Init, Placed, InSync, Away
  <2> QED
    BY <2>1, <2>2 DEF ViewsInvariant
<1>2. TypeOK /\ MergeFollows /\ OneAtATime /\ ViewsInvariant /\ [Next]_vars => ViewsInvariant'
  <2> SUFFICES ASSUME TypeOK, MergeFollows, OneAtATime, ViewsInvariant, [Next]_vars
               PROVE  ViewsInvariant'
    OBVIOUS
  <2>1. CASE UNCHANGED vars
    BY <2>1 DEF vars, userVars, viewerVars, ViewsInvariant, Awaiting, Settled, Opened
  <2>2. CASE UserAct \/ SaveStatus \/ FailStatus \/ \E s \in Sockets : SocketStep(s)
    <3>1. /\ UNCHANGED viewerVars
          /\ Awaiting' = Awaiting
          /\ \/ UNCHANGED <<jobs, presence>>
             \/ jobs' = << >>
             \/ jobs'[1].stage \in {"read", "key"}
          /\ Settled' => Settled /\ UNCHANGED presence
      BY <2>2, UserUnsettles
    <3> QED
      BY <3>1 DEF ViewsInvariant, viewerVars
  <2> QED
    BY <2>1, <2>2, JobKeepsViews, ViewerKeepsViews DEF Next
<1>3. ViewsInvariant => ViewersShowTheKey
  <2> SUFFICES ASSUME ViewsInvariant, Announced, status = "visible",
                      NEW v \in Viewers \ missed, load[v] = Loaded, inbox[v] = << >>
               PROVE  shown[v] = presence
    BY DEF ViewersShowTheKey
  <2>1. jobs = << >> /\ Settled /\ Awaiting = {}
    BY DEF Announced, Settled, Opened, Awaiting
  <2>2. ComesToShow(inbox[v], shown[v], presence)
    BY <2>1 DEF ViewsInvariant, InSync, Loaded
  <2> QED
    BY <2>2 DEF ComesToShow
<1> QED
  BY <1>1, <1>2, <1>3, TypesHold, OneAtATimeHolds, PTL DEF Spec
=============================================================================
