------------------------------- MODULE Typing --------------------------------
(***************************************************************************)
(* The typing indicator of one user in one channel: the text input, which  *)
(* announces typing at most once in eight seconds, the service and the     *)
(* gateway that pass the announcement on, and the store of every client    *)
(* that shows it for ten seconds.                                          *)
(*                                                                         *)
(* Time passes in seconds.  An announcement goes to the service, which     *)
(* finds out for whom it is; a message takes another way to the clients,   *)
(* and either can come first.                                              *)
(***************************************************************************)
EXTENDS Naturals

CONSTANTS
    Typist,
    Viewers,    \* the others, one client each
    Cooldown,   \* seconds: 8
    Timeout,    \* seconds: 10
    Delay,      \* bound: how many seconds an event is on its way
    MaxChanges  \* bound: how often the input is left, a page loaded or the access changed

VARIABLES
    allowed,    \* the recipients of a direct channel, or the members who may view a guild's
    cooling,    \* seconds until isTypingStatusCooldown is reset; 0 when it is FALSE
    wire,       \* what is on its way: an announcement to the service, or an event to a viewer
    typing,     \* the viewers whose store has the user in typingUsers
    timers,     \* timers[v]: seconds left of the timers that v's store started
    changes,
    quiet,      \* history: seconds since the input last changed, capped
    keyed,      \* history: the input changed in this second
    steady      \* history: steady[v]: for how many seconds it did, while
                \* v could see it: since the last message, or v's load

typingVars == <<allowed, cooling, wire, typing, timers, changes, quiet, keyed, steady>>

MaxQuiet == Timeout + Delay + 1      \* the caps of quiet and steady
MaxSteady == Cooldown + 2 * Delay + 1

TypeOK ==
    /\ allowed \subseteq Viewers \cup {Typist}
    /\ cooling \in 0..Cooldown
    /\ wire \subseteq [event : {"typing", "message"}, to : Viewers \cup {"service"}, age : 0..Delay]
    /\ typing \subseteq Viewers
    /\ \A v \in Viewers : timers[v] \subseteq 1..Timeout /\ steady[v] \in 0..MaxSteady
    /\ quiet \in 0..MaxQuiet

-----------------------------------------------------------------------------
(* The text input, and what it sends. *)

Event(event, to, age) == [event |-> event, to |-> to, age |-> age]

Others == IF Typist \in allowed THEN allowed \ {Typist} ELSE {}

\* onInputChanged.
InputChanged(sent) ==
    /\ wire' = wire \cup sent \cup IF cooling = 0 THEN {Event("typing", "service", 0)} ELSE {}
    /\ cooling' = IF cooling = 0 THEN Cooldown ELSE cooling
    /\ quiet' = 0

Key ==
    /\ ~keyed                     \* bound: once in a second is enough
    /\ InputChanged({})
    /\ keyed' = TRUE
    /\ UNCHANGED <<allowed, typing, timers, changes, steady>>

\* Enter: the message is sent, and the input then changes to the empty text.  The message may
\* be refused.
Enter ==
    /\ keyed
    /\ \E sent \in {{Event("message", v, 0) : v \in Others}, {}} : InputChanged(sent)
    /\ keyed' = FALSE
    /\ steady' = [v \in Viewers |-> 0]
    /\ UNCHANGED <<allowed, typing, timers, changes>>

\* Another channel is opened, and this one again: the new input starts without a cooldown.
Leave ==
    /\ changes < MaxChanges /\ cooling > 0
    /\ changes' = changes + 1
    /\ cooling' = 0
    /\ UNCHANGED <<allowed, wire, typing, timers, quiet, keyed, steady>>

-----------------------------------------------------------------------------
(* The service, and the store of a viewer. *)

\* broadcastUserTyping: who may not view the channel is refused.  The gateway sends the event
\* to the sockets that each recipient has by then.
BroadcastUserTyping(e) ==
    /\ e.to = "service"
    /\ wire' = (wire \ {e}) \cup {Event("typing", v, e.age) : v \in Others}
    /\ UNCHANGED <<allowed, cooling, typing, timers, changes, quiet, keyed, steady>>

\* Someone comes to see the channel, or no longer does.
Access(u) ==
    /\ changes < MaxChanges
    /\ changes' = changes + 1
    /\ allowed' = IF u \in allowed THEN allowed \ {u} ELSE allowed \cup {u}
    /\ steady' = [v \in Viewers |-> IF u \in {v, Typist} THEN 0 ELSE steady[v]]
    /\ UNCHANGED <<cooling, wire, typing, timers, quiet, keyed>>

\* An operator whose name ends in _Mutant is a plausible mistake in the one it is named
\* for, and part of no behaviour.
HandleTypingStart_Mutant(v) ==
    /\ typing' = typing \cup {v}
    /\ timers' = [timers EXCEPT ![v] = IF v \in typing THEN {Timeout} ELSE {}]

\* The timer of the entry that is there is cleared.
HandleTypingStart(v) ==
    /\ typing' = typing \cup {v}
    /\ timers' = [timers EXCEPT ![v] = {Timeout}]

HandleTypingStop(v) ==
    /\ typing' = typing \ {v}
    /\ timers' = [timers EXCEPT ![v] = {}]

Receive(e) ==
    /\ e.to # "service"
    /\ wire' = wire \ {e}
    /\ IF e.event = "typing" THEN HandleTypingStart(e.to) ELSE HandleTypingStop(e.to)
    /\ UNCHANGED <<allowed, cooling, changes, quiet, keyed, steady>>

Load(v) ==
    /\ changes < MaxChanges
    /\ changes' = changes + 1
    /\ HandleTypingStop(v)
    /\ \E lost \in SUBSET {e \in wire : e.to = v} : wire' = wire \ lost
    /\ steady' = [steady EXCEPT ![v] = 0]
    /\ UNCHANGED <<allowed, cooling, quiet, keyed>>

-----------------------------------------------------------------------------
\* A second passes.  Every timer runs, and one that is over stops the indicator.
Tick ==
    LET over == {v \in Viewers : 1 \in timers[v]} IN
    /\ \A e \in wire : e.age < Delay
    /\ wire' = {[e EXCEPT !.age = @ + 1] : e \in wire}
    /\ cooling' = IF cooling = 0 THEN 0 ELSE cooling - 1
    /\ typing' = typing \ over
    /\ timers' = [v \in Viewers |->
                     IF v \in over THEN {} ELSE {t - 1 : t \in timers[v]}]
    /\ quiet' = IF quiet < MaxQuiet THEN quiet + 1 ELSE quiet
    /\ steady' = [v \in Viewers |-> IF ~(keyed /\ {v, Typist} \subseteq allowed) THEN 0
                                    ELSE IF steady[v] < MaxSteady THEN steady[v] + 1 ELSE MaxSteady]
    /\ keyed' = FALSE
    /\ UNCHANGED <<allowed, changes>>

Init ==
    /\ allowed = Viewers \cup {Typist}
    /\ cooling = 0 /\ wire = {} /\ typing = {} /\ changes = 0
    /\ timers = [v \in Viewers |-> {}]
    /\ quiet = MaxQuiet /\ keyed = FALSE
    /\ steady = [v \in Viewers |-> 0]

Next ==
    \/ Key \/ Enter \/ Leave \/ Tick
    \/ \E e \in wire : BroadcastUserTyping(e) \/ Receive(e)
    \/ \E v \in Viewers : Load(v)
    \/ \E u \in Viewers \cup {Typist} : Access(u)

Spec == Init /\ [][Next]_typingVars

-----------------------------------------------------------------------------
(* Properties. *)

\* The indicator tells the truth in time (page.tsx:164-175, user-typing-store.ts:36-76).  Nobody
\* is shown as typing longer than the timeout and the delay after the input last changed.
\* And to whoever had the channel on the screen meanwhile, a user who goes on typing is shown
\* without a break from a cooldown and two delays, ten seconds, after the last message on: the
\* cooldown and a delay are shorter than the timeout, and an announcement restarts the timer,
\* so that an old one does not stop it.
IndicatorIsTimely ==
    \A v \in Viewers :
        /\ v \in typing => quiet <= Timeout + Delay
        /\ steady[v] > Cooldown + 2 * Delay => v \in typing

=============================================================================
