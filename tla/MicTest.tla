------------------------------ MODULE MicTest ------------------------------
(***************************************************************************)
(* The microphone test of the settings page: a click asks the browser for  *)
(* the microphone, three seconds are recorded, and what was recorded can   *)
(* be replayed.  The page can be left at any time.                         *)
(*                                                                         *)
(* The click, the answer of the browser, the timer, the end of a recorder  *)
(* and the end of the tracks it records are events of their own.  What     *)
(* they share are a stream, a list of chunks and a recorded URL, one of    *)
(* each for all recordings.                                                *)
(***************************************************************************)
EXTENDS Naturals, FiniteSets

CONSTANTS
    Takes,  \* bound: the recordings that are ever asked for
    None    \* no stream, no recording

VARIABLES
    recorder,   \* recorder[t]: how far take t is
    live,       \* the takes whose tracks are live: the microphone is on for each
    stream,     \* streamRef: the take whose tracks a clean-up stops
    timeouts,   \* the takes whose three seconds are running
    recording,  \* isRecording: the button is disabled
    audio,      \* audioURL: the take that can be replayed
    urls,       \* the takes whose object URL is not revoked
    mounted,    \* the page is open
    paired,     \* history: the browser was asked while it was still being asked
    cut         \* history: the tracks of a take ended while it was recorded

micVars == <<recorder, live, stream, timeouts, recording, audio, urls, mounted, paired, cut>>

\* Every variable has its type.
TypeOK ==
    /\ recorder \in [Takes -> {"none", "asking", "recording", "stopping", "ended"}]
    /\ live \subseteq Takes
    /\ stream \in Takes \cup {None}
    /\ timeouts \subseteq Takes
    /\ recording \in BOOLEAN
    /\ audio \in Takes \cup {None}
    /\ urls \subseteq Takes
    /\ mounted \in BOOLEAN /\ paired \in BOOLEAN /\ cut \in BOOLEAN

\* An operator whose name ends in _Mutant is a plausible mistake in the one it is named
\* for, and part of no behaviour.

At(stage) == {t \in Takes : recorder[t] = stage}

\* The component is gone once it is unmounted: setting its state does nothing.
SetRecording(on) == recording' = IF mounted THEN on ELSE recording

\* The tracks of the take that streamRef names are stopped.  A recorder without tracks stops.
StopStream(others) ==
    /\ live' = live \ {stream}
    /\ stream' = None
    /\ recorder' = [t \in Takes |->
                       IF t = stream /\ others[t] = "recording" THEN "stopping" ELSE others[t]]
    /\ cut' = (cut \/ (stream # None /\ others[stream] = "recording"))

-----------------------------------------------------------------------------
\* A click on the button, which is disabled only once the browser has answered.
StartRecording(t) ==
    /\ mounted /\ ~recording
    /\ recorder[t] = "none"
    /\ StopStream([recorder EXCEPT ![t] = "asking"])
    /\ urls' = urls \ {audio}
    /\ paired' = (paired \/ At("asking") # {})
    /\ UNCHANGED <<timeouts, recording, audio, mounted>>

GotStream(t) ==
    /\ recorder[t] = "asking"
    /\ recorder' = [recorder EXCEPT ![t] = "recording"]
    /\ live' = live \cup {t}
    /\ stream' = t
    /\ SetRecording(TRUE)
    /\ timeouts' = timeouts \cup {t}
    /\ UNCHANGED <<audio, urls, mounted, paired, cut>>

\* The browser refuses the microphone, or there is none.
AccessFails(t) ==
    /\ recorder[t] = "asking"
    /\ recorder' = [recorder EXCEPT ![t] = "ended"]
    /\ SetRecording(FALSE)
    /\ UNCHANGED <<live, stream, timeouts, audio, urls, mounted, paired, cut>>

\* The button is enabled again only if the recorder is still recording.
TimeUp(t) ==
    /\ t \in timeouts
    /\ timeouts' = timeouts \ {t}
    /\ IF recorder[t] = "recording"
       THEN recorder' = [recorder EXCEPT ![t] = "stopping"] /\ SetRecording(FALSE)
       ELSE UNCHANGED <<recorder, recording>>
    /\ UNCHANGED <<live, stream, audio, urls, mounted, paired, cut>>

OnStop_Mutant(t) ==
    /\ recorder[t] = "stopping"
    /\ recorder' = [recorder EXCEPT ![t] = "ended"]
    /\ audio' = t /\ urls' = (urls \cup {t}) \ {audio}
    /\ UNCHANGED <<live, stream, timeouts, recording, mounted, paired, cut>>

\* What was recorded gets a URL, and the effect for the URL before it is cleaned up.
OnStop(t) ==
    /\ recorder[t] = "stopping"
    /\ StopStream([recorder EXCEPT ![t] = "ended"])
    /\ IF mounted
       THEN audio' = t /\ urls' = (urls \cup {t}) \ {audio}
       ELSE urls' = urls \cup {t} /\ UNCHANGED audio
    /\ UNCHANGED <<timeouts, recording, mounted, paired>>

\* The microphone is unplugged, or no longer allowed.
TracksEnd(t) ==
    /\ t \in live
    /\ live' = live \ {t}
    /\ recorder' = [recorder EXCEPT ![t] = IF @ = "recording" THEN "stopping" ELSE @]
    /\ cut' = (cut \/ recorder[t] = "recording")
    /\ UNCHANGED <<stream, timeouts, recording, audio, urls, mounted, paired>>

\* The page is left: the effect is cleaned up, whatever is still to come of a recording.
Unmount ==
    /\ mounted
    /\ mounted' = FALSE
    /\ StopStream(recorder)
    /\ urls' = urls \ {audio}
    /\ UNCHANGED <<timeouts, recording, audio, paired>>

-----------------------------------------------------------------------------
Init ==
    /\ recorder = [t \in Takes |-> "none"]
    /\ live = {} /\ timeouts = {} /\ urls = {}
    /\ stream = None /\ audio = None
    /\ recording = FALSE
    /\ mounted = TRUE
    /\ paired = FALSE /\ cut = FALSE

Next ==
    \/ \E t \in Takes :
        \/ StartRecording(t) \/ GotStream(t) \/ AccessFails(t)
        \/ TimeUp(t) \/ OnStop(t) \/ TracksEnd(t)
    \/ Unmount

Spec == Init /\ [][Next]_micVars

-----------------------------------------------------------------------------
\* Unless the button was clicked again before the browser had answered, the microphone is off
\* whenever nothing is recorded or asked for, wherever the page was left and whatever ended on
\* its own (media-settings-section.tsx:149-214); and the button is enabled then, unless the
\* tracks of a take ended before its time.  Of two answers the second takes the place of the
\* first, whose tracks nothing stops any more.
MicrophoneIsReleased ==
    At("asking") \cup At("recording") \cup At("stopping") = {} /\ ~paired =>
        /\ live = {}
        /\ mounted /\ ~cut => ~recording
=============================================================================
