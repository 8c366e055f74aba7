------------------------------- MODULE Capture -------------------------------
(***************************************************************************)
(* What the web client records: the camera of useCamera.ts, the shutter of *)
(* CameraScreen.tsx, the drafts of CaptureFlow.tsx and the voice messages  *)
(* of VoiceRecorder.tsx.                                                   *)
(*                                                                         *)
(* Every getUserMedia request is a prompt that is answered whenever the    *)
(* user or the browser likes, and a stream that is lit until its tracks    *)
(* are stopped.  React unmounts a component as soon as its screen is left; *)
(* what the component awaits goes on, with the refs of a component that is *)
(* no longer there.                                                        *)
(***************************************************************************)
EXTENDS Naturals, FiniteSets

CONSTANTS Streams,   \* getUserMedia requests that are open or lit at once
          Drafts,    \* object URLs that are live at once
          NoDraft       \* no draft: not in Drafts

VARIABLES
  screen,   \* what is mounted: "away" is another tab, or nobody signed in
  view,     \* CamStatus, as far as the screen depends on it
  finger,   \* on the shutter; "timer": holdTimer runs
  media,    \* Streams -> the request, and what has become of it
  rec,      \* the camera's MediaRecorder
  shot,     \* capturePhoto awaits its blob
  urls,     \* object URLs that are live
  active,   \* CaptureFlow's ref to the draft's
  sending,  \* CaptureFlow.send awaits the upload; "stray": of one that is gone
  calm      \* a history variable: see Calm below

devices == <<media, rec, shot>>
flow    == <<urls, active, sending>>
capture == <<screen, view, finger, devices, flow, calm>>

-----------------------------------------------------------------------------
\* Camera: the newest request of its component, one superseded by a newer, one whose
\* component is gone, the stream in streamRef, a stream in no ref of a component that
\* will stop it.  mic: startRecording's; voice: VoiceRecorder's, where a stray one is
\* in the refs of a component that is gone.
Lit == {"held", "lost", "mic_on", "voice_on", "voice_stray"}
Fate == Lit \cup {"free", "asked", "late", "orphan", "mic_asked", "mic_orphan",
                  "voice_asked", "voice_orphan"}

In(at)  == {i \in Streams : media[i] = at}

\* Streams and URLs are interchangeable: the next is any one that is free.
Free(i) == media[i] = "free" /\ i = CHOOSE j \in Streams : media[j] = "free"
NewUrl  == CHOOSE d \in Drafts : d \notin urls

CaptureInit ==
  /\ screen = "away" /\ view = "prompting" /\ finger = "up"
  /\ media = [i \in Streams |-> "free"] /\ rec = "none" /\ shot = "none"
  /\ urls = {} /\ active = NoDraft /\ sending = "no" /\ calm = TRUE

\* A page that is loaded has nothing of the page before.
CaptureAnew ==
  /\ screen' = "away" /\ view' = "prompting" /\ finger' = "up"
  /\ media' = [i \in Streams |-> "free"] /\ rec' = "none" /\ shot' = "none"
  /\ urls' = {} /\ active' = NoDraft /\ sending' = "no" /\ calm' = TRUE

\* No function was overtaken while it awaited: nobody has left a screen or turned the
\* camera while a prompt, a recording or a photo was under way.
Calm(quiet) == calm' = (calm /\ quiet)

-----------------------------------------------------------------------------
(* useCamera.                                                              *)

\* start(): the older request is superseded, and the older stream stopped.
Start(i) ==
  /\ Free(i)
  /\ media' = [j \in Streams |->
                 CASE j = i              -> "asked"
                   [] media[j] = "held"  -> "free"
                   [] media[j] = "asked" -> "late"
                   [] OTHER              -> media[j]]
  /\ view' = "prompting"

\* CameraScreen mounts.
Enter(i) ==
  /\ screen = "away" /\ screen' = "camera"
  /\ Start(i)
  /\ UNCHANGED <<finger, rec, shot, flow, calm>>

\* flip, retry, or a tab that is visible again.  A recording without sound has no
\* track left and ends.
Restart(i) ==
  /\ screen = "camera"
  /\ Start(i)
  /\ rec' = IF rec = "on" /\ In("mic_on") = {} THEN "ending" ELSE rec
  /\ Calm(In("mic_asked") = {})
  /\ UNCHANGED <<screen, finger, shot, flow>>

\* Fault: an older request is not told from the newest.
GrantUnguarded(i) ==
  /\ media[i] \in {"asked", "late"}
  /\ media' = [media EXCEPT ![i] = "held"]
  /\ view' = "live"
  /\ UNCHANGED <<screen, finger, rec, shot, flow, calm>>

\* A superseded request stops what it gets; one whose component is gone does not know.
CameraGranted(i) ==
  /\ media[i] \in {"asked", "late", "orphan"}
  /\ media' = [media EXCEPT ![i] = CASE @ = "asked"  -> "held"
                                     [] @ = "late"   -> "free"
                                     [] @ = "orphan" -> "lost"]
  /\ view' = IF media[i] = "asked" THEN "live" ELSE view
  /\ UNCHANGED <<screen, finger, rec, shot, flow, calm>>

\* ... but its error is shown, over the camera that has come on since.
CameraRefused(i) ==
  /\ media[i] \in {"asked", "late", "orphan"}
  /\ media' = [media EXCEPT ![i] = "free"]
  /\ view' = IF media[i] = "orphan" THEN view ELSE "refused"
  /\ UNCHANGED <<screen, finger, rec, shot, flow, calm>>

-----------------------------------------------------------------------------
(* CaptureFlow, which shows CameraScreen or the editor.                    *)

\* CameraScreen unmounts: useCamera stops its stream, the shutter's timers are
\* cleared, and its recorder is left alone.
Unmount(m) ==
  [i \in Streams |-> CASE m[i] \in {"held", "late"}         -> "free"
                       [] m[i] = "asked"                     -> "orphan"
                       [] m[i] = "mic_asked"                 -> "mic_orphan"
                       [] m[i] = "mic_on" /\ rec = "on"      -> "lost"
                       [] OTHER                              -> m[i]]

\* Nothing of CameraScreen is under way that leaving it could overtake.
Quiet == In("asked") \cup In("mic_asked") = {} /\ rec # "on"

\* open(): the last draft's URL is revoked, and the editor shows the new one's.
Opened(m) ==
  /\ Drafts # urls /\ urls' = (urls \ {active}) \cup {NewUrl} /\ active' = NewUrl
  /\ IF screen = "camera"
       THEN screen' = "editor" /\ finger' = "up" /\ media' = Unmount(m) /\ Calm(Quiet)
       ELSE media' = m /\ UNCHANGED <<screen, finger, calm>>

PickFile ==
  /\ screen = "camera"
  /\ Opened(media)
  /\ rec' = IF rec = "on" THEN IF In("mic_on") = {} THEN "ending" ELSE "none" ELSE rec
  /\ UNCHANGED <<view, shot, sending>>

\* close(): back to the camera.
Close(i) ==
  /\ urls' = urls \ {active} /\ active' = NoDraft
  /\ screen' = "camera"
  /\ Start(i)

\* The overlay covers the editor while it sends.
Cancel(i) ==
  /\ screen = "editor" /\ sending = "no"
  /\ Close(i)
  /\ UNCHANGED <<finger, rec, shot, sending, calm>>

Send ==
  /\ screen = "editor" /\ sending = "no"
  /\ sending' = "on"
  /\ UNCHANGED <<screen, view, finger, devices, urls, active, calm>>

\* The editor stays when the upload has failed.
Sent(i, ok) ==
  /\ sending # "no" /\ sending' = "no"
  /\ IF ok /\ sending = "on"
           THEN Close(i)
           ELSE UNCHANGED <<screen, view, media, urls, active>>
  /\ UNCHANGED <<finger, rec, shot, calm>>

\* CaptureFlow unmounts, with the draft's URL and, if it shows, CameraScreen.
LeaveCapture(to) ==
  /\ screen \in {"camera", "editor"} /\ screen' = to /\ finger' = "up"
  /\ media' = Unmount(media)
  /\ rec' = CASE rec = "on" /\ In("mic_on") # {} -> "none"
              [] rec = "none"                     -> "none"
              [] OTHER                            -> "stray"
  /\ shot' = IF shot = "due" THEN "stray" ELSE shot
  /\ sending' = IF sending = "on" THEN "stray" ELSE sending
  /\ urls' = urls \ {active} /\ active' = NoDraft
  /\ Calm(Quiet /\ rec = "none" /\ shot = "none")
  /\ UNCHANGED view

\* Another tab.  The editor covers them.
LeaveCamera(to) == screen = "camera" /\ LeaveCapture(to)

-----------------------------------------------------------------------------
(* The shutter: a tap takes a photo, a hold records.                       *)

Press ==
  /\ screen = "camera" /\ view # "refused" /\ finger = "up"
  /\ finger' = "timer"
  /\ UNCHANGED <<screen, view, devices, flow, calm>>

\* startRecording, unless the camera is not on: it asks for the microphone.  A second
\* one at a time is left out.
Hold(i) ==
  /\ finger = "timer" /\ finger' = "down"
  /\ IF In("held") # {} /\ In("mic_asked") = {} /\ rec = "none"
       THEN Free(i) /\ media' = [media EXCEPT ![i] = "mic_asked"]
       ELSE UNCHANGED media
  /\ UNCHANGED <<screen, view, rec, shot, flow, calm>>

\* The recorder is made of the camera's track and, if there is one, the microphone's.
\* Without the camera, cam.stream.current is null, that throws, and nobody has the
\* microphone's stream.
MicAnswered(i, granted) ==
  LET works == media[i] = "mic_asked" /\ In("held") # {}
  IN  /\ media[i] \in {"mic_asked", "mic_orphan"}
      /\ media' = [media EXCEPT ![i] = IF ~granted THEN "free"
                                       ELSE IF works THEN "mic_on" ELSE "lost"]
      /\ rec' = IF works THEN "on" ELSE rec
      /\ UNCHANGED <<screen, view, finger, shot, flow, calm>>

\* stopRecording, or a photo if nothing records.
Release ==
  /\ finger # "up" /\ finger' = "up"
  /\ IF rec = "on" THEN rec' = "ending" /\ UNCHANGED shot
     ELSE /\ shot' = IF In("held") # {} /\ view = "live" /\ shot = "none"
                       THEN "due" ELSE shot
          /\ UNCHANGED rec
  /\ UNCHANGED <<screen, view, media, flow, calm>>

\* MAX_VIDEO_MS.
MaxVideo ==
  /\ rec = "on" /\ rec' = "ending"
  /\ UNCHANGED <<screen, view, finger, media, shot, flow, calm>>

\* onstop: the microphone is off, and what was recorded is opened, if there is any.
\* A CaptureFlow that is gone makes a URL that nobody revokes.
Recorded ==
  LET m == [i \in Streams |-> IF media[i] = "mic_on" THEN "free" ELSE media[i]]
  IN  /\ rec \in {"ending", "stray"} /\ rec' = "none"
      /\ \/ rec = "ending" /\ Opened(m)
         \/ /\ rec = "stray" /\ Drafts # urls /\ urls' = urls \cup {NewUrl}
            /\ media' = m /\ UNCHANGED <<screen, finger, active, calm>>
         \/ media' = m /\ UNCHANGED <<screen, finger, urls, active, calm>>
      /\ UNCHANGED <<view, shot, sending>>

\* The blob of a photo, or none.
Photographed ==
  /\ shot # "none" /\ shot' = "none"
  /\ \/ /\ shot = "due" /\ Opened(media)
        /\ rec' = IF screen = "camera" /\ rec = "on"
                    THEN IF In("mic_on") = {} THEN "ending" ELSE "none" ELSE rec
     \/ /\ shot = "stray" /\ Drafts # urls /\ urls' = urls \cup {NewUrl}
        /\ UNCHANGED <<screen, finger, media, rec, active, calm>>
     \/ UNCHANGED <<screen, finger, media, rec, urls, active, calm>>
  /\ UNCHANGED <<view, sending>>

-----------------------------------------------------------------------------
(* VoiceRecorder.                                                          *)

OpenChat ==
  /\ screen = "away" /\ screen' = "chat"
  /\ UNCHANGED <<view, finger, devices, flow, calm>>

\* The pointer is down, and nothing is recorded yet.
VoicePress(i) ==
  /\ screen = "chat" /\ Free(i) /\ In("voice_on") = {}
  /\ media' = [media EXCEPT ![i] = "voice_asked"]
  /\ Calm(In("voice_asked") = {})
  /\ UNCHANGED <<screen, view, finger, rec, shot, flow>>

\* It records, whether or not the pointer is still down or the screen still there,
\* and the refs to an earlier stream are overwritten.
VoiceGranted(i) ==
  /\ media[i] \in {"voice_asked", "voice_orphan"}
  /\ LET to == IF media[i] = "voice_asked" THEN "voice_on" ELSE "voice_stray"
     IN  media' = [j \in Streams |-> IF j = i THEN to
                                     ELSE IF media[j] = to THEN "lost" ELSE media[j]]
  /\ UNCHANGED <<screen, view, finger, rec, shot, flow, calm>>

VoiceRefused(i) ==
  /\ media[i] \in {"voice_asked", "voice_orphan"}
  /\ media' = [media EXCEPT ![i] = "free"]
  /\ UNCHANGED <<screen, view, finger, rec, shot, flow, calm>>

\* Fault: the loop that watches the time ends with its screen.
MaxWhileMounted(i) ==
  /\ media[i] = "voice_on"
  /\ media' = [media EXCEPT ![i] = "free"]
  /\ UNCHANGED <<screen, view, finger, rec, shot, flow, calm>>

\* stop(): the pointer is released, or MAX_MS is reached, which the animation frames
\* find out also for a component that is gone.
VoiceStop(i) ==
  /\ media[i] \in {"voice_on", "voice_stray"}
  /\ media' = [media EXCEPT ![i] = "free"]
  /\ UNCHANGED <<screen, view, finger, rec, shot, flow, calm>>

\* teardown() stops what records; a prompt stays.
LeaveChat ==
  /\ screen = "chat" /\ screen' = "away"
  /\ media' = [i \in Streams |-> CASE media[i] = "voice_on"    -> "free"
                                   [] media[i] = "voice_asked" -> "voice_orphan"
                                   [] OTHER                    -> media[i]]
  /\ Calm(In("voice_asked") = {})
  /\ UNCHANGED <<view, finger, rec, shot, flow>>

-----------------------------------------------------------------------------
\* What the user does ...
Gesture ==
  \/ OpenChat \/ LeaveChat \/ PickFile \/ Press \/ Release
  \/ \E to \in {"chat", "away"} : LeaveCamera(to)
  \/ \E i \in Streams :
       Enter(i) \/ Restart(i) \/ Cancel(i) \/ Hold(i) \/ VoicePress(i)

\* ... and the browser.
Prompts ==
  \E i \in Streams :
    \/ CameraGranted(i) \/ CameraRefused(i)
    \/ \E granted \in BOOLEAN : MicAnswered(i, granted)
    \/ VoiceGranted(i) \/ VoiceRefused(i)

Clock == MaxVideo \/ \E i \in Streams : VoiceStop(i)
Blobs == Recorded \/ Photographed

-----------------------------------------------------------------------------
\* The type invariant: what is mounted agrees with what its refs hold.
CaptureTypeOK ==
  /\ screen \in {"camera", "editor", "chat", "away"}
  /\ view \in {"prompting", "live", "refused"} /\ finger \in {"up", "timer", "down"}
  /\ media \in [Streams -> Fate] /\ rec \in {"none", "on", "ending", "stray"}
  /\ shot \in {"none", "due", "stray"} /\ sending \in {"no", "on", "stray"}
  /\ urls \subseteq Drafts /\ active \in urls \cup {NoDraft} /\ calm \in BOOLEAN

-----------------------------------------------------------------------------
(* What a client that was never overtaken keeps, and what every client does. *)

\* "Releasing the camera on unmount is what turns the device's privacy light off", and
\* "Object URLs are revoked the moment they stop being displayed": what is lit, and
\* every URL, belongs to what is on the screen, however often the camera was turned
\* while it was still asking.
LeavesNothingBehind ==
  calm => /\ \A i \in Streams :
               CASE media[i] = "held"     -> screen = "camera"
                 [] media[i] = "mic_on"   -> rec \in {"on", "ending"}
                 [] media[i] = "voice_on" -> screen = "chat"
                 [] OTHER                 -> media[i] \notin Lit
          /\ \A i, j \in In("held") : i = j
          /\ urls = IF screen = "editor" THEN {active} ELSE {}

\* "so recording runs forever and nothing is ever sent": a recording ends, the voice
\* message's also when the pointer was released before it began.
RecordingsEnd ==
  /\ rec = "on" ~> rec # "on"
  /\ \A i \in Streams :
       media[i] \in {"voice_on", "voice_stray"} ~> media[i] \notin {"voice_on", "voice_stray"}

-----------------------------------------------------------------------------
(* The inductive strengthening of LeavesNothingBehind.                     *)

Recording == rec \in {"on", "ending"}
Unsettled == {"orphan", "mic_orphan", "voice_orphan", "lost", "voice_stray"}
Camera == {"asked", "held"}
Voice  == {"voice_asked", "voice_on"}

\* The camera screen has what is its own, and what one that is gone leaves is marked.
Marked ==
  /\ \A i \in Streams : media[i] \in Camera \cup {"mic_asked"} => screen = "camera"
  /\ Recording \/ shot = "due" => screen \in {"camera", "editor"}
  /\ sending = "on" => screen = "editor"

\* One stream of a kind, and each for the screen that is there.
Tidy ==
  /\ \A i \in Streams : media[i] \notin Unsettled
  /\ \A i, j \in Streams : media[i] \in Camera /\ media[j] \in Camera => i = j
  /\ \A i, j \in Streams : media[i] \in Voice /\ media[j] \in Voice => i = j
  /\ \A i \in Streams :
       /\ media[i] = "mic_asked" => In("held") # {}
       /\ media[i] = "mic_on" => Recording
       /\ media[i] \in Voice => screen = "chat"
  /\ rec # "stray" /\ shot # "stray"
  /\ rec = "on" => screen = "camera"
  /\ urls = IF screen = "editor" THEN {active} ELSE {}

CaptureInv == CaptureTypeOK /\ Marked /\ (calm => Tidy)
=============================================================================
