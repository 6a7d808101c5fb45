-------------------------------- MODULE Voice --------------------------------
(***************************************************************************)
(* An answer given by voice: the answer box of WorkshopRoom.tsx, the       *)
(* capture behind it (lib/realtimeTranscription.ts), and the accuracy pass *)
(* of the server (services/voice.py).                                      *)
(*                                                                         *)
(* The page has one thread.  What it awaits is in tab.flows: the calls of  *)
(* start, recover, finish and retryRefine that have not returned, each at  *)
(* the await it is in.  Every action runs from one await to the next:      *)
(*   start:    mic, session, answer       recover: [mic,] session, answer  *)
(*   finish:   collect, recorder, refine ...      retry: refine ...        *)
(* While a flow is at refine the server has its upload: it transcribes the *)
(* file, in several attempts, or polishes the draft, and its reply arrives *)
(* or gets lost.                                                           *)
(* The endpoint is a coroutine that makes its calls synchronously, so the  *)
(* server handles nothing else of this module meanwhile.                   *)
(***************************************************************************)
EXTENDS Draft, Mic, FiniteSets, SequencesExt

CONSTANTS
  MaxAttempts,     \* attempts to transcribe a recording (three or four)
  MaxTakes,        \* bound on the recordings
  MaxItems,        \* bound on the segments of a connection
  MaxConnections,  \* bound on the realtime sessions
  MaxMessages,     \* bound on the messages of the provider
  MaxUploads       \* bound on the uploads stored

ASSUME VoiceAssumption ==
  {MaxAttempts, MaxTakes, MaxItems, MaxConnections, MaxMessages,
   MaxUploads} \subseteq Nat \ {0}

VARIABLES
  tab,             \* the page with its capture
  disk,            \* uploads whose file is on the server
  stray,           \* those of them that have no row: it was not written or not committed
  stored           \* count of the uploads stored

vars == <<tab, disk, stray, stored>>

-----------------------------------------------------------------------------
(* Words of an answer: a segment as the provider transcribed it (which     *)
(* recording, over which connection), what is filed under a name that the  *)
(* page gives because the message has none, a recording as the accuracy    *)
(* pass has it, what the host typed over the live draft.                   *)

Said(take, peer, n) == [kind |-> "said", take |-> take, peer |-> peer, n |-> n]
Pending == [kind |-> "pending", take |-> 0, peer |-> 0, n |-> 0]
Numbered(n) == [kind |-> "completed", take |-> 0, peer |-> 0, n |-> n]
Refined(take) == [kind |-> "refined", take |-> take, peer |-> 0, n |-> 0]
Typed == [kind |-> "typed", take |-> 0, peer |-> 0, n |-> 0]

Words == [kind : {"said", "pending", "completed", "refined", "typed"},
          take : 0..MaxTakes, peer : 0..MaxConnections, n : Nat]
Texts == Seq(Words)

\* A microphone in use: the stream of a recording, and the clone its recorder has.
Stream(take) == <<take, "stream">>
Clone(take) == <<take, "recorder">>

Flow(kind, at, take) ==
  [kind |-> kind, at |-> at, take |-> take, peer |-> 0, live |-> <<>>,
   attempt |-> 0, upload |-> 0]

Flows ==
  [kind : {"start", "recover", "finish", "retry"},
   at : {"mic", "session", "answer", "collect", "recorder", "refine", "transcribe",
         "polish"},
   take : 0..MaxTakes, peer : 0..MaxConnections, live : Texts,
   attempt : 0..MaxAttempts, upload : 0..MaxUploads]

Items == [id : Words, provisional : BOOLEAN, completed : {"no", "text", "blank"}]
Contexts == [state : States, partial : Texts, final : Texts, frozen : Texts,
             attempts : 0..3]
Peers == [id : 1..MaxConnections, take : 0..MaxTakes, up : BOOLEAN]

\* take, stream, recorder, chunks and audioBlob name a recording, 0 for none.
\* mics: the microphones that are on and that the page can still switch off.
\* leaked: the recordings whose recorder failed and left its clone on (history).
\* overlapped: some recording was begun while an earlier one was being finished or
\* had its microphone on (history).
Tabs ==
  [outcome : {"asking", "processing", "sufficient"}, answer : Texts,
   editing : BOOLEAN, take : 0..MaxTakes, ctx : Contexts, store : Seq(Items),
   stream : 0..MaxTakes, recorder : 0..MaxTakes, chunks : 0..MaxTakes,
   audioBlob : 0..MaxTakes, peer : 0..MaxConnections, timer : BOOLEAN,
   mics : SUBSET ((0..MaxTakes) \X {"stream", "recorder"}),
   leaked : SUBSET (0..MaxTakes), peers : SUBSET Peers,
   flows : SUBSET Flows, sessions : 0..MaxConnections, messages : 0..MaxMessages,
   overlapped : BOOLEAN]

TypeOK ==
  /\ tab \in Tabs
  /\ \A i, j \in DOMAIN tab.store : tab.store[i].id = tab.store[j].id => i = j
  /\ disk \subseteq [id : 1..MaxUploads, retained : BOOLEAN, marked : BOOLEAN]
  /\ stray \subseteq 1..MaxUploads
  /\ stored \in 0..MaxUploads

\* The room is open on a question, the box empty.
Init ==
  /\ tab = [outcome |-> "asking", answer |-> <<>>, editing |-> FALSE, take |-> 0,
            ctx |-> CreateContext, store |-> CreateStore,
            stream |-> 0, recorder |-> 0, chunks |-> 0, audioBlob |-> 0, peer |-> 0,
            timer |-> FALSE, mics |-> {}, leaked |-> {}, peers |-> {}, flows |-> {},
            sessions |-> 0, messages |-> 0, overlapped |-> FALSE]
  /\ disk = {}
  /\ stray = {}
  /\ stored = 0

-----------------------------------------------------------------------------
(* The page: what a dispatched event does to the answer box *)

GetDisplayText(t) ==
  IF t.ctx.state \in {"ready_to_edit", "refinement_failed", "finishing", "refining"}
  THEN DisplayTranscript(t.ctx)
  ELSE DisplayAnswerText(t.store)

\* Once the host has finished, a text that is not empty goes into the box; while
\* the team speaks, any text does unless the host is editing it.
Replaces(t) ==
  \/ /\ t.ctx.state \in {"ready_to_edit", "refinement_failed", "fallback_text",
                         "finishing", "refining"}
     /\ GetDisplayText(t) # <<>>
  \/ t.ctx.state \in LiveSpeaking \cup {"reconnecting"} /\ ~t.editing

OnContext(t) ==
  IF Replaces(t) THEN [t EXCEPT !.answer = GetDisplayText(t)] ELSE t

Dispatch(t, e) == OnContext([t EXCEPT !.ctx = Reduce(@, e)])
Breaks(t) == Dispatch(Dispatch(t, Event("ERROR")), Event("FALLBACK_TEXT"))

\* Changed form: a connection takes its segments with it.
TeardownPeerForgets(t) ==
  [t EXCEPT !.peers = {p \in @ : p.id # t.peer}, !.peer = 0, !.store = CreateStore]
TeardownPeerOnly(t) == [t EXCEPT !.peers = {p \in @ : p.id # t.peer}, !.peer = 0]
TeardownMedia(t) ==
  [TeardownPeerOnly(t) EXCEPT !.mics = @ \ {Stream(t.stream), Clone(t.recorder)},
                              !.stream = 0, !.recorder = 0]
ReleaseAudioBlob(t) == [t EXCEPT !.audioBlob = 0, !.chunks = 0]

Continues(t, f, g) == [t EXCEPT !.flows = (@ \ {f}) \cup {g}]
Ends(t, f) == [t EXCEPT !.flows = @ \ {f}]
Begins(t, f) == [t EXCEPT !.flows = @ \cup {f}]

\* The stop event of the recorder comes after the blob was released: what the
\* recorder still had becomes the blob.
Discard(t) ==
  LET released == ReleaseAudioBlob(TeardownMedia([t EXCEPT !.timer = FALSE]))
  IN Dispatch([released EXCEPT !.audioBlob = t.recorder,
                               !.store = CreateStore],
              Event("DISCARD"))

ResetVoiceForNextAnswer(t) ==
  Discard([t EXCEPT !.editing = FALSE, !.answer = <<>>])

-----------------------------------------------------------------------------
(* Starting and recovering a capture *)

\* Whether the answer box is there: asking is the outcome none or clarify, for a first
\* answer or a clarification.  And whether it can be typed in and submitted.
Shown == tab.outcome = "asking"
Editable ==
  /\ Shown
  /\ tab.ctx.state \in {"idle", "permission_denied", "ready_to_edit",
                        "refinement_failed", "fallback_text", "error"}

Server == UNCHANGED <<disk, stray, stored>>

\* start does not tear down what an earlier start has left.
Start ==
  /\ Editable
  /\ tab.take < MaxTakes
  /\ LET t == Dispatch([tab EXCEPT !.editing = @ /\ tab.ctx.state = "permission_denied",
                                   !.take = @ + 1,
                                   !.overlapped = @ \/ tab.flows # {} \/ tab.mics # {}],
                       Event("START"))
     IN tab' = Begins(ReleaseAudioBlob([t EXCEPT !.store = CreateStore]),
                      Flow("start", "mic", t.take))
  /\ Server

\* The recorder gets a clone of the stream.  Without a MediaRecorder nothing is cloned;
\* when the recorder cannot be made or started, the clone stays on, and the chunks may
\* have been reset.
Records(t, take) ==
  {[t EXCEPT !.recorder = 0],
   [t EXCEPT !.recorder = take, !.chunks = take, !.mics = @ \cup {Clone(take)}]}
  \cup {[t EXCEPT !.recorder = 0, !.chunks = chunks, !.leaked = @ \cup {take}] :
          chunks \in {0, t.chunks}}

MicrophoneGranted(f) ==
  /\ f.at = "mic"
  /\ LET got == [tab EXCEPT !.stream = f.take, !.mics = @ \cup {Stream(f.take)}]
         granted == Dispatch(got, Event("PERMISSION_GRANTED"))
     IN \E t \in (IF f.kind = "recover" THEN {granted} ELSE Records(granted, f.take)) :
          tab' = Continues(t, f, [f EXCEPT !.at = "session"])
  /\ Server

\* A start that fails falls back to typing; so does a recovery.
Fails(t, f) ==
  IF f.kind = "start" THEN TeardownMedia(Breaks(t))
  ELSE TeardownPeerOnly(Dispatch(t, Event("RECONNECT_FAILED")))

MicrophoneRefused(f) ==
  /\ f.at = "mic"
  /\ \/ tab' = Ends(Fails(tab, f), f)
     \/ /\ f.kind = "start"
        /\ tab' = Ends(TeardownMedia(Dispatch(tab, Event("PERMISSION_DENIED"))), f)
  /\ Server

Serving == {f \in tab.flows : f.at \in {"transcribe", "polish"}}
\* _remove_file for each of some uploads: a file that cannot be removed stays, and its
\* row is marked as cleaned up all the same, so that nobody tries again.
Marked(u) == [u EXCEPT !.marked = TRUE]
Removes(uploads, new) ==
  \E left \in SUBSET uploads :
    disk' = (disk \ uploads) \cup {Marked(u) : u \in left} \cup new

\* cleanup_expired: it removes what has a row and has expired, uploads meant to be
\* retained included.
Expires(new) ==
  \E expired \in SUBSET {u \in disk : u.retained /\ ~u.marked /\ u.id \notin stray} :
    Removes(expired, new)

\* The server removes what has expired and makes a session; the page opens its peer.
SessionMade(f) ==
  /\ f.at = "session"
  /\ Serving = {}
  /\ tab.sessions < MaxConnections
  /\ Expires({})
  /\ LET id == tab.sessions + 1
         opening == [tab EXCEPT !.sessions = id, !.peer = id,
                                !.peers = @ \cup {[id |-> id, take |-> f.take, up |-> FALSE]}]
     IN tab' = Continues(opening, f, [f EXCEPT !.at = "answer", !.peer = id])
  /\ UNCHANGED <<stray, stored>>

SessionRefused(f) ==
  /\ f.at = "session"
  /\ tab' = Ends(Fails(tab, f), f)
  /\ UNCHANGED disk \/ (Serving = {} /\ Expires({}))
  /\ UNCHANGED <<stray, stored>>

\* What follows startLive in start and in recover.
Follows(t, f) ==
  IF f.kind = "start" THEN [t EXCEPT !.timer = TRUE]
  ELSE Dispatch(t, Event("RECONNECTED"))

\* The provider takes the call; a peer that was closed meanwhile cannot be.
Connected(f) ==
  /\ f.at = "answer"
  /\ \E p \in tab.peers :
       /\ p.id = f.peer
       /\ LET up == [tab EXCEPT !.peers = (@ \ {p}) \cup {[p EXCEPT !.up = TRUE]}]
          IN tab' = Ends(Follows(Dispatch(up, Event("CONNECTED")), f), f)
  /\ Server

ConnectionFails(f) ==
  /\ f.at = "answer"
  /\ tab' = Ends(Fails(tab, f), f)
  /\ Server

\* recover, after the state has become reconnecting; it gives up at the third attempt.
Recover(t) ==
  IF t.ctx.state # "reconnecting" THEN t
  ELSE IF t.ctx.attempts > 2
    THEN TeardownPeerOnly(Dispatch(t, Event("RECONNECT_FAILED")))
  ELSE IF t.stream = 0
    THEN Begins(TeardownPeerOnly(t), Flow("recover", "mic", t.take))
  ELSE Begins(Dispatch(TeardownPeerOnly(t), Event("PERMISSION_GRANTED")),
              Flow("recover", "session", t.stream))

\* The provider refuses the credentials: startLive calls recover and returns.
SessionExpired(f) ==
  /\ f.at = "answer"
  /\ tab' = Follows(Recover(Dispatch(Ends(tab, f), Event("SESSION_EXPIRED"))), f)
  /\ Server

Disconnected(p) ==
  /\ p.up
  /\ LET gone == [tab EXCEPT !.peers = @ \ {p}]
     IN tab' = IF tab.ctx.state \in {"finishing", "refining", "ready_to_edit"}
               THEN gone
               ELSE Recover(Dispatch(gone, Event("DISCONNECT")))
  /\ Server

-----------------------------------------------------------------------------
(* What the provider sends while a peer is up.  Segments are completed in   *)
(* any order; a segment may be completed with nothing.                      *)

Segments(p) == {Said(p.take, p.id, n) : n \in 1..MaxItems}

Heard == [tab EXCEPT !.messages = @ + 1]
Sends(p) == p.up /\ tab.messages < MaxMessages

Emits(store, type) ==
  tab' = Dispatch([Heard EXCEPT !.store = store], Says(type, DisplayAnswerText(store)))

\* A delta without an item_id is filed under "pending", a completed text without one
\* under the next number: it does not find the deltas.
DeltaNames(p) == Segments(p) \cup {Pending}
CompletedNames(p) == Segments(p) \cup {Numbered(Len(tab.store))}

Delta(p, id) ==
  /\ Sends(p)
  /\ Emits(ApplyDelta(tab.store, id), "PARTIAL")
  /\ Server

Completed(p, id) ==
  /\ Sends(p)
  /\ \E text \in {"text", "blank"} :
       Emits(ApplyCompleted(tab.store, id, text), "FINAL_SEGMENT")
  /\ Server

\* An error of the provider ends the capture, unless nothing was said yet.
ProviderError(p) ==
  LET hasDraft == DisplayAnswerText(tab.store) # <<>>
      capturing == LiveSpeaking \cup {"connecting", "finishing"}
  IN /\ Sends(p)
     /\ hasDraft \/ tab.ctx.state \notin capturing
     /\ tab' = IF hasDraft THEN Dispatch(Heard, Event("ERROR"))
               ELSE TeardownMedia(Breaks(Heard))
     /\ Server

-----------------------------------------------------------------------------
(* Pausing, finishing, retrying *)

\* pause and resume switch the tracks of the stream, whatever comes between them.
Pause ==
  /\ Shown /\ tab.ctx.state \in {"listening", "live_draft"}
  /\ tab' = Dispatch(tab, Event("PAUSE"))
  /\ Server
Resume ==
  /\ Shown /\ tab.ctx.state = "paused"
  /\ tab' = Dispatch(tab, Event("RESUME"))
  /\ Server

Finish(t) ==
  LET before == DisplayAnswerText(t.store)
      frozen == Dispatch(t, Event("FINISH"))
      kept == IF before # <<>> /\ frozen.ctx.frozen = <<>>
              THEN OnContext([frozen EXCEPT !.ctx.frozen = before, !.ctx.final = before])
              ELSE frozen
  IN Begins(kept, [Flow("finish", "collect", t.take) EXCEPT !.live = before])

HostFinishes ==
  /\ Shown /\ tab.ctx.state \in LiveSpeaking
  /\ tab' = Finish([tab EXCEPT !.editing = FALSE])
  /\ Server

\* max_recording_seconds have passed.
TimeUp ==
  /\ tab.timer /\ tab.ctx.state \in {"listening", "live_draft"}
  /\ tab' = Finish(tab)
  /\ Server

\* The wait of commitAndCollectLiveDraft is over, at any moment up to its timeout:
\* what the store has by then is the draft.
Drafted(f) ==
  IF DisplayAnswerText(tab.store) # <<>> THEN DisplayAnswerText(tab.store) ELSE f.live

\* Changed form: the text that finish froze is kept.
CollectUnlessFrozen(f) ==
  /\ f.at = "collect"
  /\ LET draft == Drafted(f)
         t == IF tab.ctx.frozen # <<>> THEN tab
              ELSE OnContext([tab EXCEPT !.ctx.frozen = draft, !.ctx.final = draft])
     IN tab' = Continues(t, f, [f EXCEPT !.at = "recorder", !.live = draft])
  /\ Server

CollectLiveDraft(f) ==
  /\ f.at = "collect"
  /\ LET draft == Drafted(f)
         t == OnContext([tab EXCEPT !.ctx.frozen = draft, !.ctx.final = draft])
     IN tab' = Continues(t, f, [f EXCEPT !.at = "recorder", !.live = draft])
  /\ Server

\* The recorder has stopped.  Without a recording, or with the pass switched off,
\* the live draft is the answer.
RecorderStops(f) ==
  /\ f.at = "recorder"
  /\ LET blob == IF tab.recorder # 0 THEN tab.recorder ELSE tab.chunks
         off == [tab EXCEPT !.recorder = 0, !.mics = @ \ {Clone(tab.recorder)},
                            !.audioBlob = IF blob # 0 THEN blob ELSE @, !.timer = FALSE]
         refining == Dispatch(Dispatch(TeardownPeerOnly(off), Event("FINISHING_DONE")),
                              Event("REFINING"))
         outcome == IF f.live # <<>> THEN Says("REFINED", f.live) ELSE Event("REFINE_FAILED")
     IN \/ /\ blob # 0
           /\ tab' = Continues(refining, f, [f EXCEPT !.at = "refine", !.take = blob])
        \/ tab' = Ends(TeardownMedia(ReleaseAudioBlob(Dispatch(refining, outcome))), f)
  /\ Server

RetryRefine ==
  /\ Shown /\ tab.ctx.state = "refinement_failed"
  /\ tab' = IF tab.audioBlob = 0 THEN Dispatch(tab, Event("REFINE_FAILED"))
            ELSE Begins(Dispatch(tab, Event("REFINING")),
                        [Flow("retry", "refine", tab.audioBlob)
                           EXCEPT !.live = FrozenOr(tab.ctx)])
  /\ Server

-----------------------------------------------------------------------------
(* The accuracy pass: refine_audio of services/voice.py *)

Upload(f) == {u \in disk : u.id = f.upload}
\* Changed form: after the last attempt the file is left.
CleanupOnSuccess(f) ==
  disk' = {u \in disk : u.id # f.upload \/ u.retained \/ f.attempt = MaxAttempts}
\* cleanup_temp_audio when the upload is not to be retained; what fails is ignored.
Cleanup(f) == Removes({u \in Upload(f) : ~u.retained}, {})

\* Changed forms: a refused pass leaves the capture open; a refused pass is ignored.
RefusesOnly(f) == tab' = Ends(Dispatch(tab, Event("REFINE_FAILED")), f)
RefusesSilently(f) == tab' = Ends(IF f.kind = "finish" THEN TeardownMedia(tab) ELSE tab, f)

\* The request ends; finish closes the capture whatever came.  A reply that does not
\* arrive, or says refined is false, leaves the live draft.
Refuses(f) ==
  LET t == Dispatch(tab, Event("REFINE_FAILED"))
  IN tab' = Ends(IF f.kind = "finish" THEN TeardownMedia(t) ELSE t, f)
Replies(f) ==
  LET t == ReleaseAudioBlob(Dispatch(tab, Says("REFINED", <<Refined(f.take)>>)))
  IN tab' = Ends(IF f.kind = "finish" THEN TeardownMedia(t) ELSE t, f)

\* Voice is disabled, the upload is too large, the pass is switched off.
UploadRefused(f) ==
  /\ f.at = "refine" /\ Serving = {}
  /\ Refuses(f)
  /\ Server

\* The file is written, then its row; while another request holds the database the
\* row cannot be, and the request fails.
New(retained) == [id |-> stored + 1, retained |-> retained, marked |-> FALSE]

UploadStored(f) ==
  /\ f.at = "refine" /\ Serving = {}
  /\ stored < MaxUploads
  /\ stored' = stored + 1
  /\ \E retained \in BOOLEAN : Expires({New(retained)})
  /\ \/ /\ tab' = Continues(tab, f, [f EXCEPT !.at = "transcribe", !.attempt = 1,
                                              !.upload = stored'])
        /\ UNCHANGED stray
     \/ Refuses(f) /\ stray' = stray \cup {stored'}

\* The file cannot be written, or only a part of it: the live draft is polished.
UploadNotStored(f) ==
  /\ f.at = "refine" /\ Serving = {}
  /\ tab' = Continues(tab, f, [f EXCEPT !.at = "polish"])
  /\ \/ Expires({}) /\ UNCHANGED <<stray, stored>>
     \/ /\ stored < MaxUploads
        /\ stored' = stored + 1
        /\ \E retained \in BOOLEAN : Expires({New(retained)})
        /\ stray' = stray \cup {stored'}

Transcribed(f) ==
  /\ f.at = "transcribe"
  /\ Replies(f) \/ Refuses(f)
  /\ Cleanup(f)
  /\ UNCHANGED <<stray, stored>>

\* An attempt fails or has no text: the next one is made.  After the last, or when
\* the file cannot be read, the live draft is polished.
AttemptFails(f) ==
  /\ f.at = "transcribe"
  /\ \/ /\ f.attempt < MaxAttempts
        /\ tab' = Continues(tab, f, [f EXCEPT !.attempt = @ + 1])
        /\ UNCHANGED disk
     \/ /\ tab' = Continues(tab, f, [f EXCEPT !.at = "polish"])
        /\ Cleanup(f)
  /\ UNCHANGED <<stray, stored>>

\* An empty draft is not polished.
Polished(f) ==
  /\ f.at = "polish"
  /\ Refuses(f) \/ (f.live # <<>> /\ Replies(f))
  /\ Server

\* The server stops while it serves: the row of the upload was never committed.
Crash(f) ==
  /\ f \in Serving
  /\ stray' = stray \cup {u.id : u \in Upload(f)}
  /\ Refuses(f)
  /\ UNCHANGED <<disk, stored>>

-----------------------------------------------------------------------------
(* The host *)

\* Typing in place of the live draft, or into an empty box.  Corrections of a text
\* that is there are not told apart from it.
HostEdits ==
  /\ Shown
  /\ tab.ctx.state \in LiveSpeaking \/ (Editable /\ tab.answer = <<>>)
  /\ tab' = [tab EXCEPT !.answer = <<Typed>>,
                        !.editing = @ \/ tab.ctx.state \in LiveSpeaking]
  /\ Server

HostDiscards ==
  /\ Shown /\ tab.ctx.state \in LiveSpeaking
  /\ tab' = ResetVoiceForNextAnswer(tab)
  /\ Server

\* handleSubmitAnswer and handleSubmitClarification up to their await.
Submit ==
  /\ Editable
  /\ tab.answer # <<>>
  /\ tab' = [tab EXCEPT !.outcome = "processing"]
  /\ Server

Submitting == tab.outcome = "processing"

Submitted ==
  /\ Submitting
  /\ \E outcome \in {"asking", "sufficient"} :
       tab' = [ResetVoiceForNextAnswer(tab) EXCEPT !.outcome = outcome]
  /\ Server

SubmitFails ==
  /\ Submitting
  /\ tab' = [tab EXCEPT !.outcome = "asking"]
  /\ Server

ContinueNext ==
  /\ tab.outcome = "sufficient"
  /\ tab' = [ResetVoiceForNextAnswer(tab) EXCEPT !.outcome = "asking"]
  /\ Server

-----------------------------------------------------------------------------

Host ==
  \/ Start \/ Pause \/ Resume \/ HostFinishes \/ RetryRefine \/ HostEdits
  \/ HostDiscards \/ Submit \/ ContinueNext

Provider ==
  \E p \in tab.peers :
    \/ Disconnected(p) \/ ProviderError(p)
    \/ \E id \in DeltaNames(p) : Delta(p, id)
    \/ \E id \in CompletedNames(p) : Completed(p, id)

Connecting(f) ==
  \/ MicrophoneGranted(f) \/ MicrophoneRefused(f)
  \/ SessionMade(f) \/ SessionRefused(f)
  \/ Connected(f) \/ ConnectionFails(f) \/ SessionExpired(f)

Finishing(f) == CollectLiveDraft(f) \/ RecorderStops(f)

Refines(f) ==
  \/ UploadRefused(f) \/ UploadStored(f) \/ UploadNotStored(f)
  \/ Transcribed(f) \/ AttemptFails(f) \/ Polished(f) \/ Crash(f)

Next ==
  \/ Host \/ Provider \/ TimeUp \/ Submitted \/ SubmitFails
  \/ \E f \in tab.flows : Connecting(f) \/ Finishing(f) \/ Refines(f)

\* What finish awaits comes: the wait for the draft has a timeout, the recorder sends
\* its stop event, every call of the accuracy pass has a timeout and a request that
\* is cut off fails.  This is weak fairness of Finishing and of Refines, for some call
\* that is awaited: one is enabled while a call is at its stages (Refines for one at
\* least of them), and nothing else moves a call from there.  TLC is slow to find that
\* out.
Awaits(stages) == \E f \in tab.flows : f.at \in stages
MovedOn(stages) == \E f \in tab.flows : f.at \in stages /\ f \notin tab'.flows
Comes(stages) == []<>~Awaits(stages) \/ []<><<MovedOn(stages)>>_vars

Fairness ==
  Comes({"collect", "recorder"}) /\ Comes({"refine", "transcribe", "polish"})

Spec == Init /\ [][Next]_vars /\ Fairness

-----------------------------------------------------------------------------
(* Properties *)

\* Finishing puts the completed text and the live draft one after the other, which
\* are the same words once a segment is completed (voiceStateMachine.ts, FINISH).
\* Whatever the provider sends while the recording is finished, the text the host is
\* given to review says nothing twice, if all of it came in messages that name their
\* segment: a delta and a completed text without an item_id are filed under different
\* names, and the segment is said twice (realtimeTranscription.ts:892, 897).  Nor is
\* it so once recordings have overlapped, which an error of the provider allows: two
\* connections can then be up at once, and what one sends while the other is lost is
\* shown but not reduced.
AllNamed(text) == \A w \in ToSet(text) : w.kind \notin {"pending", "completed"}
NothingSaidTwice ==
  tab.ctx.state \in {"ready_to_edit", "refinement_failed"} /\ ~tab.overlapped
      /\ AllNamed(tab.answer) =>
    \A i, j \in DOMAIN tab.answer : tab.answer[i] = tab.answer[j] => i = j

\* "Your transcript was preserved" (voiceStateMachine.ts, RECONNECT_FAILED): what the
\* team said in the current recording leaves the answer box only by what the host
\* does, by the refined text that replaces it, or because the provider completed the
\* segment with nothing.  Lost connections, recoveries, errors, a failed pass and a
\* failed submission keep it.  Not so once recordings have overlapped: what finishing
\* the earlier one brings is then taken for the new one's.
HostReplaces == Start \/ HostEdits \/ HostDiscards \/ Submitted \/ ContinueNext
RefinedNow == tab'.ctx.state = "ready_to_edit" /\ \E w \in ToSet(tab'.answer) : w.kind = "refined"
\* In the answer box, of the current recording.
Spoken ==
  {w \in ToSet(tab.answer) : \/ w.kind = "said" /\ w.take = tab.take
                             \/ w.kind \in {"pending", "completed"} /\ Seen(tab.store, w)}
BlankNow == {item.id : item \in {i \in ToSet(tab'.store) : i.completed = "blank"}}

SpokenKept ==
  [][\/ Spoken \subseteq ToSet(tab'.answer) \cup BlankNow
     \/ RefinedNow \/ tab.overlapped \/ HostReplaces]_vars

\* Once a finished recording is there to be reviewed, the microphone is off, every
\* connection closed and nothing more to come, whatever failed on the way, unless
\* recordings have overlapped.  Not so the clone of a recorder that failed: nothing
\* refers to it any more, and it stays on (tab.leaked, realtimeTranscription.ts:682-699).
MicReleased ==
  tab.ctx.state \in {"ready_to_edit", "refinement_failed"} /\ ~tab.overlapped =>
    tab.mics = {} /\ tab.peers = {} /\ tab.flows = {}

\* "temp audio is deleted unless retention is enabled" (docs/openai-configuration.md:33):
\* an upload that is not retained is on the server only while its request is served,
\* unless it has no row (the server died serving it, or could not write it whole) or
\* could not be removed when it should: that is ignored, and the row says it was
\* (voice.py:884, 1068-1076).
NoAudioLeft ==
  \A u \in disk :
    \/ u.retained \/ u.marked \/ u.id \in stray
    \/ \E f \in Serving : f.upload = u.id

\* Finishing ends: a recording that is being finished or refined comes out of it.
FinishingEnds ==
  tab.ctx.state \in {"finishing", "refining"} ~> tab.ctx.state \notin {"finishing", "refining"}

=============================================================================
