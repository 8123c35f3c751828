------------------------------- MODULE Engine -------------------------------
(***************************************************************************)
(* What runs beneath a recording: class AudioCapture of audio.cpp and       *)
(* class MoonshineEngine of moonshine_engine.cpp of the daemon.  Three      *)
(* threads meet here without a common lock:                                 *)
(*                                                                         *)
(*   - the owner: the Session's commands, its finish worker and destructor, *)
(*     which call start, stop, cancel and finish one after the other;       *)
(*   - the poll worker of the engine, which pulls partial transcripts, and  *)
(*     closes the microphone itself when the stream fails;                  *)
(*   - PipeWire's data thread, which runs the process callback.             *)
(*                                                                         *)
(* Of the Session only the lock, the state and the order of its calls are   *)
(* here (Session has the rest); AudioCapture::start does not fail (see the  *)
(* failed start of Session).  A recording, its generation and the handle of *)
(* its Moonshine stream are one number.  Closing a PipeWire stream stops     *)
(* the callback first and waits for one that is running.  Definitions       *)
(* marked "Faulty:" are no part of the model; see README.md.                *)
(***************************************************************************)
EXTENDS Naturals, Sequences, FiniteSets

CONSTANTS
    Texts,    \* transcripts other than the empty one
    NoText,   \* the empty transcript
    MaxRec    \* bound on the recordings

ASSUME EngineAssumption == NoText \notin Texts /\ MaxRec \in Nat \ {0}

Recs == 1 .. MaxRec

VARIABLES
    mutex,        \* the holder of Session::m_mutex across steps
    state,        \* Session::m_state
    rec,          \* Session::m_generation
    owner,        \* where the owner is
    mic, capturing, onChunk, loop,
        \* AudioCapture: m_stream, m_capturing, whether m_onChunk is set, and
        \* the holder of the PipeWire loop lock
    pw,           \* the data thread, and the stream handle addAudio loaded
    stream, live, audioError, lastPartial,
        \* MoonshineEngine: m_stream, the streams the library has, the
        \* recording that left m_audioError, m_lastPartial
    poll,         \* the engine's m_pollWorker
    pulled, shown, damaged, told, delivered
        \* history: per recording, the last transcript pulled, the last one
        \* announced, and the origins of the errors announced; recordings
        \* that lost a chunk, and recordings whose text was delivered

session == <<mutex, state, rec, owner>>
audio   == <<mic, capturing, onChunk, loop>>
engine  == <<stream, live, audioError, lastPartial>>
history == <<pulled, shown, damaged, told, delivered>>
vars    == <<session, audio, pw, engine, poll, history>>

Threads == {"owner", "poll"}
MicSteps == {"micTest", "micLock", "micClose"}
OwnerSteps == MicSteps \union {"rest", "join", "open", "mic", "undo",
              "finish", "cancel", "leave", "destroy", "gone"}
PollSteps == MicSteps \union {"none", "wait", "pull", "partial", "failed",
                              "exited"}

TypeOK ==
    /\ mutex \in Threads \union {"free"}
    /\ state \in {"Idle", "Recording", "Transcribing", "Cancelled"}
    /\ rec \in 0 .. MaxRec
    /\ owner \in [pc : OwnerSteps, next : OwnerSteps]
    /\ mic \in {"none", "on", "closing"}
    /\ capturing \in BOOLEAN /\ onChunk \in BOOLEAN
    /\ loop \in Threads \union {"free"}
    /\ pw \in [pc : {"idle", "chunk", "add"}, h : 0 .. MaxRec]
    /\ stream \in 0 .. MaxRec /\ live \subseteq Recs
    /\ audioError \in 0 .. MaxRec
    /\ lastPartial \in Texts \union {NoText}
    /\ poll \in [pc : PollSteps, gen : 0 .. MaxRec, stop : BOOLEAN,
                 h : 0 .. MaxRec, text : Texts \union {NoText},
                 cause : 0 .. MaxRec]
    /\ pulled \in [Recs -> Texts \union {NoText}]
    /\ shown \in [Recs -> Texts \union {NoText}]
    /\ damaged \subseteq Recs /\ delivered \subseteq Recs
    /\ told \in [Recs -> Seq(Recs)]

Init ==
    /\ mutex = "free" /\ state = "Idle" /\ rec = 0
    /\ owner = [pc |-> "rest", next |-> "rest"]
    /\ mic = "none" /\ capturing = FALSE /\ onChunk = FALSE /\ loop = "free"
    /\ pw = [pc |-> "idle", h |-> 0]
    /\ stream = 0 /\ live = {} /\ audioError = 0 /\ lastPartial = NoText
    /\ poll = [pc |-> "none", gen |-> 0, stop |-> FALSE, h |-> 0,
               text |-> NoText, cause |-> 0]
    /\ pulled = [r \in Recs |-> NoText]
    /\ shown = [r \in Recs |-> NoText]
    /\ damaged = {} /\ delivered = {}
    /\ told = [r \in Recs |-> <<>>]

-----------------------------------------------------------------------------
(* AudioCapture::stop and cancel, by the owner or the poll worker: pc is     *)
(* where that thread is, GoTo says where it goes.                           *)

OwnerAt(pc) == owner.pc = pc
OwnerTo(pc) == owner' = [owner EXCEPT !.pc = pc]
PollTo(pc)  == poll' = [poll EXCEPT !.pc = pc]

At(t, pc)   == IF t = "owner" THEN OwnerAt(pc) ELSE poll.pc = pc
GoTo(t, pc) == IF t = "owner" THEN OwnerTo(pc) /\ UNCHANGED poll
                              ELSE PollTo(pc) /\ UNCHANGED owner

\* Out of cancel: the owner goes on as planned, the poll worker settles.
Leave(t) == GoTo(t, IF t = "owner" THEN owner.next ELSE "exited")

\* What emitStreamingError does once the microphone is closed: still under
\* the lock it leaves Recording, and then announces the error.
Settle(t) ==
    IF t = "owner" THEN UNCHANGED <<mutex, state, told>>
    ELSE /\ state' = "Idle" /\ mutex' = "free"
         /\ told' = [told EXCEPT ![poll.gen] = Append(@, poll.cause)]

\* m_capturing is read before any lock is taken.
MicTest(t) ==
    /\ At(t, "micTest")
    /\ IF capturing THEN GoTo(t, "micLock") /\ UNCHANGED <<onChunk, mutex, state, told>>
                    ELSE onChunk' = FALSE /\ Leave(t) /\ Settle(t)
    /\ UNCHANGED <<rec, mic, capturing, loop, pw, engine,
                   pulled, shown, damaged, delivered>>

\* Faulty: the callback is cleared before the stream is torn down.
MicLockClears(t) ==
    /\ At(t, "micLock") /\ loop = "free"
    /\ loop' = t
    /\ mic' = IF mic = "on" THEN "closing" ELSE mic
    /\ onChunk' = FALSE
    /\ GoTo(t, "micClose")
    /\ UNCHANGED <<mutex, state, rec, capturing, pw, engine, history>>

\* Under the loop lock the stream is disconnected: no callback starts any more.
MicLock(t) ==
    /\ At(t, "micLock") /\ loop = "free"
    /\ loop' = t
    /\ mic' = IF mic = "on" THEN "closing" ELSE mic
    /\ GoTo(t, "micClose")
    /\ UNCHANGED <<mutex, state, rec, capturing, onChunk, pw, engine, history>>

\* It is destroyed when the running callback is over; the thread that comes
\* second finds no stream.
MicClose(t) ==
    /\ At(t, "micClose") /\ (mic = "closing" => pw.pc = "idle")
    /\ mic' = "none" /\ capturing' = FALSE /\ onChunk' = FALSE
    /\ loop' = "free"
    /\ Leave(t) /\ Settle(t)
    /\ UNCHANGED <<rec, pw, engine, pulled, shown, damaged, delivered>>

-----------------------------------------------------------------------------
(* PipeWire's data thread.                                                 *)

Process ==
    /\ pw.pc = "idle" /\ mic = "on" /\ onChunk
    /\ pw' = [pc |-> "chunk", h |-> 0]
    /\ UNCHANGED <<session, audio, engine, poll, history>>

\* addAudio loads m_stream; without one the chunk is dropped.
LoadStream ==
    /\ pw.pc = "chunk"
    /\ pw' = IF stream = 0 THEN [pc |-> "idle", h |-> 0]
                           ELSE [pc |-> "add", h |-> stream]
    /\ UNCHANGED <<session, audio, engine, poll, history>>

\* The library takes the chunk or fails; the first failure is kept.
AddAudio ==
    /\ pw.pc = "add"
    /\ pw' = [pc |-> "idle", h |-> 0]
    /\ \/ UNCHANGED <<audioError, damaged>>
       \/ /\ audioError' = IF audioError = 0 THEN pw.h ELSE audioError
          /\ damaged' = damaged \union {pw.h}
    /\ UNCHANGED <<session, audio, stream, live, lastPartial, poll,
                   pulled, shown, told, delivered>>

-----------------------------------------------------------------------------
(* The poll worker.                                                        *)

\* Faulty: the stop request is not looked at when a wait ends.
PollWakesDeaf ==
    /\ poll.pc = "wait"
    /\ poll' = IF audioError # 0
               THEN [poll EXCEPT !.pc = "failed", !.cause = audioError]
               ELSE [poll EXCEPT !.pc = "pull", !.h = stream]
    /\ UNCHANGED <<session, audio, pw, engine, history>>

\* wait_for ends by a notification or its timeout: nothing but the stop
\* request and the error are looked at then.
PollWakes ==
    /\ poll.pc = "wait"
    /\ poll' = CASE poll.stop       -> [poll EXCEPT !.pc = "exited"]
                 [] ~poll.stop /\ audioError # 0
                                    -> [poll EXCEPT !.pc = "failed",
                                                    !.cause = audioError]
                 [] OTHER           -> [poll EXCEPT !.pc = "pull", !.h = stream]
    /\ UNCHANGED <<session, audio, pw, engine, history>>

\* pullTranscript: the text so far, which may be new, or a failure.
Pull ==
    /\ poll.pc = "pull"
    /\ \/ \E text \in Texts \union {NoText} :
             LET new == text \notin {NoText, lastPartial}
             IN  /\ poll' = [poll EXCEPT !.pc = IF new THEN "partial" ELSE "wait",
                                         !.h = 0,
                                         !.text = IF new THEN text ELSE NoText]
                 /\ lastPartial' = IF new THEN text ELSE lastPartial
                 /\ pulled' = IF text = NoText THEN pulled
                              ELSE [pulled EXCEPT ![poll.gen] = text]
       \/ /\ poll' = [poll EXCEPT !.pc = "failed", !.h = 0, !.cause = poll.gen]
          /\ UNCHANGED <<lastPartial, pulled>>
    /\ UNCHANGED <<session, audio, pw, stream, live, audioError,
                   shown, damaged, told, delivered>>

\* emitPartial: announced if the recording is still the present one.
Partial ==
    /\ poll.pc = "partial" /\ mutex = "free"
    /\ shown' = IF rec = poll.gen /\ state \in {"Recording", "Transcribing"}
                THEN [shown EXCEPT ![poll.gen] = poll.text] ELSE shown
    /\ poll' = [poll EXCEPT !.pc = "wait", !.text = NoText]
    /\ UNCHANGED <<session, audio, pw, engine, pulled, damaged, told, delivered>>

\* emitStreamingError: it keeps the lock until the microphone is closed.
Failed ==
    /\ poll.pc = "failed" /\ mutex = "free"
    /\ IF rec = poll.gen /\ state = "Recording"
       THEN PollTo("micTest") /\ mutex' = "poll"
       ELSE PollTo("exited") /\ UNCHANGED mutex
    /\ UNCHANGED <<state, rec, owner, audio, pw, engine, history>>

-----------------------------------------------------------------------------
(* The owner.                                                              *)

PollJoined == poll.pc \in {"none", "exited"}

\* stopWorker, up to the join.
RequestStop == poll' = [poll EXCEPT !.stop = TRUE]

\* start, ptt_down or toggle in Idle: MoonshineEngine::start first stops the
\* worker of the recording before.
Begin ==
    /\ OwnerAt("rest") /\ mutex = "free" /\ state = "Idle" /\ rec < MaxRec
    /\ mutex' = "owner" /\ rec' = rec + 1
    /\ OwnerTo("open") /\ RequestStop
    /\ UNCHANGED <<state, audio, pw, engine, history>>

\* Set by start: the new recording's callbacks come with its worker.
Worker(r) == [pc |-> "wait", gen |-> r, stop |-> FALSE, h |-> 0,
              text |-> NoText, cause |-> 0]

\* Faulty: a stream left by a failed recording is not released.
OpenKeepsStale ==
    /\ OwnerAt("open") /\ PollJoined
    /\ lastPartial' = NoText /\ audioError' = 0
    /\ stream' = rec /\ live' = live \union {rec}
    /\ poll' = Worker(rec) /\ OwnerTo("mic")
    /\ UNCHANGED <<mutex, state, rec, audio, pw, history>>

\* Faulty: the audio error of the recording before is not reset.
OpenKeepsError ==
    /\ OwnerAt("open") /\ PollJoined
    /\ lastPartial' = NoText
    /\ stream' = rec /\ live' = (live \ {stream}) \union {rec}
    /\ poll' = Worker(rec) /\ OwnerTo("mic")
    /\ UNCHANGED <<mutex, state, rec, audio, pw, audioError, history>>

\* Faulty: the last partial of the recording before is not cleared.
OpenKeepsPartial ==
    /\ OwnerAt("open") /\ PollJoined
    /\ audioError' = 0
    /\ stream' = rec /\ live' = (live \ {stream}) \union {rec}
    /\ poll' = Worker(rec) /\ OwnerTo("mic")
    /\ UNCHANGED <<mutex, state, rec, audio, pw, lastPartial, history>>

\* A stream that a failed recording left is released, then the new one is
\* opened.  The key terms may be refused, and then nothing has been reset, or
\* the stream, and then it does not exist.
Open ==
    /\ OwnerAt("open") /\ PollJoined
    /\ \/ /\ lastPartial' = NoText /\ audioError' = 0
          /\ \/ /\ stream' = rec /\ live' = (live \ {stream}) \union {rec}
                /\ poll' = Worker(rec) /\ OwnerTo("mic")
             \/ /\ stream' = 0 /\ live' = live \ {stream}
                /\ OwnerTo("undo") /\ UNCHANGED poll
       \/ /\ stream' = 0 /\ live' = live \ {stream}
          /\ OwnerTo("undo") /\ UNCHANGED <<poll, lastPartial, audioError>>
    /\ UNCHANGED <<mutex, state, rec, audio, pw, history>>

\* AudioCapture::start, which holds the loop lock, and setState(Recording).
StartAudio ==
    /\ OwnerAt("mic") /\ loop = "free"
    /\ IF capturing THEN UNCHANGED audio
       ELSE mic' = "on" /\ capturing' = TRUE /\ onChunk' = TRUE /\ UNCHANGED loop
    /\ state' = "Recording" /\ mutex' = "free" /\ OwnerTo("rest")
    /\ UNCHANGED <<rec, pw, engine, poll, history>>

\* What cancel, and finish in the end, do to the engine once the worker is
\* joined.
Released ==
    /\ stream' = 0 /\ live' = live \ {stream}
    /\ lastPartial' = NoText /\ audioError' = 0

\* The catch block of beginRecording: no microphone and no worker yet.
Undo ==
    /\ OwnerAt("undo")
    /\ onChunk' = FALSE
    /\ Released
    /\ mutex' = "free" /\ OwnerTo("rest")
    /\ UNCHANGED <<state, rec, mic, capturing, loop, pw, poll, history>>

\* stop, ptt_up, toggle (then finish) or cancel (then cancel) in Recording.
\* The lock is held while the microphone closes.
End(then) ==
    /\ OwnerAt("rest") /\ mutex = "free" /\ state = "Recording"
    /\ mutex' = "owner"
    /\ owner' = [pc |-> "micTest", next |-> then]
    /\ UNCHANGED <<state, rec, audio, pw, engine, poll, history>>

\* The state says that the recording is over, the lock is released, and the
\* worker is told to stop.  A cancel bumps m_generation as well, which drops
\* what the worker still has; here the state does.
MicClosed ==
    /\ owner.pc \in {"finish", "cancel"} /\ mutex = "owner"
    /\ mutex' = "free"
    /\ state' = IF OwnerAt("finish") THEN "Transcribing" ELSE "Cancelled"
    /\ RequestStop
    /\ UNCHANGED <<rec, owner, audio, pw, engine, history>>

\* Faulty: finish does not look at the audio error.
FinishUnchecked ==
    /\ OwnerAt("finish") /\ mutex = "free" /\ PollJoined
    /\ Released
    /\ \/ delivered' = delivered \union {rec} /\ UNCHANGED told
       \/ told' = [told EXCEPT ![rec] = Append(@, rec)] /\ UNCHANGED delivered
    /\ state' = "Idle" /\ OwnerTo("rest")
    /\ UNCHANGED <<mutex, rec, audio, pw, poll, pulled, shown, damaged>>

\* Faulty: the worker is not joined.
FinishNoJoin ==
    /\ OwnerAt("finish") /\ mutex = "free"
    /\ Released
    /\ delivered' = delivered \union {rec}
    /\ state' = "Idle" /\ OwnerTo("rest")
    /\ UNCHANGED <<mutex, rec, audio, pw, poll, pulled, shown, damaged, told>>

\* finish, on the finish worker.  An audio error is thrown and exchanged for
\* none; a failure to stop or to drain the stream leaves the last partial.
Finish ==
    /\ OwnerAt("finish") /\ mutex = "free" /\ PollJoined
    /\ stream' = 0 /\ live' = live \ {stream} /\ audioError' = 0
    /\ IF audioError # 0
       THEN /\ told' = [told EXCEPT ![rec] = Append(@, audioError)]
            /\ UNCHANGED <<lastPartial, delivered>>
       ELSE \/ /\ lastPartial' = NoText
               /\ delivered' = delivered \union {rec}
               /\ UNCHANGED told
            \/ /\ told' = [told EXCEPT ![rec] = Append(@, rec)]
               /\ UNCHANGED <<lastPartial, delivered>>
    /\ state' = "Idle" /\ OwnerTo("rest")
    /\ UNCHANGED <<mutex, rec, audio, pw, poll, pulled, shown, damaged>>

\* cancel of the engine: in Recording, or last in the destructors.
CancelEngine ==
    /\ owner.pc \in {"cancel", "destroy"} /\ PollJoined
    /\ OwnerAt("cancel") => mutex = "free"
    /\ Released
    /\ IF OwnerAt("cancel") THEN OwnerTo("rest") /\ state' = "Idle"
                             ELSE OwnerTo("gone") /\ UNCHANGED state
    /\ UNCHANGED <<mutex, rec, audio, pw, poll, history>>

\* ~Session: the microphone is closed without the lock.  A finish under way
\* is waited for, as the owner is one thread here.
Shutdown ==
    /\ OwnerAt("rest")
    /\ owner' = [pc |-> "micTest", next |-> "leave"]
    /\ UNCHANGED <<mutex, state, rec, audio, pw, engine, poll, history>>

\* The engine's cancel, in ~Session and again in ~MoonshineEngine.
StopLast ==
    /\ OwnerAt("leave")
    /\ OwnerTo("destroy") /\ RequestStop
    /\ UNCHANGED <<mutex, state, rec, audio, pw, engine, history>>

Gone == OwnerAt("gone") /\ UNCHANGED vars

-----------------------------------------------------------------------------
MicStep(t) == MicTest(t) \/ MicLock(t) \/ MicClose(t)

PipeWire == Process \/ LoadStream \/ AddAudio

PollWorker == PollWakes \/ Pull \/ Partial \/ Failed \/ MicStep("poll")

Continue == Open \/ StartAudio \/ Undo \/ MicClosed \/ Finish \/ CancelEngine
            \/ StopLast \/ MicStep("owner")

Command == Begin \/ Shutdown \/ \E then \in {"finish", "cancel"} : End(then)

Next == PipeWire \/ PollWorker \/ Continue \/ Command \/ Gone

\* Nobody owes a command or a chunk.  The locks are fair to the worker: the
\* owner holds the Session's lock only while a command runs.
Fairness ==
    /\ WF_vars(Continue)
    /\ WF_vars(LoadStream \/ AddAudio)
    /\ WF_vars(PollWakes \/ Pull) /\ SF_vars(Partial) /\ SF_vars(Failed)
    /\ WF_vars(MicStep("poll"))

Spec == Init /\ [][Next]_vars
FairSpec == Spec /\ Fairness

-----------------------------------------------------------------------------
(* Properties.                                                             *)

(* addAudio and pullTranscript load the handle of the stream and use it     *)
(* later: no other thread frees the stream in between.                      *)
StreamsInUseAreOpen ==
    /\ pw.pc = "add" => pw.h \in live
    /\ poll.pc = "pull" => poll.h \in live

(* session.cpp: MoonshineEngine::start or its destructor reclaims the       *)
(* stale handle of a failed stream.  The library never has two streams of   *)
(* ours, and none is left in the end.                                       *)
NoStreamLeaks ==
    /\ Cardinality(live) <= 1
    /\ OwnerAt("gone") => live = {}

(* An error is announced at most once for a recording, whether the worker   *)
(* reports it or finish throws it, and only for the recording it is of.     *)
ErrorsOfOwnRecording == \A r \in Recs : told[r] \in {<<>>, <<r>>}

(* A recording that lost a chunk is never delivered as if it were whole,    *)
(* though the error may come after the last poll.                           *)
DamagedIsNotDelivered == damaged \intersect delivered = {}

(* The process callback runs without the loop lock.  While it runs its      *)
(* stream is there, and nobody clears the function it calls.                *)
CallbackIsWhole == pw.pc # "idle" => onChunk /\ mic # "none"

(* moonshine_engine.cpp suppresses a partial equal to the last one.  That    *)
(* never hides one: what was announced is what was pulled, from the first   *)
(* partial of a recording on, whatever the recording before it ended with.  *)
PartialsCurrent ==
    poll.pc = "wait" /\ poll.gen = rec /\ state = "Recording" =>
        shown[rec] = pulled[rec]

(* Every start, stop, cancel, finish and the destructors return: whoever is *)
(* joined ends, even if the notification to wake up is lost.                *)
CallsReturn == owner.pc \notin {"rest", "gone"} ~> owner.pc \in {"rest", "gone"}
=============================================================================
