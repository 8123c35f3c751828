------------------------------ MODULE Session ------------------------------
(***************************************************************************)
(* The recording lifecycle of the dictation daemon: class Session of       *)
(* daemon/src/session.cpp, the thread that polls the streaming engine      *)
(* (MoonshineEngine::pollLoop) and the finish workers that drain a stopped  *)
(* recording.  Three kinds of threads take the one lock m_mutex:           *)
(*                                                                         *)
(*   - the IO thread runs every command and the destructor.  It joins the  *)
(*     other threads, sometimes while it holds the lock;                   *)
(*   - the poll worker, one per recording, calls emitPartial and           *)
(*     emitStreamingError;                                                 *)
(*   - the finish worker of recording g drains the engine, settles the     *)
(*     recording under the lock, then announces and types the text outside *)
(*     of it, so that it may still be typing when recording g+1 has begun. *)
(*                                                                         *)
(* An event is announced when it is handed to the emitter; whether the      *)
(* event loop still runs to send it is not known here.                     *)
(*                                                                         *)
(* A recording is named by the value m_generation has when it begins.      *)
(* Texts, key terms and error messages are left out.  A command that the   *)
(* code ignores in the present state changes nothing and has no action.    *)
(*                                                                         *)
(* A definition marked "Faulty:" is no part of the model.  It is what the  *)
(* definition below it would be with a plausible mistake in the code, and  *)
(* README.md names the property that catches it.                           *)
(***************************************************************************)
EXTENDS Naturals

CONSTANTS
    Windows,       \* window contexts a client may send with a start command
    NoWindow,      \* the empty optional: nobody but the daemon injects
    MaxGen,        \* bound on m_generation
    MaxPartials,   \* bound on the partial transcripts of one recording
    AudioMayFail   \* whether AudioCapture::start may throw

ASSUME SessionAssumption ==
    /\ NoWindow \notin Windows
    /\ MaxGen \in Nat \ {0}
    /\ MaxPartials \in Nat
    /\ AudioMayFail \in BOOLEAN

Gens == 1 .. MaxGen

VARIABLES
    state,         \* m_state
    generation,    \* m_generation
    window,        \* m_window
    clientOwns,    \* m_clientOwnsInjection
    mutex,         \* the holder of m_mutex across steps
    capturing,     \* AudioCapture::m_capturing, the microphone is open
    io,            \* where the IO thread is
    poll,          \* the engine's m_pollWorker
    fin,           \* fin[g]: the finish worker of recording g
    finishWorker,  \* the recording whose worker m_finishWorker holds, or 0
    fate, given, partials, finals, typed
        \* history, per recording: what became of it, the window it was
        \* started with, how many partial and final transcripts were
        \* announced, and how often the daemon typed its text

lifecycle == <<state, generation, window, clientOwns, mutex, capturing>>
threads   == <<io, poll, fin, finishWorker>>
history   == <<fate, given, partials, finals, typed>>
vars      == <<lifecycle, threads, history>>

States  == {"Idle", "Recording", "Transcribing", "Error", "Cancelled"}
IOSteps == {"ready", "startEngine", "startAudio", "undoStart", "undoJoin",
            "joinOld", "cancelEngine", "joinPoll",
            "joinFinish", "destroyEngine", "joinLast", "gone"}
PollSteps == {"none", "wait", "pull", "partial", "emit", "failed", "erring",
              "report", "exited"}
FinSteps == {"none", "start", "join", "lock", "erring", "report", "emit",
             "inject", "done"}
Outcomes == {"none", "text", "empty", "error"}
Fates == {"none", "recording", "draining", "cancelled", "delivered", "empty",
          "failed", "aborted"}

PollWorkers   == [pc : PollSteps, gen : 0 .. MaxGen, stop : BOOLEAN]
FinishWorkers == [pc : FinSteps, out : Outcomes,
                  win : Windows \union {NoWindow}, owns : BOOLEAN]

TypeOK ==
    /\ state \in States
    /\ generation \in 0 .. MaxGen
    /\ window \in Windows \union {NoWindow}
    /\ clientOwns \in BOOLEAN
    /\ mutex \in {"free", "io", "poll", "finish"}
    /\ capturing \in BOOLEAN
    /\ io \in IOSteps
    /\ poll \in PollWorkers
    /\ fin \in [Gens -> FinishWorkers]
    /\ finishWorker \in 0 .. MaxGen
    /\ fate \in [Gens -> Fates]
    /\ given \in [Gens -> Windows \union {NoWindow}]
    /\ partials \in [Gens -> Nat]
    /\ finals \in [Gens -> Nat]
    /\ typed \in [Gens -> Nat]

Init ==
    /\ state = "Idle"
    /\ generation = 0
    /\ window = NoWindow
    /\ clientOwns = FALSE
    /\ mutex = "free"
    /\ capturing = FALSE
    /\ io = "ready"
    /\ poll = [pc |-> "none", gen |-> 0, stop |-> FALSE]
    /\ fin = [g \in Gens |-> [pc |-> "none", out |-> "none",
                              win |-> NoWindow, owns |-> FALSE]]
    /\ finishWorker = 0
    /\ fate = [g \in Gens |-> "none"]
    /\ given = [g \in Gens |-> NoWindow]
    /\ partials = [g \in Gens |-> 0]
    /\ finals = [g \in Gens |-> 0]
    /\ typed = [g \in Gens |-> 0]

-----------------------------------------------------------------------------
(* Helpers.                                                                *)

\* The poll worker's function has returned: join() on it does not block.
PollJoined == poll.pc \in {"none", "exited"}

\* The worker m_finishWorker holds, if any, has returned.
FinishJoined == finishWorker # 0 => fin[finishWorker].pc = "done"

\* MoonshineEngine::stopWorker up to the join.
RequestStop == poll' = [poll EXCEPT !.stop = TRUE]

\* setState: entering Idle also clears m_clientOwnsInjection.
SetState(s) ==
    /\ state' = s
    /\ clientOwns' = IF s = "Idle" THEN FALSE ELSE clientOwns

FinishGoto(g, pc) == fin' = [fin EXCEPT ![g].pc = pc]

\* What the user cancelled stays cancelled, whatever the code does with it.
Settle(g, f) ==
    fate' = [fate EXCEPT ![g] = IF @ = "cancelled" THEN @ ELSE f]

-----------------------------------------------------------------------------
(* The IO thread: commands.                                                *)

(* start, ptt_down (with or without a window) or toggle (without) in Idle. *)
(* The lock stays held until the engine and the microphone run.            *)
BeginRecording(w) ==
    /\ io = "ready" /\ mutex = "free" /\ state = "Idle"
    /\ generation + 2 <= MaxGen
    /\ mutex' = "io"
    /\ window' = w
    /\ clientOwns' = (w # NoWindow)
    /\ generation' = generation + 1
    /\ io' = "startEngine"
    /\ Settle(generation + 1, "recording")
    /\ given' = [given EXCEPT ![generation + 1] = w]
    /\ UNCHANGED <<state, capturing, poll, fin, finishWorker,
                   partials, finals, typed>>

\* MoonshineEngine::start joins the previous poll worker, then starts the
\* stream and its worker; key terms or the stream may be refused (throw).
StartEngine ==
    /\ io = "startEngine" /\ PollJoined
    /\ \/ /\ poll' = [pc |-> "wait", gen |-> generation, stop |-> FALSE]
          /\ io' = "startAudio"
       \/ /\ io' = "undoStart"
          /\ UNCHANGED poll
    /\ UNCHANGED <<lifecycle, fin, finishWorker, history>>

StartAudio ==
    /\ io = "startAudio"
    /\ capturing' = TRUE
    /\ SetState("Recording")
    /\ mutex' = "free"
    /\ io' = "ready"
    /\ UNCHANGED <<generation, window, poll, fin, finishWorker, history>>

StartAudioFails ==
    /\ io = "startAudio" /\ AudioMayFail
    /\ io' = "undoStart"
    /\ UNCHANGED <<lifecycle, poll, fin, finishWorker, history>>

\* The catch block, up to and after the join in TranscriptionEngine::cancel.
UndoStart ==
    /\ io = "undoStart"
    /\ capturing' = FALSE
    /\ RequestStop
    /\ io' = "undoJoin"
    /\ UNCHANGED <<state, generation, window, clientOwns, mutex, fin,
                   finishWorker, history>>

UndoDone ==
    /\ io = "undoJoin" /\ PollJoined
    /\ window' = NoWindow
    /\ clientOwns' = FALSE
    /\ mutex' = "free"
    /\ io' = "ready"
    /\ Settle(generation, "aborted")
    /\ UNCHANGED <<state, generation, capturing, poll, fin, finishWorker,
                   given, partials, finals, typed>>

(* stop, ptt_up or toggle while recording.  The worker is running before   *)
(* the move assignment joins the one m_finishWorker held, lock held.       *)
StartFinalization ==
    /\ io = "ready" /\ mutex = "free" /\ state = "Recording"
    /\ capturing' = FALSE
    /\ SetState("Transcribing")
    /\ FinishGoto(generation, "start")
    /\ mutex' = "io"
    /\ io' = "joinOld"
    /\ Settle(generation, "draining")
    /\ UNCHANGED <<generation, window, poll, finishWorker,
                   given, partials, finals, typed>>

JoinOld ==
    /\ io = "joinOld" /\ FinishJoined
    /\ finishWorker' = generation
    /\ mutex' = "free"
    /\ io' = "ready"
    /\ UNCHANGED <<state, generation, window, clientOwns, capturing, poll,
                   fin, history>>

(* cancel while recording: the lock is dropped around the engine's cancel. *)
CancelRecording ==
    /\ io = "ready" /\ mutex = "free" /\ state = "Recording"
    /\ capturing' = FALSE
    /\ generation' = generation + 1
    /\ window' = NoWindow
    /\ SetState("Cancelled")
    /\ io' = "cancelEngine"
    /\ Settle(generation, "cancelled")
    /\ UNCHANGED <<mutex, poll, fin, finishWorker,
                   given, partials, finals, typed>>

\* Faulty: the worker is joined without being told to stop.
CancelEngineNoStop ==
    /\ io = "cancelEngine"
    /\ io' = "joinPoll"
    /\ UNCHANGED <<lifecycle, poll, fin, finishWorker, history>>

CancelEngine ==
    /\ io = "cancelEngine"
    /\ RequestStop
    /\ io' = "joinPoll"
    /\ UNCHANGED <<lifecycle, fin, finishWorker, history>>

\* Faulty: the worker is told to stop but not joined.
CancelDoneNoJoin ==
    /\ io = "joinPoll" /\ mutex = "free"
    /\ SetState("Idle")
    /\ io' = "ready"
    /\ UNCHANGED <<generation, window, mutex, capturing, poll, fin,
                   finishWorker, history>>

CancelDone ==
    /\ io = "joinPoll" /\ PollJoined /\ mutex = "free"
    /\ SetState("Idle")
    /\ io' = "ready"
    /\ UNCHANGED <<generation, window, mutex, capturing, poll, fin,
                   finishWorker, history>>

\* Faulty: cancel goes Idle at once, as if nothing were under way.
CancelFinalizationAtOnce ==
    /\ io = "ready" /\ mutex = "free" /\ state = "Transcribing"
    /\ SetState("Idle")
    /\ Settle(generation, "cancelled")
    /\ UNCHANGED <<generation, window, mutex, capturing, threads,
                   given, partials, finals, typed>>

(* cancel while transcribing only marks: the worker drops its result.      *)
CancelFinalization ==
    /\ io = "ready" /\ mutex = "free" /\ state = "Transcribing"
    /\ SetState("Cancelled")
    /\ Settle(generation, "cancelled")
    /\ UNCHANGED <<generation, window, mutex, capturing, threads,
                   given, partials, finals, typed>>

-----------------------------------------------------------------------------
(* The IO thread: ~Session, once the event loop has stopped.               *)

Shutdown ==
    /\ io = "ready"
    /\ capturing' = FALSE
    /\ io' = "joinFinish"
    /\ UNCHANGED <<state, generation, window, clientOwns, mutex, poll, fin,
                   finishWorker, history>>

\* Faulty: the destructor does not wait for the finish worker.
JoinFinishNoJoin ==
    /\ io = "joinFinish"
    /\ io' = "destroyEngine"
    /\ UNCHANGED <<lifecycle, poll, fin, finishWorker, history>>

JoinFinish ==
    /\ io = "joinFinish" /\ FinishJoined
    /\ io' = "destroyEngine"
    /\ UNCHANGED <<lifecycle, poll, fin, finishWorker, history>>

DestroyEngine ==
    /\ io = "destroyEngine"
    /\ RequestStop
    /\ io' = "joinLast"
    /\ UNCHANGED <<lifecycle, fin, finishWorker, history>>

Destroyed ==
    /\ io = "joinLast" /\ PollJoined
    /\ io' = "gone"
    /\ UNCHANGED <<lifecycle, poll, fin, finishWorker, history>>

-----------------------------------------------------------------------------
(* The poll worker: MoonshineEngine::pollLoop and the Session's callbacks. *)

\* The wait ends on a notification or after the update interval.
PollWake ==
    /\ poll.pc = "wait"
    /\ poll' = [poll EXCEPT !.pc = IF poll.stop THEN "exited" ELSE "pull"]
    /\ UNCHANGED <<lifecycle, io, fin, finishWorker, history>>

PollNothing ==
    /\ poll.pc = "pull"
    /\ poll' = [poll EXCEPT !.pc = "wait"]
    /\ UNCHANGED <<lifecycle, io, fin, finishWorker, history>>

\* A stream has text only once the microphone has fed it.
PollText ==
    /\ poll.pc = "pull"
    /\ io \notin {"startAudio", "undoStart", "undoJoin"}
    /\ partials[poll.gen] < MaxPartials
    /\ poll' = [poll EXCEPT !.pc = "partial"]
    /\ UNCHANGED <<lifecycle, io, fin, finishWorker, history>>

\* The stream cannot be transcribed, or addAudio had failed.
PollFails ==
    /\ poll.pc = "pull"
    /\ poll' = [poll EXCEPT !.pc = "failed"]
    /\ UNCHANGED <<lifecycle, io, fin, finishWorker, history>>

\* emitPartial decides under the lock ...
PartialCheck ==
    /\ poll.pc = "partial" /\ mutex = "free"
    /\ poll' = [poll EXCEPT !.pc =
           IF poll.gen = generation /\ state \in {"Recording", "Transcribing"}
           THEN "emit" ELSE "wait"]
    /\ UNCHANGED <<lifecycle, io, fin, finishWorker, history>>

\* ... and announces after it has released it.
PartialEmit ==
    /\ poll.pc = "emit"
    /\ poll' = [poll EXCEPT !.pc = "wait"]
    /\ partials' = [partials EXCEPT ![poll.gen] = @ + 1]
    /\ UNCHANGED <<lifecycle, io, fin, finishWorker, fate, given, finals, typed>>

\* emitStreamingError loses against stop or cancel: nothing is reported.
StreamingErrorStale ==
    /\ poll.pc = "failed" /\ mutex = "free"
    /\ poll.gen # generation \/ state # "Recording"
    /\ poll' = [poll EXCEPT !.pc = "exited"]
    /\ UNCHANGED <<lifecycle, io, fin, finishWorker, history>>

\* Faulty: the microphone is not closed.
StreamingErrorMicOpen ==
    /\ poll.pc = "failed" /\ mutex = "free"
    /\ poll.gen = generation /\ state = "Recording"
    /\ mutex' = "poll"
    /\ window' = NoWindow
    /\ SetState("Error")
    /\ poll' = [poll EXCEPT !.pc = "erring"]
    /\ UNCHANGED <<generation, capturing, io, fin, finishWorker, history>>

StreamingError ==
    /\ poll.pc = "failed" /\ mutex = "free"
    /\ poll.gen = generation /\ state = "Recording"
    /\ mutex' = "poll"
    /\ capturing' = FALSE
    /\ window' = NoWindow
    /\ SetState("Error")
    /\ poll' = [poll EXCEPT !.pc = "erring"]
    /\ UNCHANGED <<generation, io, fin, finishWorker, history>>

StreamingErrorIdle ==
    /\ poll.pc = "erring"
    /\ SetState("Idle")
    /\ mutex' = "free"
    /\ poll' = [poll EXCEPT !.pc = "report"]
    /\ Settle(poll.gen, "failed")
    /\ UNCHANGED <<generation, window, capturing, io, fin, finishWorker,
                   given, partials, finals, typed>>

StreamingErrorReport ==
    /\ poll.pc = "report"
    /\ poll' = [poll EXCEPT !.pc = "exited"]
    /\ UNCHANGED <<lifecycle, io, fin, finishWorker, history>>

-----------------------------------------------------------------------------
(* The finish worker of recording g.                                       *)

\* MoonshineEngine::finish stops and joins the poll worker ...
FinishStop(g) ==
    /\ fin[g].pc = "start"
    /\ RequestStop
    /\ FinishGoto(g, "join")
    /\ UNCHANGED <<lifecycle, io, finishWorker, history>>

\* ... then drains the stream: text, nothing, or an exception.
FinishDrain(g) ==
    /\ fin[g].pc = "join" /\ PollJoined
    /\ \E out \in {"text", "empty", "error"} :
           fin' = [fin EXCEPT ![g] = [@ EXCEPT !.pc = "lock", !.out = out]]
    /\ UNCHANGED <<lifecycle, io, poll, finishWorker, history>>

\* Faulty: a dropped result leaves the session in Cancelled.
FinishDroppedStuck(g) ==
    /\ fin[g].pc = "lock" /\ mutex = "free"
    /\ g # generation \/ state = "Cancelled"
    /\ FinishGoto(g, "done")
    /\ UNCHANGED <<lifecycle, io, poll, finishWorker, history>>

\* Another generation is current, and the worker returns without a trace; or
\* the user cancelled while the engine drained, and the result is dropped.
FinishDropped(g) ==
    /\ fin[g].pc = "lock" /\ mutex = "free"
    /\ g # generation \/ state = "Cancelled"
    /\ IF g # generation
       THEN UNCHANGED <<state, clientOwns, window>>
       ELSE SetState("Idle") /\ window' = NoWindow
    /\ FinishGoto(g, "done")
    /\ UNCHANGED <<generation, mutex, capturing, io, poll, finishWorker,
                   history>>

\* Faulty: a cancel during the drain is not looked for.
CompleteTranscriptionAnyway(g) ==
    /\ fin[g].pc = "lock" /\ mutex = "free" /\ g = generation
    /\ fin[g].out = "text"
    /\ window' = NoWindow
    /\ SetState("Idle")
    /\ fin' = [fin EXCEPT ![g] = [@ EXCEPT !.win = window,
                                           !.owns = clientOwns, !.pc = "emit"]]
    /\ Settle(g, "delivered")
    /\ UNCHANGED <<generation, mutex, capturing, io, poll, finishWorker,
                   given, partials, finals, typed>>

\* Faulty: window and ownership are read after setState has cleared them.
CompleteTranscriptionLate(g) ==
    /\ fin[g].pc = "lock" /\ mutex = "free" /\ g = generation
    /\ fin[g].out = "text" /\ state # "Cancelled"
    /\ window' = NoWindow
    /\ SetState("Idle")
    /\ fin' = [fin EXCEPT ![g] = [@ EXCEPT !.win = window',
                                           !.owns = clientOwns', !.pc = "emit"]]
    /\ Settle(g, "delivered")
    /\ UNCHANGED <<generation, mutex, capturing, io, poll, finishWorker,
                   given, partials, finals, typed>>

\* completeTranscription takes window and ownership, and goes Idle.
CompleteTranscription(g) ==
    /\ fin[g].pc = "lock" /\ mutex = "free" /\ g = generation
    /\ fin[g].out \in {"text", "empty"} /\ state # "Cancelled"
    /\ window' = NoWindow
    /\ SetState("Idle")
    /\ fin' = [fin EXCEPT ![g] =
                 [@ EXCEPT !.win = window, !.owns = clientOwns,
                           !.pc = IF fin[g].out = "empty" THEN "done"
                                                            ELSE "emit"]]
    /\ Settle(g, IF fin[g].out = "empty" THEN "empty" ELSE "delivered")
    /\ UNCHANGED <<generation, mutex, capturing, io, poll, finishWorker,
                   given, partials, finals, typed>>

\* failTranscription announces Error and Idle under the lock.
FailTranscription(g) ==
    /\ fin[g].pc = "lock" /\ mutex = "free" /\ g = generation
    /\ fin[g].out = "error" /\ state # "Cancelled"
    /\ mutex' = "finish"
    /\ window' = NoWindow
    /\ SetState("Error")
    /\ FinishGoto(g, "erring")
    /\ UNCHANGED <<generation, capturing, io, poll, finishWorker, history>>

FailedIdle(g) ==
    /\ fin[g].pc = "erring"
    /\ SetState("Idle")
    /\ mutex' = "free"
    /\ FinishGoto(g, "report")
    /\ Settle(g, "failed")
    /\ UNCHANGED <<generation, window, capturing, io, poll, finishWorker,
                   given, partials, finals, typed>>

FailedReport(g) ==
    /\ fin[g].pc = "report"
    /\ FinishGoto(g, "done")
    /\ UNCHANGED <<lifecycle, io, poll, finishWorker, history>>

\* The final transcript is announced with the lock released; the daemon
\* types it unless the client that started the recording owns injection.
EmitFinal(g) ==
    /\ fin[g].pc = "emit"
    /\ finals' = [finals EXCEPT ![g] = @ + 1]
    /\ FinishGoto(g, IF fin[g].owns THEN "done" ELSE "inject")
    /\ UNCHANGED <<lifecycle, io, poll, finishWorker, fate, given, partials,
                   typed>>

\* The wtype child has exited.
Inject(g) ==
    /\ fin[g].pc = "inject"
    /\ typed' = [typed EXCEPT ![g] = @ + 1]
    /\ FinishGoto(g, "done")
    /\ UNCHANGED <<lifecycle, io, poll, finishWorker, fate, given, partials,
                   finals>>

-----------------------------------------------------------------------------
Command ==
    \/ \E w \in Windows \union {NoWindow} : BeginRecording(w)
    \/ StartFinalization
    \/ CancelRecording
    \/ CancelFinalization
    \/ Shutdown

\* What the IO thread does once it is inside a command or the destructor.
IOStep ==
    \/ StartEngine \/ StartAudio \/ StartAudioFails \/ UndoStart \/ UndoDone
    \/ JoinOld \/ CancelEngine \/ CancelDone
    \/ JoinFinish \/ DestroyEngine \/ Destroyed

PollStep ==
    \/ PollWake \/ PollNothing \/ PollText \/ PollFails
    \/ PartialCheck \/ PartialEmit
    \/ StreamingErrorStale \/ StreamingError \/ StreamingErrorIdle
    \/ StreamingErrorReport

FinishStep(g) ==
    \/ FinishStop(g) \/ FinishDrain(g) \/ FinishDropped(g)
    \/ CompleteTranscription(g) \/ FailTranscription(g) \/ FailedIdle(g)
    \/ FailedReport(g) \/ EmitFinal(g) \/ Inject(g)

\* The process has exited and stays so.
Terminated == io = "gone" /\ UNCHANGED vars

Next == Command \/ IOStep \/ PollStep \/ (\E g \in Gens : FinishStep(g))
        \/ Terminated

\* A thread that can go on eventually does; users need not send commands.
Fairness ==
    /\ WF_vars(IOStep)
    /\ WF_vars(PollStep)
    /\ \A g \in Gens : WF_vars(FinishStep(g))

Spec == Init /\ [][Next]_vars
FairSpec == Spec /\ Fairness

-----------------------------------------------------------------------------
(* Properties.                                                             *)

(* The engine's m_pollWorker is a plain jthread and its callbacks hang on  *)
(* the current stream: two threads inside start, finish or cancel would    *)
(* join the same worker.  Only the Session's states keep them apart.       *)
EngineUsers ==
    {g \in Gens : fin[g].pc \in {"start", "join"}} \union
    (IF io \in {"startEngine", "startAudio", "undoStart", "undoJoin",
               "cancelEngine", "joinPoll", "destroyEngine", "joinLast"}
     THEN {0} ELSE {})

EngineExclusive == \A a, b \in EngineUsers : a = b

(* The engine is never drained or torn down under an open microphone:      *)
(* every path closes it first, so that no chunk reaches a freed stream.    *)
MicClosedBeforeTeardown == capturing => EngineUsers = {}

(* The announced state tells the truth about the microphone: it is open    *)
(* exactly in Recording, until the daemon shuts down.                      *)
MicOnlyWhileRecording ==
    /\ capturing => state = "Recording"
    /\ state = "Recording" /\ ~capturing =>
           io \in {"joinFinish", "destroyEngine", "joinLast", "gone"}

(* A finish worker that is about to settle its recording finds it current  *)
(* and unsettled, so the generation test of completeTranscription never    *)
(* leaves the daemon in Transcribing for good.                             *)
FinishNeverStale ==
    \A g \in Gens : fin[g].pc = "lock" =>
        g = generation /\ state \in {"Transcribing", "Cancelled"}

(* A cancelled recording is silent: no final transcript, nothing typed,    *)
(* wherever its finish worker was when the user cancelled.                 *)
CancelledIsSilent ==
    \A g \in Gens : fate[g] = "cancelled" => finals[g] = 0 /\ typed[g] = 0

(* The text of a recording is announced at most once and typed at most     *)
(* once, typed only after the announcement, and never typed by the daemon  *)
(* when a client's window came with the start command, even though m_window *)
(* and m_clientOwnsInjection may by then belong to the next recording.     *)
DeliveredOnce ==
    \A g \in Gens :
        /\ finals[g] <= 1 /\ typed[g] <= finals[g]
        /\ typed[g] = 1 => given[g] = NoWindow

(* What a finish worker still has in hand is what its recording was        *)
(* started with.                                                           *)
RightWindow ==
    \A g \in Gens : fin[g].pc \in {"emit", "inject"} =>
        fin[g].win = given[g] /\ fin[g].owns = (given[g] # NoWindow)

(* After the destructor no thread of the Session is left that could call   *)
(* into it, and no text is left half way: it was announced, and typed if   *)
(* that was for the daemon to do.                                          *)
QuietAfterDestruction ==
    io = "gone" =>
        /\ PollJoined
        /\ \A g \in Gens :
               /\ fin[g].pc \in {"none", "done"}
               /\ fate[g] = "delivered" =>
                      finals[g] = 1 /\ (given[g] = NoWindow => typed[g] = 1)

(* A partial transcript is announced only inside the session it belongs    *)
(* to: never after that recording went back to Idle, never after its final *)
(* transcript, although emitPartial announces after it dropped the lock.   *)
PartialInsideSession ==
    [][\A g \in Gens : partials'[g] # partials[g] =>
          /\ state # "Idle" /\ finals[g] = 0
          /\ generation = g \/ (generation = g + 1 /\ state = "Cancelled")]_vars

(* Every command returns to the event loop, and the destructor ends.       *)
CommandReturns == io # "ready" ~> io \in {"ready", "gone"}

(* protocol.hpp: an Error event carries the failure to the requesting      *)
(* client, so a start command that fails must get out of its catch block.  *)
FailedStartAnswered == io = "undoStart" ~> io = "ready"
=============================================================================
