# A verification model of hyprdictate

hyprdictate is voice dictation for Hyprland.  A daemon (`hyprdictated`) records
the microphone, streams it through the Moonshine engine and announces
transcripts; a Hyprland plugin and a command line client (`hyprdictate`) send it
commands; the plugin types the final text into the window that was focused when
the recording began.  This directory holds TLA+ models of that system, the TLC
configurations that check them, and TLAPS proofs of the safety of its parts.

Paths below are relative to the repository; `tlc -config X.cfg M` checks module
`M` under `X.cfg`, and `tlapm XProofs.tla` checks the proofs about module `X`.

## 1. Inventory

| Component | State it keeps | Operations | What makes it correct |
|---|---|---|---|
| **Session** `daemon/src/session.*` | `m_state`, `m_generation`, `m_window`, `m_clientOwnsInjection`, `m_mutex`, `m_finishWorker` | `handle` (start, stop, toggle, ptt, cancel, status, reload, identify), `emitPartial`, `emitStreamingError`, the finish worker, `~Session` | Recordings never mix; each has one outcome; a cancelled one is silent; no deadlock; the destructor leaves nobody behind |
| **MoonshineEngine** `daemon/src/moonshine_engine.*` | stream handle, `m_pollWorker`, `m_audioError`, `m_lastPartial`, callbacks | `start`, `addAudio`, `finish`, `cancel`, `pollLoop` | One thread at a time starts, drains or cancels; the handle is not used after it is freed; a worker told to stop stops |
| **AudioCapture** `daemon/src/audio.*` | `m_capturing`, PipeWire thread loop and stream | `start`, `stop`, `cancel`, the process callback | No chunk after `stop` has returned; the microphone is closed on every path |
| **IpcServer** `daemon/src/ipc.*` | acceptor, connections with read buffer and outbox | accept and greet, read, dispatch, `broadcast`, write, `stop` | Events reach every client whole and in order; a failing client does not disturb the others |
| **WtypeInjector** `daemon/src/inject.*` | none | `inject`: pipe, fork, write, wait | The text is typed or an error is returned; no zombie |
| **Daemon process** `daemon/src/main.cpp` | wiring, signal handler | start, signal, destruction | Everything stops in an order in which nobody calls into the dead |
| **Config**, **Vocabulary** | none after start | pure functions | The values of the file |
| **Protocol** `shared/` | none | serialize, parse | Parsing inverts serializing |
| **CLI** `cli/src/main.cpp` | none | one command per process; `status` waits for a reply | The reply it prints is the one to its question |
| **SocketClient** `plugin/src/socket_client.*` | `m_fd`, `m_source`, `m_retryTimer`, `m_backoffMs`, `m_readbuf` | `connect`, `send`, `handleReadable`, `handleDisconnect`, `onRetryTimer`, destructor | Connected or retrying, never both, never neither; lines whole and in order |
| **Dispatchers** `plugin/src/dispatcher.*` | `g_plugin.targetWindow` | toggle, ptt_down, ptt_up, cancel | The window captured belongs to the recording it starts |
| **Plugin callbacks** `plugin/src/main.cpp`, `globals.hpp` | `g_plugin.daemonState`, `targetWindow`, the components | `onDaemonState`, `onDaemonTranscript`, load and unload | The mirror follows the daemon; each final text is typed once, where it belongs |
| **Injector** `plugin/src/injector.*`, `injection_gate.hpp` | timer, pending text and window, child, pidfd, saved focus | `startInject`, `pollInputRelease`, `launchInject`, `finishInject`, `terminateChild` | One injection at a time; only with the input released; focus given back; no child left |
| **Indicator** `plugin/src/indicator.*` | saved border colours | on the Recording edge | The user's border comes back |
| Logging, tests, build and service files | none | | no behaviour of their own |

How they interact.  Clients write lines to a Unix socket; the daemon's one IO
thread reads them and calls `Session::handle`.  Session starts two kinds of
threads: the engine's poll worker (partial transcripts, stream errors) and a
finish worker per stopped recording (drain, announce, type).  All three take
`m_mutex`; the IO thread also *joins* the others, sometimes with the lock held.
Announcements are posted to the IO thread and broadcast to every client.  In
the plugin everything runs on the compositor's thread, in callbacks of its event
loop; what interleaves there are the user, timers, the daemon's messages and the
wtype process.

What is hard: the finish worker outlives its recording; `handleCancel` drops the
lock in its middle; partial transcripts are checked under the lock and announced
outside; state changes are announced before the final transcript they lead to;
the plugin decides on a mirror that is behind; two clients with different ideas
of who types the text; reads and deaths in the middle of a line; a failed
identify inside `connect`; the focus, the target and the held keys may change at
every step of an injection; failures half way through a start; a stream handle
and a callback used by threads without a common lock; greetings that overtake
posted events; clients that go while they are written to; a daemon that dies
with the plugin's border coloured; a pipe whose reader is gone.  `PROJECT.json`
lists each of these hazards at its line, with the properties that watch it.

## 2. Modules

```
Session ---- MCSession               the daemon, every thread and the lock
   |
SessionDictation -- MCSessionDictation    Session implements Dictation
   |  \------------- SessionProofs
   |
Dictation                            what the daemon promises

Engine ---- MCEngine                 microphone, stream and poll worker under it
      \---- EngineProofs
Wtype ----- MCWtype                  the daemon's own typing
      \---- WtypeProofs
IpcServer - MCIpcServer              the daemon's socket and its clients
   |  \----- IpcServerProofs
   |
Feed                                 what it promises each client
Protocol -- MCProtocol               what a line means
      \---- ProtocolProofs

System (EXTENDS Session) -- MCSystem the daemon, the plugin's state, two clients
      \---- SessionProofs
Plugin ---- MCPlugin                 the plugin across restarts of the daemon
      \---- PluginProofs
SocketClient -- MCSocketClient       the plugin's connection
      \---- SocketClientProofs
Injector ---- MCInjector             typing a text into a window
        \---- InjectorProofs
```

System composes the Session with the plugin's callbacks.  The other modules take
of their neighbours only what they meet: Engine the Session's lock and the order
of its calls, Plugin the states a daemon goes through and a connection that
breaks, IpcServer a state that changes; each says so in its first comment.

### Session

One variable per member of the class, and one program counter per thread: `io`
(the IO thread inside a command or the destructor), `poll` (the engine's one
`m_pollWorker`) and `fin[g]` (the finish worker of recording `g`).  `mutex` is
the holder of `m_mutex` when it is kept over more than one step; a step that
takes and releases the lock needs it free.  A command is cut where another
thread can get in between, and where the code blocks (at joins):

| Code | Actions |
|---|---|
| `beginRecording` (lock held throughout) | `BeginRecording`, `StartEngine`, `StartAudio`; the catch block: `StartAudioFails`, `UndoStart`, `UndoDone` |
| `startFinalization` (lock held; the worker starts, then the move assignment joins the old one) | `StartFinalization`, `JoinOld` |
| `handleCancel` while recording (lock dropped around the engine's cancel) | `CancelRecording`, `CancelEngine`, `CancelDone` |
| `handleCancel` while transcribing | `CancelFinalization` |
| `pollLoop`, `emitPartial`, `emitStreamingError` | `PollWake`, `PollNothing`, `PollText`, `PollFails`, `PartialCheck`, `PartialEmit`, `StreamingErrorStale`, `StreamingError`, `StreamingErrorIdle`, `StreamingErrorReport` |
| the finish worker: `MoonshineEngine::finish`, `completeTranscription`, `failTranscription` | `FinishStop`, `FinishDrain`, `FinishDropped`, `CompleteTranscription`, `FailTranscription`, `FailedIdle`, `FailedReport`, `EmitFinal`, `Inject` |
| `~Session` and the engine's destructor | `Shutdown`, `JoinFinish`, `DestroyEngine`, `Destroyed` |

A recording is named by the value `m_generation` has while it runs; `cancel`
bumps the counter, so names have gaps.  The history variables `fate`, `given`,
`partials`, `finals`, `typed` remember per recording what happened to it; no
guard of the model reads them, except `partials`, which bounds `PollText`.
Commands that the code ignores in the present state change nothing and are
stutters here (`System.Handle` has them explicitly); `status`, `reload` and
`identify` change no state of the Session.

Abstracted: the texts, key terms, error messages, log lines.  What a drain or a
poll returns is a choice (text, nothing, an exception).  `Inject` is the wtype
child run by the finish worker: one step when it has ended, so that a slow child
is a worker that stays at `inject`.

### Dictation and SessionDictation

`Dictation` is the daemon as its clients may think of it: no threads, no lock;
recordings follow one another, each listens, is settled or discarded, and gets
one outcome for good; the text of a delivered one is announced once, and typed
once by the daemon unless a client's window came with the start command.
`SessionDictation` gives the refinement mapping: the phase is read off `state` and
the fates, `announced` is `finals`, `owner` is `given`.  `RefinesDictation` is the
safety half, `KeepsDictationFair` the progress half: what was stopped or
cancelled ends, and an accepted text is delivered, through shutdown too.

### System

The Session with its clients: `cmds` and `events` are the two directions of the
plugin's socket, in order; `Announce` turns what a step of the Session changed
into the events `setState` and `completeTranscription` emit, in their order.  The
plugin's part is `onDaemonState`, `onDaemonTranscript` and the four dispatchers;
the CLI sends commands without a window, on a connection of its own.  `Handle`
is `Session::handle` with the ignored commands.  Any key may be pressed and any command
typed at any time, however far the plugin's mirror is behind.  The plugin stays connected and
the daemon does not shut down in this module.  Partial transcripts and Error
texts do not travel: the plugin forwards them and decides nothing on them.  The
injector's part here is the set `injected` of (recording, window) it accepted; a
busy injector, which rejects a text, is the business of `Injector`.
`captureFocusedWindow` also returns early, keeping the old target, when the
compositor has no focus state at all, which does not happen in a running one.

Whose text goes where is not certain in this program: a start key pressed too early, or a
command from the command line, takes the target from a text that is still to come
(section 5).  Two history variables say for which recordings nobody did so.  A start key is
calm (`calmKey`) if all before it is `Over`: no recording under way, no text on its way, no
start, Error or Cancelled unread.  A recording that a calm key's command began is in `calm`
until its text has come (`Pending`) or somebody disturbs it: another start or cancel
key, or a recording begun by anyone (`Disturb`); what is no longer pending stays in
`calm` (`Undisturbed`).  No action reads the two; only the properties do.

### SocketClient

One step per handler, since the compositor's thread runs each to the end.  An
event is a line of two pieces: a read takes any number of pieces, and the daemon
may die after the first.  `Split` is the loop of `handleReadable` over the
buffer, piece by piece (`Consume`), `Parses` says which lines `parseEvent` accepts.  `Connect` has the three
ends of `connect()`: refused; open, which only means that the connection waits in the
listener's queue; or open with a failed identify.  The greeting is the first event the daemon
sends, cut by its death like any other, and never sent if it dies before it accepts.

### Injector

The handlers on the compositor's thread, a clock in ticks of the poll interval,
a user who moves the focus, closes windows, holds keys, and the wtype process.
`typedInto` collects the windows wtype's keys went to.  `launchInject` is cut where the
child is: `LaunchFails` are its ends before there is one (target expired, deadline passed, no
surface, spawn refused; the focus is where it was), `Launch` goes up to the spawn, `Watch` is its
good end, `WatchFails` the one with a pidfd or an event source refused, which kills and
reaps the child and gives the focus back.  While `launching` the compositor's thread is
inside the call: of the others only the wtype process takes steps, and it may have typed or
exited before it is killed.

### Engine

AudioCapture and MoonshineEngine where Session has one step: the owner (commands,
finish worker and destructor call one after the other), the poll worker, and
PipeWire's data thread.  A chunk is `Process`, `LoadStream`, `AddAudio`, since the handle is
loaded and then used; a poll is `PollWakes`, `Pull`, `Partial` or `Failed`; closing the
microphone is `MicTest`, `MicLock`, `MicClose` for whichever thread does it.  A
recording, its generation and its stream's handle are one number, so that a step
that mixes two recordings is seen.  `Open` is `MoonshineEngine::start` with its three ends; `Finish`
the engine's `finish` and the Session's report of what came out.

The implementation sets `m_capturing` and clears `m_onChunk` in two stores under the loop lock;
`MicClose` has them as one.  A `cancel` whose test falls between them clears
`m_onChunk` a second time, at the same moment and without the lock: on the `~Session`
path this is a data race in the code, and what it does to the `std::function` is not modelled.

### IpcServer and Feed

The IO thread's handlers, one action each, for any number of connections.  `AcceptFails` is
the error branch of `doAccept`, after which no accept is outstanding any more.  A box
is the outbox with the writes that are outstanding: `Queue` starts one only if the
outbox was empty, `WriteDone` pops a line and starts the next.  `SetState` is
`Session::setState` on some thread, with the post that `broadcast` does; `RunBroadcast`
the posted handler.  The greeting reads the state at once and so may overtake what
is posted.  A connection is used once; a client that goes closes it, and the daemon
notices by a read or by a write.

Lines are of three kinds, for any client: `status` has a reply, `bad` (not JSON, or no known
command) an Error, `command` an Error if the handler throws and nothing otherwise.  An answer
carries the number of its line, which no handler looks at.  Commands are assumed to return;
`failed_start` is the exception.  `Stop` is the end of `io_context::run`, by a signal or
by an exception: an error text that is not UTF-8 makes `dump()` throw inside the catch
block of `onLine`, and `main` returns.  `PrintStatus` is the command line tool, which
reads up to the first status or error; the greeting is always before both.

`Feed` is the promise: one log, and every client present is sent a run of it
from a place of its own, in order, without a gap; who stays and reads gets all.  In
the mapping (end of `IpcServer`) `seen` is what reached the client's socket, answers
and greetings taken out.

### Protocol

JSON values as records with their type; `Serialize` and `Parse` are the functions of
`protocol.cpp` and `state.cpp`.  `Say` writes a line, `Vary` makes of it one that another version
might write: a member left out, of another type, or added.  The result of a parser
that throws is `None`.

### Plugin

`onDaemonState`, `onDaemonTranscript`, the dispatchers and the Indicator, over a connection
that breaks and daemons that restart; of SocketClient it keeps that events are
whole and in order, that the next connection is greeted, and that the greeting is
lost behind a cut line (`synced` is false then).  Any key may be pressed at any time, before
the snapshot of a reconnect too; `calmKey` and `calm` are the histories of System, here over
daemons that die.
The border option is read whenever it is needed and may have either value.

### Wtype

`WtypeInjector::inject`: the worker between `pipe` and `waitpid`, the child from `fork`
over `exec` to its end, a pipe with room for `Capacity`, and signals that cut a write
short or interrupt the wait.  Texts are lengths.  `ignored` says whether SIGPIPE is
ignored, which the code leaves to whoever starts the daemon.

### Definitions marked "Faulty:"

Next to some actions stands a variant that is no part of any specification: the
action as it would be with a plausible mistake in the code.  Put in the place of
the real one, it makes TLC report the property named here.

| Faulty definition | The mistake | Property that catches it |
|---|---|---|
| Session `CancelFinalizationAtOnce` | cancel during the drain goes Idle and cancels the engine at once | `EngineExclusive` |
| `StreamingErrorMicOpen` | a path that forgets the microphone | `MicOnlyWhileRecording` |
| `CompleteTranscriptionAnyway` | the cancel mark is not looked at | `RefinesDictation` |
| `CompleteTranscriptionLate` | window and ownership read after `setState` cleared them | `DeliveredOnce` |
| `JoinFinishNoJoin` | the destructor does not wait for the finish worker | `QuietAfterDestruction` |
| `CancelDoneNoJoin` | cancel does not wait for the poll worker | `PartialInsideSession` |
| `FinishDroppedStuck` | a dropped result leaves the session in Cancelled | `KeepsDictationFair`, `ComesToRest` |
| `CancelEngineNoStop` | the poll worker is joined but not told to stop | `CommandReturns` |
| SocketClient `OnRetryTimerUncapped` | no cap on the delay | `ConnectedOrRetrying` |
| `HandleDisconnectForGood` | no retry after a disconnect | `Reconnects` |
| `OnReadableForgetsRest` | the rest of a line is not kept | `EventsInOrder` |
| Injector `WatchFailsLeaves` | a child that cannot be watched is left running | `OneWatchedInjection` |
| `FinishInjectKeepsFocus` | the focus is not given back | `FocusGivenBack` |
| `LaunchUnfocused` | the focus is not moved before wtype | `TypedIntoTargetIfStill` |
| `GateReleaseWins` | a release after the deadline counts | `StartsWithInputReleased` |
| `GateInputFirst` | the deadline is looked at after the input | `BusyEnds` |
| System `CaptureKeepsLast` | no focused window keeps the last target | `OwnTarget` |
| `OnDaemonStateForgets` | Idle clears the target | `NoTextLost` |
| IpcServer `OnLineAhead` | an answer goes ahead of what waits to be written | `AnsweredInOrder` |
| `AcceptSilent` | no greeting | `MirrorConverges` |
| `WriteDoneUnpopped` | a written line stays in the outbox | `RefinesFeed` |
| `RunBroadcastWaits` | a broadcast waits for a client that does not read | `KeepsFeedFair` |
| `ReadEndsKept` | a connection that ended stays on the list | `GoneIsDropped` |
| Engine `FinishNoJoin` | finish does not join the poll worker | `StreamsInUseAreOpen` |
| `OpenKeepsStale`, `OpenKeepsError`, `OpenKeepsPartial` | start leaves the old stream, error or partial | `NoStreamLeaks`, `ErrorsOfOwnRecording`, `PartialsCurrent` |
| `FinishUnchecked` | the audio error is not looked at | `DamagedIsNotDelivered` |
| `MicLockClears` | the callback is cleared before the stream is gone | `CallbackIsWhole` |
| `PollWakesDeaf` | the stop request is not looked at when a wait ends | `CallsReturn` |
| Plugin `OnDaemonStateReturns` | Error and Cancelled return before the border | `BorderOnlyWhileRecording` |
| `ConnectIgnoresStatus` | the greeting is not handled | `MirrorInStep` |
| `CaptureKeepsLast` | no focused window keeps the last target | `OwnTarget` |
| `StopRecordingAtTarget` | the border is given back to the present target | `BorderGivenBack` |
| Protocol `SerializeEventNoFinal` | `final` is left out when false | `RoundTrip` |
| `ReadWindowStrict` | a window without a title is none | `VersionsGetOn` |
| Wtype `CloseWriteShort` | a short write is taken for the whole | `TrueMeansTyped` |
| `ForkFailsOpen` | the pipe stays open | `NothingLeft` |
| `ExecKeepsPipe` | the child keeps both ends | `InjectEnds` |

## 3. What TLC checks

| Run (cfg) | Question | Bounds | Distinct states |
|---|---|---|---|
| `session_safety` (`MCSessionSafety`) | Is the Session safe under every interleaving, failing microphones, cancels and shutdown included? | `MaxGen` 4, two windows (symmetric), one partial per recording | 1,140,000 |
| `session_refinement` (`MCSessionLive`) | Does it implement Dictation, progress included, and does every command return? | `MaxGen` 3, one window, no audio failure | 20,600 |
| `system` (`MCSystem`) | Does an undisturbed text go once, to the window its recording began in, and does the system come back to a rest, or to a recording the user may stop, whatever is pressed? | three keys and a CLI command in any order, one window, `MaxGen` 5 | 435,000 |
| `socket_client` (`MCSocketClient`) | Is the client connected or retrying, and are lines whole and in order? | three connections, three events each, the real delays | 166,500 |
| `injector` (`MCInjector`) | One injection, input released, focus given back, always an end? | two texts, three windows, deadline of two ticks | 14,200 |
| `ipc_server_safety` (`MCIpcServerSafety`) | Does each client get its own answers in the order of its lines, and the present state, whoever comes and goes? | a subscriber that need not read and a tool, two events, two lines | 2,350,000 |
| `ipc_server_live` (`MCIpcServerLive`) | Does each client that reads get all events, in order, although another does not read? | two subscribers, one of which reads, two events, one line | 387,000 |
| `engine` (`MCEngine`) | Do streams, errors, partials and callbacks stay with their recording? | two recordings, two texts | 36,200 |
| `plugin` (`MCPlugin`) | Do mirror, target and border catch up with a daemon that dies and restarts? | two windows, two recordings, two keys, one restart | 1,030,000 |
| `protocol` (`MCProtocol`) | Does parsing invert serializing, and are other versions understood? | three texts, every message, one difference | 993 |
| `wtype` (`MCWtype`) | Does true mean typed, and does the call end with nothing left? | texts to 3, a pipe of 2, two calls, one signal | 2,830 |
| `failed_start` (`MCSessionFailedStart`) | Is a start that fails answered? (section 5) | one recording | a counterexample |

Why the bounds are enough.  *Session*: `MaxGen` bounds `m_generation`, and
`BeginRecording` needs room for one more number, because `cancel` bumps it
without asking.  Four allows three recordings that end by stop, or a
cancelled one and one more.  A recording can meet only the worker of the one
before it (`StartFinalization` joins it), so three are enough to see a chain; the
proofs lift the bound for safety.  One partial tells "announced" from "not
announced".  *System*: three keys and a command make a recording whose text is on its
way and another that begins under it, from the plugin or from the command line; one
window, and none in focus, are two targets.  Every part of the condition `calm` was
dropped in turn, and TLC finds the text that goes astray, so none of the cases is out of the
run's reach; a run with two windows and four keys (12.6 million states) was made once and
passes.  The assumption `MaxGen > MaxDispatches + MaxCliCalls`
keeps the bound on generations from ever holding up a command.  *SocketClient*:
the only state that survives a disconnect is the buffer, the backoff and the
timer; a third connection meets what two greetings cut one after the other have left in
the buffer.  All eight delays are reached, since refused attempts are not counted.  *Injector*: a text in hand and
one that comes too early or right after; two ticks put a release before, at and
after the deadline; three windows are target, origin and another.  *IpcServer*: clients
meet only in the list and in the posts, so a second one shows all that others can do
to a first, above all by not reading; two events are an older and a newer one, around a
greeting; two lines, of which one may be answered with a reply and the other with an error,
are the least that can be answered out of order.  *Engine*: a
recording meets what the one before it left, and `start` leaves nothing of it.
*Plugin*: one recording that dies with its daemon and one after the restart; a run with three
keys (2.4 million states) was made once and passes.
*Wtype*: a text shorter than, as long as and longer than the pipe, cut by a signal at
every place, and a call after it.

`CHECK_DEADLOCK FALSE` stands in two configurations, both with a microphone that
may fail to open: there the daemon really stops (see `failed_start`).  In all
others deadlock is checked; `Terminated`, `Rest`, `Gone` and `Exited` are the loops
of a system that has nothing left to do.

`OwnTarget` and `NoTextLost` are about the recordings in `calm` (see System), and users are
free.  A run that drives nothing but calm recordings would say less: here a disturbed
recording and its leftovers (a target, an Error still unread, a text of the command line's)
come before and after a calm one, and must not harm it.  A toggle that was decided on a mirror
that is behind has no promise but `ComesToRest`.

The type invariants, and of Session `MicClosedBeforeTeardown`, `FinishNeverStale`,
`CancelledIsSilent` and `RightWindow`, stand in no configuration: section 4 has them
for every instance.  What the last three say of a recording's outcome is in
`DeliveredOnce` and `RefinesDictation` as well.

### Fairness

*Session*: weak fairness for each thread: one that can take its next step
eventually does.  For a step that takes `m_mutex` this means a thread is not kept
out for ever while the lock is again and again free; the poll worker, the only
thread that takes the lock in a loop, waits for an update interval in between.
The engine's calls and wtype are assumed to return.  Commands have no fairness:
users owe nothing.  *System*: the same, and messages are delivered.
*SocketClient*: the event loop serves the descriptor and the timer; a connection
attempt that could succeed again and again does succeed in the end (strong
fairness on `OnRetryTimer` with that result, because weak fairness would let every
single attempt be refused).  *Injector*: timers fire, `launchInject` returns, wtype ends, its end is
noticed; nothing is assumed of the user's keys, and the deadline ends the wait.  *IpcServer*: the IO thread
serves every handler that is ready; a write completes if its client reads (`Readers`),
and nothing is assumed of the others.  *Engine*: weak fairness for each thread; strong
fairness for the poll worker taking `m_mutex`, which the owner holds only inside a command,
so that a user who types commands for ever cannot keep the worker out.  *Plugin*: the
event loop serves the descriptor and the retry timer; the daemon owes nothing.
*Wtype*: the worker and the child run; neither a signal nor the child's death has to come.

## 4. What is proved

`SessionProofs` proves, for every set of windows, every bound on generations and
on partials and with failing microphones, from `SessionAssumption` only:

| Theorem | Property |
|---|---|
| `Invariant` | `IInv`, the inductive invariant |
| `TypeCorrect` | `TypeOK` |
| `NeverStale` | `FinishNeverStale`: a worker about to settle finds its recording current |
| `MicTruthful` | `MicOnlyWhileRecording` |
| `OneEngineUser` | `EngineExclusive` |
| `MicClosed` | `MicClosedBeforeTeardown` |
| `WindowKept` | `RightWindow` |
| `Delivered` | `DeliveredOnce` |
| `Silent` | `CancelledIsSilent` |
| `QuietAfterwards` | `QuietAfterDestruction` |
| `PartialsInside` | `PartialInsideSession`, an action property |

The argument.  None of these is inductive: whether a worker may settle a
recording depends on where the IO thread and the other workers can be at that
time.  `IInv` says this in parts.  `MutexInv`: who holds the lock.  `PhaseInv`:
which announced state goes with which place of the IO thread.  `CaptureInv`: the
microphone.  `FinishInv`, the heart: only the current recording has a worker that
has not passed the lock, such a worker exists exactly while the state is
Transcribing or Cancelled by a late cancel, and `m_finishWorker` holds every
worker that still runs, so that the joins are enough.  `FateInv`, `OwnerInv`,
`DeliveryInv`: the histories agree with that.  `PollInv`: a poll worker that may
still announce belongs to a session that is open, to a drain that will join it, or
to a cancel that will.  `BoundInv` is about the model's own bound: a running
recording leaves room for the bump of a cancel.

`TypeStep` proves the types; `CommandStep`, `IOStepInv`, `PollStepInv` and
`FinishStepInv` prove the other parts for the four groups of actions, one step
per action; `IInvStep` puts them together, and the theorems draw the properties
from `IInv` state by state.

It proves from it, under the same assumption, that Session implements the safety part
of Dictation:

| Theorem | Property |
|---|---|
| `Refinement` | `RefinesDictation` |

`ActiveInv` says that only the recording `m_generation` names can be listening or
settling, `LastInv` that the latest recording is well defined, so that the mapping's
`CHOOSE` picks it.  There is one lemma for each action of Dictation (`BeginSim`, `StopSim`,
`CancelSim`, `EndSim`, `DiscardedSim`, `AnnounceSim`, `TypeSim`) and `StutterSim` for
the steps no client sees; `StepSim` goes over the actions of Session.

On top of both stand two theorems about System:

| Theorem | Property |
|---|---|
| `SystemOwnTarget` | `OwnTarget` |
| `TextsKept` | `NoTextLost` |

They hold for every set of windows, any number of keys and commands in any order, however
far the daemon and the plugin lag behind each other, with engines and microphones that
fail; their only assumptions are `SessionAssumption` and `SystemAssumption`.  What they
promise they promise to the recordings in `calm`; for the others it is false (section 5).
`SysInv` adds to the invariant of the Session (`SInv`) what is on the wires (`WireInv`) and
`PlanInv`, in four parts.  `KeyInv`: from a calm start key until its command has begun a
recording nothing is pending, and the target is the window the command carries.  `CalmInv`:
while a calm recording may have a text, no other may, the target is its window, and
nothing is on its way that takes the target away; an Error or Cancelled is not announced before a
text that will still come.  `HistoryInv` and `KeptInv` follow the texts from the worker over the
events to the injector.  The lemma `News` reads off what a step of the Session announces;
`GoesKeeps`, `AcceptsKeeps`, `EmitsKeeps` and `BeginKeeps` are the four ways it changes what
may still come, and `DaemonStepIs` and `HandleIs` put every step into one of them.  `EventKeeps`
and `DispatchKeeps` are the plugin's handlers and the users' keys.

`InjectorProofs` proves, for every set of windows, every deadline and any number of
texts, from `InjectorAssumption`:

| Theorem | Property |
|---|---|
| `Invariant` | `IInv`, the inductive invariant |
| `TypeCorrect` | `TypeOK`, with the focus on a window that exists |
| `OneAtATime` | `OneWatchedInjection` |
| `FocusReturned` | `FocusGivenBack` |
| `TypedIntoTarget` | `TypedIntoTargetIfStill` |
| `InputReleased` | `StartsWithInputReleased`, an action property |

Here the heart is `FocusInv`: while wtype runs and nobody has moved the focus, the
focus is the target, and what `restoreFocus` would do now is what the user wants,
whichever windows have closed meanwhile.  `ChildInv` says that there is a child exactly while
it is launched or watched, and that no text waits then.  `WaitInv` says that a waiting text is the
one in hand and untouched, so that the launch starts from a clean slate.

The other proof modules, each for all values of its module's constants and from
its one assumption on them:

| Module | Theorem | Property |
|---|---|---|
| `EngineProofs` | `Invariant`, `TypeCorrect` | `IInv`, `TypeOK` |
| | `NoUseAfterFree` | `StreamsInUseAreOpen` |
| | `CallbacksWhole` | `CallbackIsWhole` |
| | `DamageIsTold` | `DamagedIsNotDelivered` |
| | `NoLeak` | `NoStreamLeaks` |
| | `ErrorsAreOwn` | `ErrorsOfOwnRecording` |
| | `PartialsShown` | `PartialsCurrent` |
| `WtypeProofs` | `Invariant`, `TypeCorrect` | `IInv`, `TypeOK` |
| | `LeavesNothing` | `NothingLeft` |
| | `TrueIsTyped` | `TrueMeansTyped` |
| `SocketClientProofs` | `TypeCorrect` | `TypeOK` (of all but the buffer and what was dispatched) |
| | `NeverLost` | `ConnectedOrRetrying` |
| | `InOrder` | `EventsInOrder` |
| `IpcServerProofs` | `EachAnswered` | `AnsweredInOrder` |
| | `MirrorsAgree` | `MirrorConverges` |
| | `ImplementsFeed` | `RefinesFeed` |
| `PluginProofs` | `TypeCorrect` | `TypeOK` |
| | `BordersKept` | `BorderOnlyWhileRecording` |
| | `MirrorFollows` | `MirrorInStep` |
| | `TextsToTheirOwn` | `OwnTarget` |
| `ProtocolProofs` | `Heard` | parsing inverts serializing, for each message |
| | `RoundTrips` | `RoundTrip` |
| | `Understood` | `VersionsGetOn` |

*Engine*.  `MicInv` says that the microphone is open only up to the step that closes
it, whoever does, and that whoever tears it down has the loop lock; `StreamInv`
that the one open stream is what `m_stream` names and what is in use; `DamageInv` that the
damage of a live stream is in `m_audioError`.  None of them mentions `m_mutex`: the argument
holds for `~Session`, which does not take it.  Who tells an error, and what a partial is
compared with, does rest on the lock: `LockInv` says who has it at which place, `ErrorInv`
that an error somebody holds is of the open stream and that nothing was told of a recording
before its end, `PartialInv` that `m_lastPartial` is what was pulled last of this recording.

*SocketClient*.  `NeverLost` needs only that a delay is never mistaken for no timer.  For
`InOrder`, `SInv` counts the pieces p that were read: `Stream` says that the wire holds
what the daemon wrote after them, `At` where p stands, between two events, with all of them
dispatched and an empty buffer, or inside one, with its beginning at the end of the buffer.
Only the first line of a connection, its greeting, can be behind a rest that an earlier one
left, and only that one can be lost.  `SplitAppend` says that a read in two parts is a read
in one, which is why the cuts do not matter.

*IpcServer*.  `TInv` has the types; `LogInv` says that what is posted is the end of what was
announced.  For each client `Order` looks at what it got and what is in its outbox together
(`Sent`): `Tells`, the broadcasts in it are a run of the log that the posts continue;
`Answers`, the answers carry the numbers of lines taken, in increasing order, each of the kind
its line asks for, and only a command that did not fail has none; `Knows`, the last state in it
is the present one if none is posted.  The mapping to `Feed` reads `seen` off the first
part of `Sent`, so that each handler is a
step of Feed for one client (`FeedSubscribe`, `FeedSee`, `FeedLeaves`) and a stutter for
the others (`FeedOthers`).

*Plugin*.  A border that is coloured is the remembered window's own.  For the mirror,
`MInv` looks at what is on its way: the last state among the events is the daemon's, or
there is none and the mirror agrees already, unless the greeting was swallowed.  For the
target, `OInv` has `KeyInv` and `CalmInv` as in System: the recording a calm key asks for will
find its window the target and nothing before it, and while its text can come, no other can.
`Line` says that no text is announced twice or before its recording is over, `Past` that what
was recorded is of recordings that began, and `Linked` that no command outlives its
connection, so that a recording whose daemon died is out of reach.

*Wtype*.  `WorkerInv` and `ChildInv` say who holds which end of the pipe, `TextInv` that a
child that ended well saw the end of its input.  *Protocol* goes over the messages, and for
the other versions over the differences (`Varied`), by kind; the texts are any set.

The recursive functions `Only` and `Split` are the two definitions whose meaning needs
induction.  The library's induction rules take an operator as a parameter, which the
provers here cannot instantiate; the proofs use instead that a non-empty set of naturals
has a least element (`NatMin`): of the places where a claim fails the first one is taken,
and the claim holds just before it.  `FilterExists`, `FilterUnique` and `FoldExists`,
`FoldUnique` show in that way that the function is there and is the only one.

Only model-checked: everything under fairness (`KeepsDictationFair`,
`CommandReturns`, `Reconnects`, `BusyEnds`, `ComesToRest`, `KeepsFeedFair`, `GoneIsDropped`,
`CallsReturn`, `BorderGivenBack`, `InjectEnds`), which is out of the prover's reach.

## 5. Where code and documentation part

* **A failing start can hang the daemon** (`failed_start`).  The catch block of
  `beginRecording` cancels the engine with `m_mutex` held; cancel joins the poll
  worker; a poll worker whose first pull failed waits for `m_mutex` in
  `emitStreamingError`.

Read in the code while modelling it, and not given a run of their own:

* **A slow wtype does block the IPC loop.**  Stopping the next recording joins the
  worker that still types, on the IO thread, lock held (`session.cpp:173`); the comment at
  `daemon/src/main.cpp:150-152` says it does not.
* **The greeting can be lost.**  `handleDisconnect` keeps `m_readbuf`; the beginning of a
  line the daemon died in is glued to the status snapshot of the next connection.
  The plugin's mirror then stays old until the next event (`synced` in Plugin).  Nor do
  the dispatchers wait for the snapshot, as the comment at `socket_client.cpp:226-229` has it.
* **A hurried start key redirects the previous text.**  `captureFocusedWindow` runs
  before the daemon has taken the command.  On an empty workspace the target is
  cleared and the text is not injected (`dispatcher.cpp:102`).  Keys do so in the models too;
  `OwnTarget` and `NoTextLost` are about recordings that nobody disturbed.
* **A left-over target makes two injections.**  The plugin injects every final
  transcript it has a target for; after a recording without text, or with a daemon
  that died, the target is still there when the CLI's recording ends, whose text the
  daemon types too (`plugin/src/main.cpp:97`).
* **A forwarded toggle is not always dropped.**  When it arrives the daemon may be
  Idle, and starts a recording nobody's window goes with (`dispatcher.cpp:94`).  All that is
  promised of it is that the system comes to rest.
* **A failed accept is the last one.**  `doAccept` logs the error and returns without
  waiting for the next client: the daemon serves those it has and no others (`ipc.cpp:223-229`).
* **An error text that is not UTF-8 ends the daemon.**  `dump()` throws on it inside the catch
  block of `onLine` (`ipc.cpp:46`, `113`), out of `io_context::run`, and `main` returns 6
  (`daemon/src/main.cpp:195-198`).
* **A missing wtype may end the daemon.**  The write to its pipe raises SIGPIPE, which
  is ignored in a systemd service only; `inject.hpp` promises false on any failure.  A
  `waitpid` that a signal interrupts is not tried again, and the child stays a zombie.
* **`hyprdictate status` prints the greeting.**  It takes the first status event, which every
  connection is sent, without the model path the reply would have (`cli/src/main.cpp:111`).
* **The border stays coloured after an unload** during a recording: `PLUGIN_EXIT` destroys the
  Indicator without `stopRecording`.
* **Unsynchronised `m_onChunk`** in `~Session` against a streaming error (see Engine).
* `socket_client.hpp` documents delays of 500 ms, 1, 2, 5, 10, 30 s, the code doubles
  (500 ms to 16 s, then 30 s); `connect` resets the backoff even if the identify
  failed; the focus is moved to the target once, so a user who changes it while
  wtype types gets the rest of the text elsewhere (`TypedIntoTargetIfStill` has the
  condition).

## 6. Not modelled, and what is left

Left out for good: Config and Vocabulary (pure functions of a file or of strings
on which no property depends), logging, the text of JSON values, start-up and
options (straight-line code), the model's loading, the declaration of the plugin's
options, its events on Hyprland's socket2 (written, never read back), the Lua wrappers of the
dispatchers, build and packaging.

What may still be added: System over a connection that breaks, with SocketClient's
handlers in place of the whole events that Plugin assumes.
