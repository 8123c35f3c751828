------------------------------- MODULE System -------------------------------
(***************************************************************************)
(* The daemon's Session together with its two kinds of clients: the        *)
(* Hyprland plugin, which keeps a mirror of the daemon's state and the      *)
(* window a recording is meant for, and the command line, which keeps       *)
(* nothing.  The plugin is connected throughout (SocketClient is about the  *)
(* connection); commands and events travel in order, one queue each way.    *)
(*                                                                         *)
(* A step of the Session announces what it changes: its state, or a final   *)
(* transcript.  Partial transcripts and errors change nothing the plugin    *)
(* decides on and do not travel here.  Users press any key at any time; the *)
(* history variables calmKey and calm single out the recordings that nobody *)
(* disturbed, and no action depends on them.  Definitions marked "Faulty:"  *)
(* are no part of the model; see README.md.                                 *)
(***************************************************************************)
EXTENDS Session, Sequences

CONSTANTS
    MaxDispatches,  \* bound on the keybinds pressed
    MaxCliCalls     \* bound on the commands from the command line

\* The bound on m_generation is never what keeps a command waiting.
ASSUME SystemAssumption ==
    /\ MaxDispatches \in Nat /\ MaxCliCalls \in Nat
    /\ MaxGen > MaxDispatches + MaxCliCalls

VARIABLES
    cmds,           \* commands the plugin wrote, not yet handled
    events,         \* events the daemon announced, not yet handled
    mirror,         \* g_plugin.daemonState
    targetWindow,   \* g_plugin.targetWindow
    injected,       \* history: <<recording, window>> given to the injector
    calmKey,        \* history: nothing disturbed the latest start key,
    calm,           \*          the recordings nothing disturbed
    dispatches, cliCalls   \* used up of the two bounds

channels   == <<cmds, events>>
plugin     == <<mirror, targetWindow, injected>>
calmness   == <<calmKey, calm>>
users      == <<calmness, dispatches, cliCalls>>
systemVars == <<vars, channels, plugin, users>>

StateChanged(s) == [event |-> "state", value |-> s]
Final(g)        == [event |-> "final", value |-> g]

SystemInit ==
    /\ Init
    /\ cmds = <<>> /\ events = <<>>
    /\ mirror = "Idle" /\ targetWindow = NoWindow /\ injected = {}
    /\ calmKey = FALSE /\ calm = {} /\ dispatches = 0 /\ cliCalls = 0

-----------------------------------------------------------------------------
(* Who is disturbed (history).                                             *)

Says(s) == \E n \in 1 .. Len(events) :
               events[n].event = "state" /\ events[n].value = s
Posted(g) == \E n \in 1 .. Len(events) :
                 events[n].event = "final" /\ events[n].value = g

\* Recording g is under way, or its text is on its way to the plugin.
Active(g)   == fate[g] \in {"recording", "draining"}
Emitting(g) == fin[g].pc = "emit"
Pending(g)  == Active(g) \/ Emitting(g) \/ Posted(g)

\* Whatever was begun before is over, and nothing about it is still to come.
Over ==
    /\ \A g \in Gens : ~Pending(g)
    /\ \A n \in 1 .. Len(cmds) : cmds[n].cmd # "start"
    /\ ~Says("Error") /\ ~Says("Cancelled")

Undisturbed == {g \in calm : ~Pending(g)}

\* A recording that begins disturbs what is under way; it is calm itself if a
\* calm start key asked for it.
Disturb(asked) ==
    IF io' = "startEngine"
    THEN /\ calmKey' = FALSE
         /\ calm' = Undisturbed \union (IF asked THEN {generation'} ELSE {})
    ELSE UNCHANGED calmness

-----------------------------------------------------------------------------
(* The daemon.                                                             *)

\* setState and completeTranscription call the emitter, which reaches every
\* connection in the order of the calls.
Announce ==
    events' = events
        \o (IF state' # state THEN <<StateChanged(state')>> ELSE <<>>)
        \o (IF finals' # finals
            THEN <<Final(CHOOSE g \in Gens : finals'[g] # finals[g])>>
            ELSE <<>>)

\* Session::handle on the IO thread; a command out of season is ignored.
Handle(c) ==
    /\ io = "ready" /\ mutex = "free"
    /\ \/ c.cmd \in {"start", "toggle"} /\ BeginRecording(c.win)
       \/ c.cmd \in {"stop", "toggle"} /\ StartFinalization
       \/ c.cmd = "cancel" /\ (CancelRecording \/ CancelFinalization)
       \/ /\ \/ c.cmd = "start" /\ state # "Idle"
             \/ c.cmd = "stop" /\ state # "Recording"
             \/ c.cmd = "toggle" /\ state \notin {"Idle", "Recording"}
             \/ c.cmd = "cancel" /\ state \notin {"Recording", "Transcribing"}
          /\ UNCHANGED vars

DaemonStep ==
    /\ IOStep \/ PollStep \/ \E g \in Gens : FinishStep(g)
    /\ Announce
    /\ UNCHANGED <<cmds, plugin, users>>

ReceiveCommand ==
    /\ cmds # <<>>
    /\ Handle(Head(cmds))
    /\ cmds' = Tail(cmds)
    /\ Announce
    /\ Disturb(calmKey /\ Head(cmds).cmd = "start")
    /\ UNCHANGED <<plugin, dispatches, cliCalls>>

\* hyprdictate toggle, ptt_down, ptt_up or cancel: a connection of its own, and
\* no window.
CliCommand ==
    /\ cliCalls < MaxCliCalls
    /\ \E c \in {"toggle", "start", "stop", "cancel"} :
          Handle([cmd |-> c, win |-> NoWindow])
    /\ cliCalls' = cliCalls + 1
    /\ Announce
    /\ Disturb(FALSE)
    /\ UNCHANGED <<cmds, plugin, dispatches>>

-----------------------------------------------------------------------------
(* The plugin's callbacks.                                                 *)

\* Faulty: every state but Recording forgets the target.
OnDaemonStateForgets(s) ==
    /\ mirror' = s
    /\ targetWindow' = IF s = "Recording" THEN targetWindow ELSE NoWindow
    /\ UNCHANGED injected

\* onDaemonState keeps the target on Idle, which precedes the transcript.
OnDaemonState(s) ==
    /\ mirror' = s
    /\ targetWindow' = IF s \in {"Error", "Cancelled"} THEN NoWindow
                       ELSE targetWindow
    /\ UNCHANGED injected

\* onDaemonTranscript: without a target startInject rejects the text.
OnFinalTranscript(g) ==
    /\ injected' = IF targetWindow = NoWindow THEN injected
                   ELSE injected \union {<<g, targetWindow>>}
    /\ targetWindow' = NoWindow
    /\ UNCHANGED mirror

ReceiveEvent ==
    /\ events # <<>>
    /\ LET e == Head(events)
       IN  IF e.event = "state" THEN OnDaemonState(e.value)
           ELSE OnFinalTranscript(e.value)
    /\ events' = Tail(events)
    /\ UNCHANGED <<vars, cmds, users>>

-----------------------------------------------------------------------------
(* The plugin's dispatchers.                                               *)

Send(c, w) == cmds' = Append(cmds, [cmd |-> c, win |-> w])

\* Nothing is under way: no command, no event, no thread.
Quiet ==
    /\ cmds = <<>> /\ events = <<>>
    /\ io = "ready" /\ PollJoined /\ \A g \in Gens : fin[g].pc \in {"none", "done"}

\* Faulty: without a focused window the last target is kept.
CaptureKeepsLast(w) ==
    /\ targetWindow' = IF w = NoWindow THEN targetWindow ELSE w
    /\ Send("start", w)
    /\ calmKey' = Over /\ calm' = Undisturbed

\* captureFocusedWindow and start or ptt_down; w is the focused window.
Capture(w) ==
    /\ targetWindow' = w
    /\ Send("start", w)
    /\ calmKey' = Over /\ calm' = Undisturbed

\* dispatchToggle maps the key onto start, stop, or a bare toggle.
DispatchToggle(w) ==
    \/ mirror = "Idle" /\ Capture(w)
    \/ /\ mirror = "Recording" /\ Send("stop", NoWindow)
       /\ UNCHANGED <<targetWindow, calmness>>
    \/ /\ mirror \notin {"Idle", "Recording"}
       /\ Send("toggle", NoWindow)
       /\ UNCHANGED <<targetWindow, calmness>>

DispatchPttDown(w) == Capture(w)

DispatchPttUp ==
    /\ Send("stop", NoWindow)
    /\ UNCHANGED <<targetWindow, calmness>>

DispatchCancel ==
    /\ targetWindow' = NoWindow
    /\ Send("cancel", NoWindow)
    /\ calmKey' = FALSE /\ calm' = Undisturbed

Dispatch ==
    /\ dispatches < MaxDispatches
    /\ dispatches' = dispatches + 1
    /\ \/ \E w \in Windows \union {NoWindow} :
              DispatchToggle(w) \/ DispatchPttDown(w)
       \/ DispatchPttUp
       \/ DispatchCancel
    /\ UNCHANGED <<vars, events, mirror, injected, cliCalls>>

-----------------------------------------------------------------------------
\* Nobody says anything any more.
Rest == Quiet /\ dispatches = MaxDispatches /\ UNCHANGED systemVars

SystemNext ==
    \/ DaemonStep \/ ReceiveCommand \/ CliCommand
    \/ ReceiveEvent \/ Dispatch \/ Rest

SystemFairness ==
    /\ WF_systemVars(IOStep /\ DaemonStep)
    /\ WF_systemVars(PollStep /\ DaemonStep)
    /\ \A g \in Gens : WF_systemVars(FinishStep(g) /\ DaemonStep)
    /\ WF_systemVars(ReceiveCommand)
    /\ WF_systemVars(ReceiveEvent)

SystemSpec == SystemInit /\ [][SystemNext]_systemVars
SystemFairSpec == SystemSpec /\ SystemFairness

-----------------------------------------------------------------------------
(* Properties.                                                             *)

(* README: the final text is injected into the original target window.     *)
(* The text of a recording whose start key was pressed when all before it   *)
(* was over goes to no window but the one captured then, unless start or     *)
(* cancel is pressed, or anyone begins another recording, before it has      *)
(* come.                                                                    *)
OwnTarget == \A i \in injected : i[1] \in calm => i[2] = given[i[1]]

(* README: stopping injects the final text.  Under the same condition a     *)
(* text is on its way to the plugin until it has been given to the injector. *)
NoTextLost ==
    \A g \in calm :
        fate[g] = "delivered" /\ given[g] # NoWindow =>
            Pending(g) \/ \E i \in injected : i[1] = g

(* Whatever keys are pressed in whatever order, the system comes back to   *)
(* an idle rest that the plugin knows of, or to a recording that the user  *)
(* may stop.                                                               *)
ComesToRest ==
    []<>(\/ Quiet /\ state = "Idle" /\ mirror = "Idle"
         \/ state = "Recording")
=============================================================================
