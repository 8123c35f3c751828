------------------------------- MODULE Plugin -------------------------------
(***************************************************************************)
(* The Hyprland plugin across restarts of the daemon: its callbacks and     *)
(* entry points (plugin/src/main.cpp), its dispatchers (dispatcher.cpp) and *)
(* the border of the window a recording is meant for (class Indicator of    *)
(* indicator.cpp).  All run on the compositor's thread, one after another.  *)
(*                                                                         *)
(* Of the connection only this is kept (SocketClient has the rest): events  *)
(* arrive whole and in order, a daemon that dies takes unread events and     *)
(* unhandled commands with it, the next connection is greeted with the      *)
(* state, and the greeting is swallowed if the connection before ended in   *)
(* the middle of a line.  Of the daemon, the recordings it goes through and *)
(* what it announces (Session and System have the rest).  Compositor code   *)
(* that recomputes border colours by itself is left out.  Users press any    *)
(* key at any time; the history variables calmKey and calm single out the    *)
(* recordings that nobody disturbed, and no action depends on them.          *)
(* Definitions marked "Faulty:" are no part of the model; see README.md.     *)
(***************************************************************************)
EXTENDS Naturals, Sequences

CONSTANTS
    Windows, NoWindow,
    MaxRec,        \* bound on the recordings
    MaxRestarts,   \* bound on the daemon's restarts
    MaxKeys        \* bound on the keys pressed

ASSUME PluginAssumption ==
    /\ NoWindow \notin Windows
    /\ MaxRec \in Nat /\ MaxRestarts \in Nat /\ MaxKeys \in Nat

Recs == 1 .. MaxRec
Maybe == Windows \union {NoWindow}
States == {"Idle", "Recording", "Transcribing", "Error", "Cancelled"}

VARIABLES
    alive, state, rec,   \* the daemon runs; its state; its latest recording
    link,          \* the connection: down, up, or broken (not yet noticed)
    cmds, events,  \* on their way
    cutLine,       \* SocketClient::m_readbuf has the beginning of a line
    loaded,        \* between PLUGIN_INIT and PLUGIN_EXIT: yes
    mirror, targetWindow,    \* g_plugin.daemonState, g_plugin.targetWindow
    m_saved, m_target, m_savedBorder,    \* the Indicator
    open, border,  \* the compositor's windows, and the colour of each
    given, injected, synced,
        \* history: the window of each recording's start command, <<recording,
        \* target>> startInject was called with, no greeting is missing
    calmKey, calm,   \* history: nothing disturbed the latest start key, and
                     \* the recordings nothing disturbed
    restarts, keys   \* used up of the bounds

daemon    == <<alive, state, rec, given>>
wires     == <<link, cmds, events, cutLine>>
indicator == <<m_saved, m_target, m_savedBorder>>
globals   == <<loaded, mirror, targetWindow, indicator, injected, synced>>
desktop   == <<open, border>>
calmness  == <<calmKey, calm>>
users     == <<calmness, keys>>
vars      == <<daemon, wires, globals, desktop, restarts, users>>

StateChanged(s) == [event |-> "state", value |-> s]
Final(r)        == [event |-> "final", value |-> r]

Commands == [cmd : {"start", "stop", "toggle", "cancel"}, win : Maybe]
Events   == [event : {"state"}, value : States] \union
            [event : {"final"}, value : Recs]

TypeOK ==
    /\ alive \in BOOLEAN /\ state \in States /\ rec \in 0 .. MaxRec
    /\ link \in {"down", "up", "broken"}
    /\ cmds \in Seq(Commands) /\ events \in Seq(Events)
    /\ cutLine \in BOOLEAN
    /\ loaded \in {"no", "yes", "unloaded"}
    /\ mirror \in States /\ targetWindow \in Maybe
    /\ m_saved \in BOOLEAN /\ m_target \in Maybe
    /\ m_savedBorder \in {"none", "own"}
    /\ open \subseteq Windows
    /\ border \in [Windows -> {"none", "own", "recording"}]
    /\ given \in [Recs -> Maybe]
    /\ injected \subseteq Recs \X Maybe
    /\ synced \in BOOLEAN
    /\ calmKey \in BOOLEAN /\ calm \subseteq Recs
    /\ restarts \in 0 .. MaxRestarts /\ keys \in 0 .. MaxKeys

Init ==
    /\ alive \in BOOLEAN /\ state = "Idle" /\ rec = 0
    /\ link = "down" /\ cmds = <<>> /\ events = <<>> /\ cutLine = FALSE
    /\ loaded = "no" /\ mirror = "Idle" /\ targetWindow = NoWindow
    /\ m_saved = FALSE /\ m_target = NoWindow /\ m_savedBorder = "none"
    /\ open = Windows /\ border = [w \in Windows |-> "own"]
    /\ given = [r \in Recs |-> NoWindow] /\ injected = {} /\ synced = TRUE
    /\ calmKey = FALSE /\ calm = {}
    /\ restarts = 0 /\ keys = 0

-----------------------------------------------------------------------------
(* Who is disturbed (history).                                             *)

OnItsWay(e) == \E n \in 1 .. Len(events) : events[n] = e

\* Recording r is under way, or its text is on its way to the plugin.
Active     == state \in {"Recording", "Transcribing"}
Pending(r) == (r = rec /\ Active) \/ OnItsWay(Final(r))

\* Whatever was begun before is over, and nothing about it is still to come.
Over ==
    /\ \A r \in Recs : ~Pending(r)
    /\ \A n \in 1 .. Len(cmds) : cmds[n].cmd # "start"
    /\ ~OnItsWay(StateChanged("Error")) /\ ~OnItsWay(StateChanged("Cancelled"))

Undisturbed == {r \in calm : ~Pending(r)}

\* A recording that begins disturbs what is under way; it is calm itself if a
\* calm start key asked for it.
Disturb(asked) ==
    IF rec' # rec
    THEN /\ calmKey' = FALSE
         /\ calm' = Undisturbed \union (IF asked THEN {rec'} ELSE {})
    ELSE UNCHANGED calmness

-----------------------------------------------------------------------------
(* The daemon.                                                             *)

\* What is announced reaches the plugin if it is connected.
Announce(es) == events' = IF link = "up" THEN events \o es ELSE events

Becomes(s) == state' = s /\ Announce(<<StateChanged(s)>>)

Begin(w) ==
    /\ state = "Idle" /\ rec < MaxRec
    /\ rec' = rec + 1
    /\ given' = [given EXCEPT ![rec + 1] = w]
    /\ Becomes("Recording")

Stop == state = "Recording" /\ Becomes("Transcribing") /\ UNCHANGED <<rec, given>>

\* A cancelled recording is over at once, unless it is being transcribed.
Cancel ==
    /\ \/ /\ state = "Recording" /\ state' = "Idle"
          /\ Announce(<<StateChanged("Cancelled"), StateChanged("Idle")>>)
       \/ state = "Transcribing" /\ Becomes("Cancelled")
    /\ UNCHANGED <<rec, given>>

\* A finish: the text, nothing, or a failure; or the stream fails earlier.
Settle ==
    /\ \/ /\ state = "Transcribing"
          /\ \/ Announce(<<StateChanged("Idle"), Final(rec)>>)
             \/ Announce(<<StateChanged("Idle")>>)
       \/ state = "Cancelled" /\ Announce(<<StateChanged("Idle")>>)
       \/ /\ state \in {"Recording", "Transcribing"}
          /\ Announce(<<StateChanged("Error"), StateChanged("Idle")>>)
    /\ state' = "Idle"
    /\ UNCHANGED <<rec, given>>

Handle(c) ==
    \/ c.cmd \in {"start", "toggle"} /\ Begin(c.win)
    \/ c.cmd \in {"stop", "toggle"} /\ Stop
    \/ c.cmd = "cancel" /\ Cancel
    \/ /\ \/ c.cmd = "start" /\ (state # "Idle" \/ rec = MaxRec)
          \/ c.cmd = "stop" /\ state # "Recording"
          \/ c.cmd = "toggle" /\ (state \notin {"Idle", "Recording"} \/ rec = MaxRec)
          \/ c.cmd = "cancel" /\ state \notin {"Recording", "Transcribing"}
       /\ UNCHANGED <<state, rec, given, events>>

ReceiveCommand ==
    /\ alive /\ cmds # <<>>
    /\ Handle(Head(cmds))
    /\ cmds' = Tail(cmds)
    /\ Disturb(calmKey /\ Head(cmds).cmd = "start")
    /\ UNCHANGED <<alive, link, cutLine, globals, desktop, restarts, keys>>

\* The daemon on its own, or on the command line's behalf: the plugin sees a
\* recording it did not begin.
DaemonStep ==
    /\ alive
    /\ Settle \/ Begin(NoWindow) \/ Stop
    /\ Disturb(FALSE)
    /\ UNCHANGED <<alive, link, cmds, cutLine, globals, desktop, restarts, keys>>

\* The daemon stops or dies, perhaps in the middle of a line.
DaemonDies ==
    /\ alive
    /\ alive' = FALSE /\ state' = "Idle"
    /\ link' = IF link = "up" THEN "broken" ELSE link
    /\ cmds' = <<>>
    /\ cutLine' \in (IF link = "up" THEN BOOLEAN ELSE {cutLine})
    /\ UNCHANGED <<rec, given, events, globals, desktop, restarts, users>>

DaemonRestarts ==
    /\ ~alive /\ restarts < MaxRestarts
    /\ alive' = TRUE /\ restarts' = restarts + 1
    /\ UNCHANGED <<state, rec, given, wires, globals, desktop, users>>

-----------------------------------------------------------------------------
(* The Indicator.  on is what the configuration says at that moment.       *)

StartRecording(on) ==
    IF on /\ targetWindow \in open
    THEN /\ m_saved' = TRUE /\ m_target' = targetWindow
         /\ m_savedBorder' = border[targetWindow]
         /\ border' = [border EXCEPT ![targetWindow] = "recording"]
    ELSE UNCHANGED <<indicator, border>>

\* Faulty: the border is given back to the window that is the target now.
StopRecordingAtTarget ==
    /\ border' = IF m_saved /\ targetWindow \in open
                 THEN [border EXCEPT ![targetWindow] = m_savedBorder] ELSE border
    /\ m_saved' = FALSE /\ m_target' = NoWindow /\ m_savedBorder' = "none"

\* The saved state is cleared whether or not the window is still there.
StopRecording ==
    /\ border' = IF m_saved /\ m_target \in open
                 THEN [border EXCEPT ![m_target] = m_savedBorder] ELSE border
    /\ m_saved' = FALSE /\ m_target' = NoWindow /\ m_savedBorder' = "none"

-----------------------------------------------------------------------------
(* The callbacks.                                                          *)

\* Faulty: Error and Cancelled return before the border is looked after.
OnDaemonStateReturns(s) ==
    /\ mirror' = s
    /\ \/ mirror # "Recording" /\ s = "Recording" /\ \E on \in BOOLEAN : StartRecording(on)
       \/ mirror = "Recording" /\ s \in {"Idle", "Transcribing"} /\ StopRecording
       \/ /\ (mirror = "Recording") = (s = "Recording") \/ s \in {"Error", "Cancelled"}
          /\ UNCHANGED <<indicator, border>>
    /\ targetWindow' = IF s \in {"Error", "Cancelled"} THEN NoWindow
                       ELSE targetWindow
    /\ UNCHANGED injected

\* onDaemonState acts on the edges of Recording.  Idle keeps the target.
OnDaemonState(s) ==
    /\ mirror' = s
    /\ \/ mirror # "Recording" /\ s = "Recording" /\ \E on \in BOOLEAN : StartRecording(on)
       \/ mirror = "Recording" /\ s # "Recording" /\ StopRecording
       \/ (mirror = "Recording") = (s = "Recording") /\ UNCHANGED <<indicator, border>>
    /\ targetWindow' = IF s \in {"Error", "Cancelled"} THEN NoWindow
                       ELSE targetWindow
    /\ UNCHANGED injected

\* onDaemonTranscript with final; startInject rejects a target that is gone.
OnFinalTranscript(r) ==
    /\ injected' = injected \union {<<r, targetWindow>>}
    /\ targetWindow' = NoWindow
    /\ UNCHANGED <<mirror, indicator, border>>

\* Unread events of a broken connection may still be read.
ReceiveEvent ==
    /\ loaded = "yes" /\ link # "down" /\ events # <<>>
    /\ LET e == Head(events)
       IN  IF e.event = "state" THEN OnDaemonState(e.value)
                                ELSE OnFinalTranscript(e.value)
    /\ synced' = (synced \/ Head(events).event = "state")
    /\ events' = Tail(events)
    /\ UNCHANGED <<daemon, link, cmds, cutLine, loaded, open, restarts, users>>

\* Hang-up: whatever was unread is gone.  Nothing but the connection changes.
HandleDisconnect == link' = "down" /\ events' = <<>>

OnHangup ==
    /\ loaded = "yes" /\ link = "broken"
    /\ HandleDisconnect
    /\ UNCHANGED <<daemon, cmds, cutLine, globals, desktop, restarts, users>>

\* Faulty: the snapshot is left to the command line, as it once was.
ConnectIgnoresStatus ==
    /\ alive
    /\ link' = "up" /\ cutLine' = FALSE
    /\ events' = <<>>
    /\ synced' = ~cutLine

\* The status snapshot that greets a connection is handled as a state.
Connect ==
    /\ alive
    /\ link' = "up" /\ cutLine' = FALSE
    /\ events' = IF cutLine THEN <<>> ELSE <<StateChanged(state)>>
    /\ synced' = ~cutLine

\* A retry that succeeds; one that fails changes nothing here.
Reconnect ==
    /\ loaded = "yes" /\ link = "down"
    /\ Connect
    /\ UNCHANGED <<daemon, cmds, loaded, mirror, targetWindow, indicator,
                   injected, desktop, restarts, users>>

PluginInit ==
    /\ loaded = "no" /\ loaded' = "yes"
    /\ Connect \/ UNCHANGED <<link, events, cutLine, synced>>
    /\ UNCHANGED <<daemon, cmds, mirror, targetWindow, indicator,
                   injected, desktop, restarts, users>>

\* The Indicator is destroyed, but does not stop first.
PluginExit ==
    /\ loaded = "yes" /\ loaded' = "unloaded"
    /\ HandleDisconnect
    /\ UNCHANGED <<daemon, cmds, cutLine, mirror, targetWindow, indicator,
                   injected, synced, desktop, restarts, users>>

-----------------------------------------------------------------------------
(* The dispatchers, and the user's windows.                                *)

\* sendToDaemon: without a connection, or on a broken one, nothing is sent.
Send(c, w) ==
    \/ /\ link = "up" /\ cmds' = Append(cmds, [cmd |-> c, win |-> w])
       /\ UNCHANGED <<link, events>>
    \/ link = "broken" /\ HandleDisconnect /\ UNCHANGED cmds
    \/ link = "down" /\ UNCHANGED <<link, events, cmds>>

\* Faulty: without a focused window the last target is kept.
CaptureKeepsLast(w) ==
    /\ targetWindow' = IF w = NoWindow THEN targetWindow ELSE w
    /\ Send("start", w)
    /\ calmKey' = Over /\ calm' = Undisturbed

\* captureFocusedWindow comes before the connection is looked at.
Capture(w) ==
    /\ targetWindow' = w
    /\ Send("start", w)
    /\ calmKey' = Over /\ calm' = Undisturbed

DispatchToggle(w) ==
    \/ mirror = "Idle" /\ Capture(w)
    \/ /\ mirror = "Recording" /\ Send("stop", NoWindow)
       /\ UNCHANGED <<targetWindow, calmness>>
    \/ /\ mirror \notin {"Idle", "Recording"} /\ Send("toggle", NoWindow)
       /\ UNCHANGED <<targetWindow, calmness>>

DispatchPttDown(w) == Capture(w)
DispatchPttUp      == Send("stop", NoWindow) /\ UNCHANGED <<targetWindow, calmness>>
DispatchCancel     == /\ Send("cancel", NoWindow) /\ targetWindow' = NoWindow
                      /\ calmKey' = FALSE /\ calm' = Undisturbed

Dispatch ==
    /\ loaded = "yes" /\ keys < MaxKeys /\ keys' = keys + 1
    /\ \/ \E w \in open \union {NoWindow} : DispatchToggle(w) \/ DispatchPttDown(w)
       \/ DispatchPttUp \/ DispatchCancel
    /\ UNCHANGED <<daemon, cutLine, loaded, mirror, indicator, injected,
                   synced, desktop, restarts>>

CloseWindow(w) ==
    /\ w \in open
    /\ open' = open \ {w}
    /\ border' = [border EXCEPT ![w] = "none"]
    /\ UNCHANGED <<daemon, wires, globals, restarts, users>>

-----------------------------------------------------------------------------
\* Nothing more is asked of the plugin.
Rest == loaded = "unloaded" /\ UNCHANGED vars

Next ==
    \/ ReceiveCommand \/ DaemonStep \/ DaemonDies \/ DaemonRestarts
    \/ ReceiveEvent \/ OnHangup \/ Reconnect \/ PluginInit \/ PluginExit
    \/ Dispatch \/ Rest
    \/ \E w \in Windows : CloseWindow(w)

\* The event loop serves the descriptor and the retry timer.
Fairness == WF_vars(ReceiveEvent) /\ WF_vars(OnHangup) /\ WF_vars(Reconnect)

Spec == Init /\ [][Next]_vars
FairSpec == Spec /\ Fairness

-----------------------------------------------------------------------------
(* Properties.                                                             *)

(* indicator.hpp: while recording the target's border is coloured, then the *)
(* border it had is restored.  Whatever windows close, keys change the       *)
(* target and daemons die, no window but the remembered one is coloured,     *)
(* none is while the plugin sees no recording, and what is remembered is     *)
(* the border the window had of its own.                                    *)
BorderOnlyWhileRecording ==
    loaded = "yes" =>
        \A w \in open : border[w] = "recording" =>
            mirror = "Recording" /\ m_target = w /\ m_savedBorder = "own"

(* socket_client.cpp: the snapshot synchronises the plugin.  Once all that   *)
(* arrived is handled the mirror is the daemon's state, whatever the plugin  *)
(* missed while the daemon was away, unless the snapshot was swallowed and   *)
(* no state has arrived since.                                              *)
MirrorInStep ==
    loaded = "yes" /\ link = "up" /\ events = <<>> /\ synced => mirror = state

(* README: the final text is injected into the original target window.     *)
(* The text of a recording whose start key was pressed when all before it    *)
(* was over finds the window captured then, neither another nor none, unless *)
(* start or cancel is pressed, or anyone begins another recording, before it *)
(* has come.  So it is also when a daemon died with the recording before     *)
(* it, and when the key was pressed before the greeting had come.            *)
OwnTarget == \A i \in injected : i[1] \in calm => i[2] = given[i[1]]

(* A border left by a daemon that died is given back once a daemon runs     *)
(* again that is not recording.                                             *)
Follows == loaded = "yes" /\ alive /\ synced /\ state # "Recording"
Coloured == \E w \in Windows : border[w] = "recording"
BorderGivenBack == Coloured /\ Follows ~> ~Coloured \/ ~Follows
=============================================================================
