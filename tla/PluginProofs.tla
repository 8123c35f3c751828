---------------------------- MODULE PluginProofs ----------------------------
(***************************************************************************)
(* The user's borders, the plugin's mirror and the windows of the texts,    *)
(* proved for every set of windows and any number of recordings, keys and   *)
(* restarts of the daemon: whatever comes between the two edges of          *)
(* Recording, what was coloured can be given back; whatever the plugin      *)
(* missed, the mirror catches up; and the text of a recording nobody        *)
(* disturbed finds the window it began in.                                  *)
(***************************************************************************)
EXTENDS Plugin, TLAPS

Borders ==
    /\ open \subseteq Windows
    /\ border \in [Windows -> {"none", "own", "recording"}]
    /\ \A w \in open : border[w] # "none"

\* A coloured window is the remembered one, with its own colour remembered.
Remembered ==
    /\ loaded # "unloaded" =>
          \A w \in open : border[w] = "recording" =>
              mirror = "Recording" /\ m_target = w /\ m_saved = TRUE
    /\ m_saved = TRUE => m_savedBorder = "own"

IInv == Borders /\ Remembered

-----------------------------------------------------------------------------
LEMMA IInvInit == Init => IInv
  BY DEF Init, IInv, Borders, Remembered

(* The callbacks keep it, since they act on the edges of Recording.         *)
LEMMA StateHandled ==
    ASSUME IInv, loaded = "yes", NEW s, OnDaemonState(s),
           UNCHANGED <<loaded, open>>
    PROVE  IInv'
  <1> USE DEF IInv, Borders, Remembered
  <1>1. CASE mirror # "Recording" /\ s = "Recording"
    <2>1. PICK on \in BOOLEAN : StartRecording(on)
      BY <1>1 DEF OnDaemonState
    <2>2. CASE on /\ targetWindow \in open
      <3>1. border[targetWindow] = "own"
        BY <1>1, <2>2
      <3> QED
        BY <1>1, <2>1, <2>2, <3>1 DEF OnDaemonState, StartRecording
    <2>3. CASE ~(on /\ targetWindow \in open)
      BY <1>1, <2>1, <2>3 DEF OnDaemonState, StartRecording, indicator
    <2> QED
      BY <2>2, <2>3
  <1>2. CASE mirror = "Recording" /\ s # "Recording"
    <2>1. StopRecording /\ mirror' = s
      BY <1>2 DEF OnDaemonState
    <2>2. Borders'
      BY <2>1 DEF StopRecording
    <2>3. \A w \in open' : border'[w] # "recording"
      BY <2>1 DEF StopRecording
    <2>4. m_saved' = FALSE
      BY <2>1 DEF StopRecording
    <2> QED
      BY <2>2, <2>3, <2>4
  <1>3. CASE (mirror = "Recording") = (s = "Recording")
    <2>1. UNCHANGED <<indicator, border>> /\ mirror' = s
      BY <1>3 DEF OnDaemonState
    <2> QED
      BY <1>3, <2>1 DEF indicator
  <1> QED
    BY <1>1, <1>2, <1>3 DEF OnDaemonState

LEMMA IInvStep == IInv /\ [Next]_vars => IInv'
  <1> SUFFICES ASSUME IInv, [Next]_vars PROVE IInv'
    OBVIOUS
  <1>1. CASE ReceiveEvent
    <2>1. UNCHANGED <<loaded, open>> /\ loaded = "yes"
      BY <1>1 DEF ReceiveEvent
    <2>2. ASSUME NEW s, OnDaemonState(s) PROVE IInv'
      BY <2>1, <2>2, StateHandled
    <2>3. ASSUME NEW r, OnFinalTranscript(r) PROVE IInv'
      BY <2>1, <2>3 DEF OnFinalTranscript, indicator, IInv, Borders,
         Remembered
    <2> QED
      BY <1>1, <2>2, <2>3 DEF ReceiveEvent
  <1>2. ASSUME NEW w \in Windows, CloseWindow(w) PROVE IInv'
    BY <1>2 DEF CloseWindow, globals, indicator, IInv, Borders, Remembered
  <1>3. CASE PluginExit
    BY <1>3 DEF PluginExit, indicator, desktop, IInv, Borders, Remembered
  <1>4. CASE PluginInit
    BY <1>4 DEF PluginInit, indicator, desktop, IInv, Borders, Remembered
  <1> DEFINE Same == UNCHANGED <<loaded, mirror, m_saved, m_target,
                                 m_savedBorder, open, border>>
  <1>5. Same => IInv'
    BY DEF IInv, Borders, Remembered
  <1> USE DEF globals, indicator, desktop
  <1>6. CASE ReceiveCommand \/ DaemonStep \/ DaemonDies \/ DaemonRestarts
    BY <1>5, <1>6 DEF ReceiveCommand, DaemonStep, DaemonDies, DaemonRestarts
  <1>7. CASE OnHangup \/ Reconnect \/ Dispatch
    BY <1>5, <1>7 DEF OnHangup, Reconnect, Dispatch
  <1>8. CASE Rest \/ UNCHANGED vars
    BY <1>5, <1>8 DEF Rest, vars
  <1> QED
    BY <1>1, <1>2, <1>3, <1>4, <1>6, <1>7, <1>8 DEF Next

(* A window is coloured only while the plugin sees a recording, and then its *)
(* own border is remembered.                                               *)
THEOREM BordersKept == Spec => []BorderOnlyWhileRecording
  <1>1. IInv => BorderOnlyWhileRecording
    BY DEF IInv, Remembered, BorderOnlyWhileRecording
  <1> QED
    BY IInvInit, IInvStep, <1>1, PTL DEF Spec

-----------------------------------------------------------------------------
(* Types.                                                                  *)

Flags ==
    /\ alive \in BOOLEAN /\ cutLine \in BOOLEAN
    /\ m_saved \in BOOLEAN /\ synced \in BOOLEAN /\ calmKey \in BOOLEAN
Counts ==
    /\ rec \in 0 .. MaxRec
    /\ restarts \in 0 .. MaxRestarts /\ keys \in 0 .. MaxKeys
    /\ calm \subseteq Recs
Names ==
    /\ state \in States /\ mirror \in States
    /\ link \in {"down", "up", "broken"} /\ loaded \in {"no", "yes", "unloaded"}
    /\ m_savedBorder \in {"none", "own"}
Windowed ==
    /\ targetWindow \in Maybe /\ m_target \in Maybe
    /\ open \subseteq Windows
    /\ border \in [Windows -> {"none", "own", "recording"}]
    /\ given \in [Recs -> Maybe]
    /\ injected \subseteq Recs \X Maybe
Wires == cmds \in Seq(Commands) /\ events \in Seq(Events)

\* A text is of a recording.
Numbered == state # "Idle" => rec \in Recs

TInv == TypeOK /\ Numbered

LEMMA Types == TypeOK = (Flags /\ Counts /\ Names /\ Windowed /\ Wires)
  BY Zenon DEF TypeOK, Flags, Counts, Names, Windowed, Wires

LEMMA TInvInit == Init => TInv
  <1> SUFFICES ASSUME Init PROVE TInv
    OBVIOUS
  <1>1. Flags /\ Names
    BY Zenon DEF Init, Flags, Names, States
  <1>2. Counts
    BY PluginAssumption DEF Init, Counts
  <1>3. Windowed
    BY PluginAssumption DEF Init, Windowed, Maybe
  <1>4. Wires /\ Numbered
    BY DEF Init, Wires, Numbered
  <1> QED
    BY <1>1, <1>2, <1>3, <1>4, Types DEF TInv


\* What is read is a state or the text of a recording.
LEMMA Read ==
    ASSUME Wires, ReceiveEvent
    PROVE  /\ \/ \E s \in States : OnDaemonState(s)
              \/ \E r \in Recs : OnFinalTranscript(r)
           /\ UNCHANGED <<daemon, link, cmds, cutLine, loaded, open, restarts,
                          users>>
           /\ events' = Tail(events) /\ events # <<>>
  <1>1. Head(events) \in Events /\ events # <<>>
    BY DEF Wires, ReceiveEvent
  <1>2. CASE Head(events) \in [event : {"state"}, value : States]
    BY <1>1, <1>2 DEF ReceiveEvent
  <1>3. CASE Head(events) \in [event : {"final"}, value : Recs]
    BY <1>1, <1>3 DEF ReceiveEvent
  <1> QED
    BY <1>1, <1>2, <1>3 DEF Events

\* What is remembered is a window and its own border.
LEMMA Handled ==
    ASSUME IInv, IInv', Names, Windowed, NEW s \in States, OnDaemonState(s)
    PROVE  /\ m_savedBorder' \in {"none", "own"} /\ m_target' \in Maybe
           /\ border' \in [Windows -> {"none", "own", "recording"}]
           /\ mirror' \in States /\ targetWindow' \in Maybe
           /\ injected' = injected
  <1>1. mirror' \in States /\ targetWindow' \in Maybe /\ injected' = injected
    BY DEF OnDaemonState, Windowed, Maybe
  <1>2. border' \in [Windows -> {"none", "own", "recording"}]
    BY DEF IInv, Borders
  <1>3. ASSUME NEW on \in BOOLEAN, StartRecording(on)
        PROVE  m_savedBorder' \in {"none", "own"} /\ m_target' \in Maybe
    <2>1. CASE on /\ targetWindow \in open
      BY <1>3, <2>1 DEF StartRecording, IInv, Remembered, Windowed
    <2>2. CASE ~(on /\ targetWindow \in open)
      BY <1>3, <2>2 DEF StartRecording, indicator, Names, Windowed
    <2> QED
      BY <2>1, <2>2
  <1>4. ASSUME StopRecording
        PROVE  m_savedBorder' \in {"none", "own"} /\ m_target' \in Maybe
    BY <1>4 DEF StopRecording, Maybe
  <1>5. ASSUME UNCHANGED <<indicator, border>>
        PROVE  m_savedBorder' \in {"none", "own"} /\ m_target' \in Maybe
    BY <1>5 DEF indicator, Names, Windowed
  <1> QED
    BY <1>1, <1>2, <1>3, <1>4, <1>5 DEF OnDaemonState

LEMMA FlagsStep == TInv /\ [Next]_vars => Flags'
  <1> SUFFICES ASSUME TInv, [Next]_vars PROVE Flags'
    OBVIOUS
  <1>0. Flags /\ Counts /\ Names /\ Windowed /\ Wires /\ Numbered
    BY Types, Zenon DEF TInv
  <1> USE DEF Flags, daemon, wires, globals, indicator, desktop, users, calmness
  <1>1. CASE ReceiveCommand
    BY <1>0, <1>1 DEF ReceiveCommand, Disturb
  <1>2. CASE DaemonStep
    BY <1>0, <1>2 DEF DaemonStep, Disturb
  <1>3. CASE DaemonDies
    BY <1>0, <1>3 DEF DaemonDies
  <1>4. CASE DaemonRestarts
    BY <1>0, <1>4 DEF DaemonRestarts
  <1>5. CASE ReceiveEvent
    BY <1>0, <1>5 DEF ReceiveEvent, OnDaemonState, OnFinalTranscript,
       StartRecording, StopRecording
  <1>6. CASE OnHangup
    BY <1>0, <1>6 DEF OnHangup, HandleDisconnect
  <1>7. CASE Reconnect
    BY <1>0, <1>7 DEF Reconnect, Connect, HandleDisconnect
  <1>8. CASE PluginInit
    BY <1>0, <1>8 DEF PluginInit, Connect, HandleDisconnect
  <1>9. CASE PluginExit
    BY <1>0, <1>9 DEF PluginExit, HandleDisconnect
  <1>10. CASE Dispatch
    BY <1>0, <1>10 DEF Dispatch, DispatchToggle, DispatchPttDown,
       DispatchPttUp, DispatchCancel, Capture, Over, Send, HandleDisconnect
  <1>11. CASE Rest
    BY <1>0, <1>11 DEF Rest, vars
  <1>12. ASSUME NEW w \in Windows, CloseWindow(w) PROVE Flags'
    BY <1>0, <1>12 DEF CloseWindow
  <1>13. CASE UNCHANGED vars
    BY <1>0, <1>13 DEF vars
  <1> QED
    BY <1>1, <1>2, <1>3, <1>4, <1>5, <1>6, <1>7, <1>8, <1>9, <1>10, <1>11,
       <1>12, <1>13, Zenon DEF Next

LEMMA NamesStep == IInv /\ TInv /\ [Next]_vars => Names'
  <1> SUFFICES ASSUME IInv, TInv, [Next]_vars PROVE Names'
    OBVIOUS
  <1>a. IInv'
    BY IInvStep
  <1>0. Flags /\ Counts /\ Names /\ Windowed /\ Wires /\ Numbered
    BY Types, Zenon DEF TInv
  <1> USE DEF Names, daemon, wires, globals, indicator, desktop, States
  <1>1. CASE ReceiveCommand
    BY <1>0, <1>1 DEF ReceiveCommand, Handle, Begin, Stop, Cancel, Settle,
       Becomes, Announce
  <1>2. CASE DaemonStep
    BY <1>0, <1>2 DEF DaemonStep, Handle, Begin, Stop, Cancel, Settle,
       Becomes, Announce
  <1>3. CASE DaemonDies
    BY <1>0, <1>3 DEF DaemonDies
  <1>4. CASE DaemonRestarts
    BY <1>0, <1>4 DEF DaemonRestarts
  <1>5. CASE ReceiveEvent
    <2>1. ASSUME NEW s \in States, OnDaemonState(s) PROVE Names'
      BY <1>a, <1>0, <1>5, <2>1, Read, Handled
    <2>2. ASSUME NEW r \in Recs, OnFinalTranscript(r) PROVE Names'
      BY <1>0, <1>5, <2>2, Read DEF OnFinalTranscript
    <2> QED
      BY <1>0, <1>5, <2>1, <2>2, Read, Zenon
  <1>6. CASE OnHangup
    BY <1>0, <1>6 DEF OnHangup, HandleDisconnect
  <1>7. CASE Reconnect
    BY <1>0, <1>7 DEF Reconnect, Connect, HandleDisconnect
  <1>8. CASE PluginInit
    BY <1>0, <1>8 DEF PluginInit, Connect, HandleDisconnect
  <1>9. CASE PluginExit
    BY <1>0, <1>9 DEF PluginExit, HandleDisconnect
  <1>10. CASE Dispatch
    BY <1>0, <1>10 DEF Dispatch, DispatchToggle, DispatchPttDown,
       DispatchPttUp, DispatchCancel, Capture, Send, HandleDisconnect
  <1>11. CASE Rest
    BY <1>0, <1>11 DEF Rest, vars
  <1>12. ASSUME NEW w \in Windows, CloseWindow(w) PROVE Names'
    BY <1>0, <1>12 DEF CloseWindow
  <1>13. CASE UNCHANGED vars
    BY <1>0, <1>13 DEF vars
  <1> QED
    BY <1>1, <1>2, <1>3, <1>4, <1>5, <1>6, <1>7, <1>8, <1>9, <1>10, <1>11,
       <1>12, <1>13, Zenon DEF Next

LEMMA WindowedStep == IInv /\ TInv /\ [Next]_vars => Windowed'
  <1> SUFFICES ASSUME IInv, TInv, [Next]_vars PROVE Windowed'
    OBVIOUS
  <1>a. IInv'
    BY IInvStep
  <1>0. Flags /\ Counts /\ Names /\ Windowed /\ Wires /\ Numbered
    BY Types, Zenon DEF TInv
  <1> USE DEF Windowed, daemon, wires, globals, indicator, desktop, Maybe
  <1>1. CASE ReceiveCommand
    <2>1. Head(cmds) \in Commands /\ Handle(Head(cmds))
      BY <1>0, <1>1 DEF ReceiveCommand, Wires
    <2>2. Head(cmds).win \in Windows \union {NoWindow}
      BY <2>1 DEF Commands, Maybe
    <2>3. given' \in [Recs -> Windows \union {NoWindow}]
      BY <1>0, <2>1, <2>2 DEF Handle, Begin, Stop, Cancel
    <2> QED
      BY <1>0, <1>1, <2>3 DEF ReceiveCommand
  <1>2. CASE DaemonStep
    BY <1>0, <1>2 DEF DaemonStep, Handle, Begin, Stop, Cancel, Settle,
       Becomes, Announce
  <1>3. CASE DaemonDies
    BY <1>0, <1>3 DEF DaemonDies
  <1>4. CASE DaemonRestarts
    BY <1>0, <1>4 DEF DaemonRestarts
  <1>5. CASE ReceiveEvent
    <2>1. ASSUME NEW s \in States, OnDaemonState(s) PROVE Windowed'
      BY <1>a, <1>0, <1>5, <2>1, Read, Handled
    <2>2. ASSUME NEW r \in Recs, OnFinalTranscript(r) PROVE Windowed'
      BY <1>0, <1>5, <2>2, Read DEF OnFinalTranscript
    <2> QED
      BY <1>0, <1>5, <2>1, <2>2, Read, Zenon
  <1>6. CASE OnHangup
    BY <1>0, <1>6 DEF OnHangup, HandleDisconnect
  <1>7. CASE Reconnect
    BY <1>0, <1>7 DEF Reconnect, Connect, HandleDisconnect
  <1>8. CASE PluginInit
    BY <1>0, <1>8 DEF PluginInit, Connect, HandleDisconnect
  <1>9. CASE PluginExit
    BY <1>0, <1>9 DEF PluginExit, HandleDisconnect
  <1>10. CASE Dispatch
    BY <1>0, <1>10 DEF Dispatch, DispatchToggle, DispatchPttDown,
       DispatchPttUp, DispatchCancel, Capture, Send, HandleDisconnect
  <1>11. CASE Rest
    BY <1>0, <1>11 DEF Rest, vars
  <1>12. ASSUME NEW w \in Windows, CloseWindow(w) PROVE Windowed'
    BY <1>0, <1>12 DEF CloseWindow
  <1>13. CASE UNCHANGED vars
    BY <1>0, <1>13 DEF vars
  <1> QED
    BY <1>1, <1>2, <1>3, <1>4, <1>5, <1>6, <1>7, <1>8, <1>9, <1>10, <1>11,
       <1>12, <1>13, Zenon DEF Next

LEMMA CountsStep == TInv /\ [Next]_vars => Counts' /\ Numbered'
  <1> SUFFICES ASSUME TInv, [Next]_vars PROVE Counts' /\ Numbered'
    OBVIOUS
  <1>0. Counts /\ Wires /\ Numbered
    BY Types, Zenon DEF TInv
  <1> USE PluginAssumption DEF Counts, Numbered, Recs, daemon, wires, globals, users, calmness
  <1>1. ASSUME NEW w, Begin(w) PROVE rec' \in Recs
    BY <1>0, <1>1 DEF Begin
  <1>2. ASSUME Stop \/ Cancel \/ Settle \/ UNCHANGED <<state, rec>>
        PROVE  rec' = rec /\ Numbered'
    BY <1>0, <1>2 DEF Stop, Cancel, Settle, Becomes
  <1>3. CASE ReceiveCommand
    <2>1. UNCHANGED <<restarts, keys>>
      BY <1>3 DEF ReceiveCommand
    <2>a. rec' \in Recs \/ rec' = rec
      BY <1>1, <1>2, <1>3 DEF ReceiveCommand, Handle
    <2>b. calm' \subseteq Recs
      BY <1>0, <1>3, <2>a DEF ReceiveCommand, Disturb, Undisturbed
    <2>2. rec' \in 0 .. MaxRec /\ Numbered'
      BY <1>0, <1>1, <1>2, <1>3 DEF ReceiveCommand, Handle
    <2> QED
      BY <1>0, <2>1, <2>2, <2>b
  <1>4. CASE DaemonStep
    <2>1. UNCHANGED <<restarts, keys>>
      BY <1>4 DEF DaemonStep
    <2>a. rec' \in Recs \/ rec' = rec
      BY <1>1, <1>2, <1>4 DEF DaemonStep
    <2>b. calm' \subseteq Recs
      BY <1>0, <1>4, <2>a DEF DaemonStep, Disturb, Undisturbed
    <2>2. rec' \in 0 .. MaxRec /\ Numbered'
      BY <1>0, <1>1, <1>2, <1>4 DEF DaemonStep
    <2> QED
      BY <1>0, <2>1, <2>2, <2>b
  <1>5. CASE DaemonDies
    BY <1>0, <1>5 DEF DaemonDies
  <1>6. CASE DaemonRestarts
    BY <1>0, <1>6 DEF DaemonRestarts
  <1>7. CASE ReceiveEvent \/ OnHangup \/ Reconnect \/ PluginInit \/ PluginExit
    BY <1>0, <1>7 DEF ReceiveEvent, OnHangup, Reconnect, PluginInit,
       PluginExit
  <1>8. CASE Dispatch
    <2>1. keys' = keys + 1 /\ keys < MaxKeys /\ UNCHANGED <<state, rec, restarts>>
      BY <1>8 DEF Dispatch
    <2>2. calm' = calm \/ calm' = Undisturbed
      BY <1>8, Zenon DEF Dispatch, DispatchToggle, DispatchPttDown,
         DispatchPttUp, DispatchCancel, Capture, calmness
    <2>3. calm' \subseteq Recs
      BY <1>0, <2>2 DEF Undisturbed
    <2> QED
      BY <1>0, <2>1, <2>3
  <1>9. CASE Rest \/ UNCHANGED vars
    BY <1>0, <1>9 DEF Rest, vars
  <1>10. ASSUME NEW w \in Windows, CloseWindow(w) PROVE Counts' /\ Numbered'
    BY <1>0, <1>10 DEF CloseWindow
  <1> QED
    BY <1>3, <1>4, <1>5, <1>6, <1>7, <1>8, <1>9, <1>10, Zenon DEF Next

\* An announcement lengthens the feed by events.
LEMMA Announced ==
    ASSUME Wires, NEW es \in Seq(Events), Announce(es)
    PROVE  events' \in Seq(Events)
  BY DEF Wires, Announce

LEMMA WiresStep == TInv /\ [Next]_vars => Wires'
  <1> SUFFICES ASSUME TInv, [Next]_vars PROVE Wires'
    OBVIOUS
  <1>0. Names /\ Windowed /\ Wires /\ Numbered
    BY Types, Zenon DEF TInv
  <1> USE DEF daemon, wires, globals
  <1>b. <<>> \in Seq(Commands) /\ <<>> \in Seq(Events)
    OBVIOUS
  <1>1. \A s \in States : StateChanged(s) \in Events
    BY DEF StateChanged, Events
  <1>2. \A r \in Recs : Final(r) \in Events
    BY DEF Final, Events
  <1>3. ASSUME NEW s \in States, Becomes(s) PROVE events' \in Seq(Events)
    <2>1. <<StateChanged(s)>> \in Seq(Events)
      BY <1>1
    <2> QED
      BY <1>0, <1>3, <2>1, Announced DEF Becomes
  <1>4. ASSUME Cancel PROVE events' \in Seq(Events)
    <2>1. <<StateChanged("Cancelled"), StateChanged("Idle")>> \in Seq(Events)
      BY <1>1 DEF States
    <2> QED
      BY <1>0, <1>3, <1>4, <2>1, Announced DEF Cancel, States
  <1>5. ASSUME Settle PROVE events' \in Seq(Events)
    <2>1. <<StateChanged("Idle")>> \in Seq(Events)
      BY <1>1 DEF States
    <2>2. <<StateChanged("Error"), StateChanged("Idle")>> \in Seq(Events)
      BY <1>1 DEF States
    <2>3. CASE state = "Transcribing"
      <3>1. <<StateChanged("Idle"), Final(rec)>> \in Seq(Events)
        BY <1>0, <1>1, <1>2, <2>3 DEF States, Numbered
      <3> QED
        BY <1>0, <1>5, <2>1, <2>2, <3>1, Announced DEF Settle
    <2>4. CASE state # "Transcribing"
      BY <1>0, <1>5, <2>1, <2>2, <2>4, Announced DEF Settle
    <2> QED
      BY <2>3, <2>4
  <1>6. ASSUME \/ Stop \/ \E w \in Maybe : Begin(w)
        PROVE  events' \in Seq(Events)
    BY <1>3, <1>6 DEF Stop, Begin, States
  <1>7. CASE ReceiveCommand
    <2>1. /\ Head(cmds) \in Commands /\ Tail(cmds) \in Seq(Commands)
          /\ Handle(Head(cmds))
      BY <1>0, <1>7 DEF ReceiveCommand, Wires
    <2>2. Head(cmds).win \in Maybe
      BY <2>1 DEF Commands
    <2>3. events' \in Seq(Events)
      BY <1>0, <1>4, <1>6, <2>1, <2>2 DEF Handle, Wires
    <2> QED
      BY <1>7, <2>1, <2>3 DEF ReceiveCommand, Wires
  <1>8. CASE DaemonStep
    <2>1. events' \in Seq(Events)
      BY <1>5, <1>6, <1>8 DEF DaemonStep, Maybe
    <2> QED
      BY <1>0, <1>8, <2>1 DEF DaemonStep, Wires
  <1>9. CASE DaemonDies \/ DaemonRestarts
    <2>1. cmds' \in {cmds, <<>>} /\ events' = events
      BY <1>9 DEF DaemonDies, DaemonRestarts
    <2> QED
      BY <1>0, <1>b, <2>1 DEF Wires
  <1>10. CASE ReceiveEvent
    BY <1>0, <1>10, Read DEF Wires
  <1>11. CASE OnHangup \/ PluginExit
    <2>1. cmds' = cmds /\ events' = <<>>
      BY <1>11 DEF OnHangup, PluginExit, HandleDisconnect
    <2> QED
      BY <1>0, <1>b, <2>1 DEF Wires
  <1>12. ASSUME Connect PROVE events' \in Seq(Events)
    <2>1. StateChanged(state) \in Events
      BY <1>0, <1>1 DEF Names
    <2> QED
      BY <1>12, <2>1 DEF Connect
  <1>13. CASE Reconnect \/ PluginInit
    BY <1>0, <1>12, <1>13 DEF Reconnect, PluginInit, Wires
  <1>14. ASSUME NEW c \in {"start", "stop", "toggle", "cancel"},
                NEW w \in Maybe, Send(c, w)
         PROVE  Wires'
    <2>1. [cmd |-> c, win |-> w] \in Commands
      BY DEF Commands
    <2>2. Append(cmds, [cmd |-> c, win |-> w]) \in Seq(Commands)
      BY <1>0, <2>1 DEF Wires
    <2>3. /\ cmds' \in {cmds, Append(cmds, [cmd |-> c, win |-> w])}
          /\ events' \in {events, <<>>}
      BY <1>14 DEF Send, HandleDisconnect
    <2> QED
      BY <1>0, <1>b, <2>2, <2>3, Zenon DEF Wires
  <1>15. CASE Dispatch
    <2>1. \A w \in open \union {NoWindow} : w \in Maybe
      BY <1>0 DEF Windowed, Maybe
    <2>2. ASSUME NEW w \in open \union {NoWindow},
                 DispatchToggle(w) \/ DispatchPttDown(w)
          PROVE  Wires'
      BY <1>14, <2>1, <2>2 DEF DispatchToggle, DispatchPttDown, Capture, Maybe
    <2>3. CASE DispatchPttUp \/ DispatchCancel
      BY <1>14, <2>3 DEF DispatchPttUp, DispatchCancel, Maybe
    <2> QED
      BY <1>15, <2>2, <2>3 DEF Dispatch
  <1>16. CASE Rest \/ UNCHANGED vars
    BY <1>0, <1>16 DEF Rest, vars, Wires
  <1>17. ASSUME NEW w \in Windows, CloseWindow(w) PROVE Wires'
    BY <1>0, <1>17 DEF CloseWindow, Wires
  <1> QED
    BY <1>7, <1>8, <1>9, <1>10, <1>11, <1>13, <1>15, <1>16, <1>17, Zenon DEF
       Next

LEMMA TypesStep == IInv /\ TInv /\ [Next]_vars => IInv' /\ TInv'
  <1> SUFFICES ASSUME IInv, TInv, [Next]_vars PROVE IInv' /\ TInv'
    OBVIOUS
  <1>1. Flags' /\ Counts' /\ Names' /\ Windowed' /\ Wires' /\ Numbered'
    BY FlagsStep, CountsStep, NamesStep, WindowedStep, WiresStep, Zenon
  <1>2. TypeOK'
    BY <1>1, Zenon DEF TypeOK, Flags, Counts, Names, Windowed, Wires
  <1> QED
    BY <1>1, <1>2, IInvStep, Zenon DEF TInv

(* Every variable keeps its type; what is on its way is a command or an      *)
(* event, and the border remembered is one a window can have of its own.     *)
THEOREM TypeCorrect == Spec => []TypeOK
  <1>1. Init => IInv /\ TInv
    BY IInvInit, TInvInit
  <1>2. TInv => TypeOK
    BY DEF TInv
  <1> QED
    BY <1>1, TypesStep, <1>2, PTL DEF Spec

-----------------------------------------------------------------------------
(* The mirror.                                                             *)

Silent(es) == \A i \in 1 .. Len(es) : es[i].event # "state"

\* The latest state on its way is the daemon's; or none is, and the mirror is
\* the daemon's state, or was never told one on this connection.
LastTold(es, s) ==
    \E i \in 1 .. Len(es) :
        /\ es[i] = StateChanged(s)
        /\ \A j \in i + 1 .. Len(es) : es[j].event # "state"

MInv ==
    /\ loaded = "no" => link = "down"
    /\ loaded = "yes" /\ link = "up" =>
          \/ LastTold(events, state)
          \/ Silent(events) /\ (synced = TRUE => mirror = state)

(* What the daemon announces, if anything, says last what state it is in.   *)
Tells(es) == es \in Seq(Events) /\ LastTold(es, state')

LEMMA Telling ==
    ASSUME NEW es \in Seq(Events), NEW new \in Seq(Events), NEW s,
           LastTold(new, s)
    PROVE  LastTold(es \o new, s)
  <1>1. PICK i \in 1 .. Len(new) :
            /\ new[i] = StateChanged(s)
            /\ \A j \in i + 1 .. Len(new) : new[j].event # "state"
    BY DEF LastTold
  <1>2. Len(es) + i \in 1 .. Len(es \o new) /\ (es \o new)[Len(es) + i] = new[i]
    BY <1>1
  <1>3. ASSUME NEW j \in Len(es) + i + 1 .. Len(es \o new)
        PROVE  (es \o new)[j].event # "state"
    <2>1. j - Len(es) \in i + 1 .. Len(new) /\ (es \o new)[j] = new[j - Len(es)]
      BY <1>1, <1>3
    <2> QED
      BY <1>1, <2>1
  <1> QED
    BY <1>1, <1>2, <1>3 DEF LastTold

LEMMA MirrorInit == Init => MInv
  BY DEF Init, MInv

\* A step of the daemon announces its new state last, or changes nothing.
LEMMA DaemonTells ==
    ASSUME TInv, TInv', UNCHANGED <<link, globals>>,
           \/ \E w : Begin(w)
           \/ Stop \/ Cancel \/ Settle
           \/ UNCHANGED <<state, events>>,
           MInv
    PROVE  MInv'
  <1> USE DEF globals
  <1>0. Names /\ Wires /\ Numbered /\ Names'
    BY Types, Zenon DEF TInv, TypeOK, Names
  <1>1. ASSUME NEW es, Tells(es), Announce(es) PROVE MInv'
    BY <1>0, <1>1, Telling DEF Announce, Tells, Wires, MInv
  <1>2. ASSUME NEW s \in States PROVE
            /\ <<StateChanged(s)>> \in Seq(Events)
            /\ LastTold(<<StateChanged(s)>>, s)
            /\ \A t \in States : /\ <<StateChanged(t), StateChanged(s)>> \in Seq(Events)
                                 /\ LastTold(<<StateChanged(t), StateChanged(s)>>, s)
            /\ \A r \in Recs : /\ <<StateChanged(s), Final(r)>> \in Seq(Events)
                               /\ LastTold(<<StateChanged(s), Final(r)>>, s)
    BY DEF LastTold, Events, StateChanged, Final
  <1>3. ASSUME NEW s \in States, Becomes(s) PROVE MInv'
    BY <1>1, <1>2, <1>3 DEF Becomes, Tells
  <1>4. CASE Stop \/ \E w : Begin(w)
    BY <1>3, <1>4 DEF Stop, Begin, States
  <1>5. CASE Cancel
    <2>1. CASE state = "Recording"
      BY <1>1, <1>2, <1>5, <2>1 DEF Cancel, Tells, States
    <2>2. CASE state # "Recording"
      BY <1>3, <1>5, <2>2 DEF Cancel, States
    <2> QED
      BY <2>1, <2>2
  <1>6. CASE Settle
    <2>1. state' = "Idle" /\ state' \in States
      BY <1>6 DEF Settle, States
    <2>2. PICK es :
              /\ Announce(es)
              /\ \/ state = "Transcribing"
                    /\ es = <<StateChanged("Idle"), Final(rec)>>
                 \/ es = <<StateChanged("Idle")>>
                 \/ es = <<StateChanged("Error"), StateChanged("Idle")>>
      BY <1>6 DEF Settle
    <2>3. Tells(es)
      BY <1>0, <1>2, <2>1, <2>2 DEF Tells, Numbered, States
    <2> QED
      BY <1>1, <2>2, <2>3
  <1>7. CASE UNCHANGED <<state, events>>
    BY <1>7 DEF MInv
  <1> QED
    BY <1>4, <1>5, <1>6, <1>7

(* Reading on: the mirror takes the latest state over when it is read.      *)
LEMMA MirrorReads ==
    ASSUME TInv, MInv, ReceiveEvent PROVE MInv'
  <1>0. Wires
    BY Types, Zenon DEF TInv
  <1>1. /\ events # <<>> /\ events' = Tail(events) /\ Head(events) = events[1]
        /\ UNCHANGED <<state, link, loaded>>
        /\ Len(events') = Len(events) - 1
        /\ \A i \in 1 .. Len(events') : events'[i] = events[i + 1]
        /\ Len(events) \in Nat \ {0}
    BY <1>0 DEF ReceiveEvent, Wires, daemon
  <1>2. \/ events[1].event = "state" /\ mirror' = events[1].value /\ synced' = TRUE
        \/ events[1].event # "state" /\ mirror' = mirror /\ synced' = synced
    <2>1. events[1] \in Events
      BY <1>0, <1>1 DEF Wires
    <2>2. synced \in BOOLEAN
      BY Types, Zenon DEF TInv, Flags
    <2>3. CASE events[1].event = "state"
      BY <1>1, <2>3 DEF ReceiveEvent, OnDaemonState
    <2>4. CASE events[1].event # "state"
      BY <1>1, <2>2, <2>4 DEF ReceiveEvent, OnFinalTranscript
    <2> QED
      BY <2>3, <2>4
  <1>3. CASE ~(loaded = "yes" /\ link = "up")
    BY <1>1, <1>3 DEF MInv
  <1>4. CASE LastTold(events, state)
    <2>1. PICK i \in 1 .. Len(events) :
              /\ events[i] = StateChanged(state)
              /\ \A j \in i + 1 .. Len(events) : events[j].event # "state"
      BY <1>4 DEF LastTold
    <2>2. CASE i = 1
      <3>1. mirror' = state /\ Silent(events')
        BY <1>1, <1>2, <2>1, <2>2 DEF StateChanged, Silent
      <3> QED
        BY <1>1, <3>1 DEF MInv
    <2>3. CASE i # 1
      <3>1. /\ i - 1 \in 1 .. Len(events') /\ events'[i - 1] = StateChanged(state)
            /\ \A j \in i .. Len(events') : events'[j].event # "state"
        BY <1>1, <2>1, <2>3
      <3>2. i - 1 + 1 = i /\ state' = state
        BY <1>1, <2>1
      <3>3. LastTold(events', state')
        BY <3>1, <3>2 DEF LastTold
      <3> QED
        BY <1>1, <3>3 DEF MInv
    <2> QED
      BY <2>2, <2>3
  <1>5. CASE Silent(events) /\ (synced = TRUE => mirror = state)
    <2>1. Silent(events')
      BY <1>1, <1>5 DEF Silent
    <2>2. mirror' = mirror /\ synced' = synced
      BY <1>1, <1>2, <1>5 DEF Silent
    <2> QED
      BY <1>1, <1>5, <2>1, <2>2 DEF MInv
  <1> QED
    BY <1>1, <1>3, <1>4, <1>5 DEF MInv

LEMMA MirrorStep == TInv /\ TInv' /\ MInv /\ [Next]_vars => MInv'
  <1> SUFFICES ASSUME TInv, TInv', MInv, [Next]_vars PROVE MInv'
    OBVIOUS
  <1>1. CASE ReceiveCommand
    <2>1. UNCHANGED <<link, globals>>
      BY <1>1 DEF ReceiveCommand
    <2> QED
      BY <1>1, <2>1, DaemonTells DEF ReceiveCommand, Handle
  <1>2. CASE DaemonStep
    <2>1. UNCHANGED <<link, globals>>
      BY <1>2 DEF DaemonStep
    <2> QED
      BY <1>2, <2>1, DaemonTells DEF DaemonStep
  <1>3. CASE ReceiveEvent
    BY <1>3, MirrorReads
  <1> USE DEF daemon, wires, globals
  <1>4. CASE DaemonDies
    BY <1>4 DEF DaemonDies, MInv
  <1>5. CASE OnHangup \/ PluginExit
    BY <1>5 DEF OnHangup, PluginExit, HandleDisconnect, MInv
  <1>6. ASSUME Connect, UNCHANGED <<state, mirror>>, loaded' = "yes" PROVE MInv'
    <2>1. LastTold(<<StateChanged(state)>>, state) /\ Silent(<<>>)
      BY DEF LastTold, Silent
    <2>2. CASE cutLine
      BY <1>6, <2>1, <2>2 DEF Connect, MInv
    <2>3. CASE ~cutLine
      BY <1>6, <2>1, <2>3 DEF Connect, MInv
    <2> QED
      BY <2>2, <2>3
  <1>7. CASE Reconnect
    BY <1>6, <1>7 DEF Reconnect
  <1>8. CASE PluginInit
    <2>1. CASE Connect
      BY <1>6, <1>8, <2>1 DEF PluginInit
    <2>2. CASE UNCHANGED <<link, events, cutLine, synced>>
      BY <1>8, <2>2 DEF PluginInit, MInv
    <2> QED
      BY <1>8, <2>1, <2>2 DEF PluginInit
  <1>9. ASSUME NEW c, NEW w, Send(c, w), UNCHANGED <<loaded, state, mirror, synced>>
        PROVE  MInv'
    BY <1>9 DEF Send, HandleDisconnect, MInv
  <1>10. CASE Dispatch
    <2>1. \E c, w : Send(c, w)
      BY <1>10 DEF Dispatch, DispatchToggle, DispatchPttDown, DispatchPttUp,
                   DispatchCancel, Capture
    <2>2. UNCHANGED <<loaded, state, mirror, synced>>
      BY <1>10 DEF Dispatch
    <2> QED
      BY <1>9, <2>1, <2>2
  <1>11. CASE DaemonRestarts \/ Rest \/ UNCHANGED vars
    BY <1>11 DEF DaemonRestarts, Rest, vars, MInv
  <1>12. ASSUME NEW w \in Windows, CloseWindow(w) PROVE MInv'
    BY <1>12 DEF CloseWindow, MInv
  <1> QED
    BY <1>1, <1>2, <1>3, <1>4, <1>5, <1>7, <1>8, <1>10, <1>11, <1>12, Zenon
       DEF Next

(* Once all that arrived is handled the mirror is the daemon's state, for    *)
(* any number of restarts, unless the greeting was lost behind a cut line.   *)
THEOREM MirrorFollows == Spec => []MirrorInStep
  <1>1. Init => IInv /\ TInv /\ MInv
    BY IInvInit, TInvInit, MirrorInit
  <1>2. IInv /\ TInv /\ MInv /\ [Next]_vars => (IInv /\ TInv /\ MInv)'
    BY TypesStep, MirrorStep, Zenon
  <1>3. MInv => MirrorInStep
    BY DEF MInv, MirrorInStep, LastTold
  <1> QED
    BY <1>1, <1>2, <1>3, PTL DEF Spec

-----------------------------------------------------------------------------
(* Whose text goes where.                                                  *)

\* No text is announced twice, and none before its recording is over.
Once(es) ==
    \A m, n \in 1 .. Len(es) :
        es[m] = es[n] /\ es[m].event = "final" => m = n
Line ==
    /\ Once(events)
    /\ \A n \in 1 .. Len(events) :
          events[n].event = "final" => events[n].value \in 1 .. rec
    /\ Active => ~OnItsWay(Final(rec))

\* Nothing that resets the target is on its way.
Clear == ~OnItsWay(StateChanged("Error")) /\ ~OnItsWay(StateChanged("Cancelled"))

\* The recording a calm start key asks for will find its window the target,
\* and nothing before it.
KeyInv ==
    calmKey = TRUE =>
        \A n \in 1 .. Len(cmds) :
            cmds[n].cmd = "start" =>
                cmds[n].win = targetWindow /\ Clear /\ \A r \in Recs : ~Pending(r)

\* While the text of a calm recording can come, so can no other, and the
\* target is its window.
CalmInv ==
    \A r \in calm :
        Pending(r) => /\ targetWindow = given[r] /\ Clear
                      /\ \A q \in Recs : Pending(q) => q = r

\* What was recorded is of recordings that began.
Past == calm \subseteq 1 .. rec /\ \A i \in injected : i[1] \in 1 .. rec

\* Commands are handled as long as the connection they came on lasts.
Linked == loaded # "unloaded" /\ link # "up" => cmds = <<>>

OInv == OwnTarget /\ Past /\ Line /\ KeyInv /\ CalmInv /\ Linked

LEMMA OwnInit == Init => OInv
  BY DEF Init, OInv, OwnTarget, Past, Line, Once, KeyInv, CalmInv, Linked,
     Active

(* What an announcement puts on the way.                                   *)
LEMMA Posting ==
    ASSUME Wires, NEW es \in Seq(Events), Announce(es)
    PROVE  /\ \A e : OnItsWay(e)' => OnItsWay(e) \/ \E n \in 1 .. Len(es) : es[n] = e
           /\ /\ Once(events) /\ Once(es)
              /\ \A n \in 1 .. Len(es) : es[n].event = "final" => ~OnItsWay(es[n])
              => Once(events')
  <1>1. CASE link # "up"
    <2>1. events' = events
      BY <1>1 DEF Announce
    <2> QED
      BY <2>1 DEF OnItsWay
  <1>2. CASE link = "up"
    <2>1. events' = events \o es
      BY <1>2 DEF Announce
    <2>2. /\ Len(events') = Len(events) + Len(es)
          /\ Len(events) \in Nat /\ Len(es) \in Nat
          /\ \A n \in 1 .. Len(events') :
                \/ n \in 1 .. Len(events) /\ events'[n] = events[n]
                \/ n - Len(events) \in 1 .. Len(es)
                   /\ events'[n] = es[n - Len(events)]
      BY <2>1 DEF Wires
    <2>3. \A e : OnItsWay(e)' => OnItsWay(e) \/ \E n \in 1 .. Len(es) : es[n] = e
      BY <2>2 DEF OnItsWay
    <2>4. ASSUME Once(events), Once(es),
                 \A n \in 1 .. Len(es) : es[n].event = "final" => ~OnItsWay(es[n]),
                 NEW m \in 1 .. Len(events'), NEW n \in 1 .. Len(events'),
                 events'[m] = events'[n], events'[m].event = "final"
          PROVE  m = n
      <3>1. CASE m \in 1 .. Len(events) /\ n \in 1 .. Len(events)
                 /\ events'[m] = events[m] /\ events'[n] = events[n]
        BY <2>4, <3>1 DEF Once
      <3>2. CASE m - Len(events) \in 1 .. Len(es) /\ n - Len(events) \in 1 .. Len(es)
                 /\ events'[m] = es[m - Len(events)] /\ events'[n] = es[n - Len(events)]
        <4>1. m - Len(events) = n - Len(events)
          BY <2>4, <3>2 DEF Once
        <4> QED
          BY <2>2, <4>1
      <3>3. ASSUME NEW i \in 1 .. Len(events), NEW j \in 1 .. Len(es),
                   events[i] = es[j], es[j].event = "final"
            PROVE  FALSE
        BY <2>4, <3>3 DEF OnItsWay
      <3> QED
        BY <2>2, <2>4, <3>1, <3>2, <3>3
    <2>5. /\ Once(events) /\ Once(es)
          /\ \A n \in 1 .. Len(es) : es[n].event = "final" => ~OnItsWay(es[n])
          => Once(events')
      <3>1. SUFFICES ASSUME Once(events), Once(es),
                     \A n \in 1 .. Len(es) : es[n].event = "final" => ~OnItsWay(es[n])
                     PROVE \A m, n \in 1 .. Len(events') :
                        events'[m] = events'[n] /\ events'[m].event = "final" => m = n
        BY DEF Once
      <3> QED
        BY <2>4, <3>1
    <2> QED
      BY <2>3, <2>5
  <1> QED
    BY <1>1, <1>2

\* What a step of the daemon can announce.
LEMMA Sayings ==
    ASSUME TInv,
           \/ \E w : Begin(w)
           \/ Stop \/ Cancel \/ Settle \/ UNCHANGED <<state, rec, given, events>>
    PROVE  \/ events' = events
           \/ \E es \in Seq(Events) :
                 /\ Announce(es) /\ Once(es)
                 /\ \A n \in 1 .. Len(es) :
                       \/ es[n] \in {StateChanged("Idle"), StateChanged("Recording"),
                                    StateChanged("Transcribing")}
                       \/ /\ es[n] \in {StateChanged("Error"), StateChanged("Cancelled")}
                          /\ Active /\ state' \in {"Idle", "Cancelled"} /\ rec' = rec
                          /\ \A m \in 1 .. Len(es) : es[m].event # "final"
                       \/ /\ es[n] = Final(rec) /\ Active /\ state' = "Idle" /\ rec' = rec
                          /\ \A m \in 1 .. Len(es) :
                                es[m] \notin {StateChanged("Error"), StateChanged("Cancelled")}
  <1>0. Numbered
    BY DEF TInv
  <1>1. ASSUME NEW x \in States PROVE
            /\ <<StateChanged(x)>> \in Seq(Events)
            /\ Once(<<StateChanged(x)>>)
            /\ \A y \in States : /\ <<StateChanged(x), StateChanged(y)>> \in Seq(Events)
                                 /\ Once(<<StateChanged(x), StateChanged(y)>>)
            /\ \A r \in Recs : /\ <<StateChanged(x), Final(r)>> \in Seq(Events)
                               /\ Once(<<StateChanged(x), Final(r)>>)
    BY DEF Once, Events, StateChanged, Final
  <1>2. CASE Stop \/ \E w : Begin(w)
    <2>1. PICK x \in {"Recording", "Transcribing"} : Announce(<<StateChanged(x)>>)
      BY <1>2 DEF Stop, Begin, Becomes
    <2>2. x \in States
      BY DEF States
    <2> QED
      BY <1>1, <2>1, <2>2
  <1>3. CASE Cancel
    <2>1. Active /\ state' \in {"Idle", "Cancelled"} /\ rec' = rec
      BY <1>3 DEF Cancel, Becomes, Active
    <2>2. \/ Announce(<<StateChanged("Cancelled"), StateChanged("Idle")>>)
          \/ Announce(<<StateChanged("Cancelled")>>)
      BY <1>3 DEF Cancel, Becomes
    <2>3. StateChanged("Cancelled").event = "state" /\ StateChanged("Idle").event = "state"
      BY DEF StateChanged
    <2> QED
      <3>1. CASE Announce(<<StateChanged("Cancelled"), StateChanged("Idle")>>)
        <4> DEFINE es == <<StateChanged("Cancelled"), StateChanged("Idle")>>
        <4>1. es \in Seq(Events) /\ Once(es)
          BY <1>1 DEF States
        <4>2. \A n \in 1 .. Len(es) :
                  /\ es[n] = StateChanged("Cancelled") \/ es[n] = StateChanged("Idle")
                  /\ es[n].event # "final"
          BY <2>3
        <4> HIDE DEF es
        <4> QED
          BY <2>1, <3>1, <4>1, <4>2 DEF es
      <3>2. CASE Announce(<<StateChanged("Cancelled")>>)
        <4> DEFINE es == <<StateChanged("Cancelled")>>
        <4>1. es \in Seq(Events) /\ Once(es)
          BY <1>1 DEF States
        <4>2. \A n \in 1 .. Len(es) :
                  es[n] = StateChanged("Cancelled") /\ es[n].event # "final"
          BY <2>3
        <4> HIDE DEF es
        <4> QED
          BY <2>1, <3>2, <4>1, <4>2 DEF es
      <3> QED
        BY <2>2, <3>1, <3>2
  <1>4. CASE Settle
    <2>1. state' = "Idle" /\ rec' = rec
      BY <1>4 DEF Settle
    <2>2. CASE state = "Transcribing" /\ Announce(<<StateChanged("Idle"), Final(rec)>>)
      <3> DEFINE es == <<StateChanged("Idle"), Final(rec)>>
      <3>1. rec \in Recs /\ Active
        BY <1>0, <2>2 DEF Numbered, Active
      <3>2. es \in Seq(Events) /\ Once(es)
        BY <1>1, <3>1 DEF States
      <3>3. \A n \in 1 .. Len(es) :
                /\ es[n] = StateChanged("Idle") \/ es[n] = Final(rec)
                /\ es[n] \notin {StateChanged("Error"), StateChanged("Cancelled")}
        BY DEF StateChanged, Final
      <3> HIDE DEF es
      <3> QED
        BY <2>1, <2>2, <3>1, <3>2, <3>3 DEF es
    <2>3. CASE Announce(<<StateChanged("Idle")>>)
      <3> DEFINE es == <<StateChanged("Idle")>>
      <3>1. es \in Seq(Events) /\ Once(es)
        BY <1>1 DEF States
      <3>2. \A n \in 1 .. Len(es) : es[n] = StateChanged("Idle")
        OBVIOUS
      <3> HIDE DEF es
      <3> QED
        BY <2>3, <3>1, <3>2 DEF es
    <2>4. CASE state \in {"Recording", "Transcribing"}
               /\ Announce(<<StateChanged("Error"), StateChanged("Idle")>>)
      <3>1. Active
        BY <2>4 DEF Active
      <3> DEFINE es == <<StateChanged("Error"), StateChanged("Idle")>>
      <3>2. es \in Seq(Events) /\ Once(es)
        BY <1>1 DEF States
      <3>3. \A n \in 1 .. Len(es) :
                /\ es[n] = StateChanged("Error") \/ es[n] = StateChanged("Idle")
                /\ es[n].event # "final"
        BY DEF StateChanged
      <3> HIDE DEF es
      <3> QED
        BY <2>1, <2>4, <3>1, <3>2, <3>3 DEF es
    <2> QED
      BY <1>4, <2>2, <2>3, <2>4 DEF Settle
  <1> QED
    BY <1>2, <1>3, <1>4

(* A step of the daemon: the texts on their way are of recordings that are  *)
(* over; a recording begins after all that was under way is over; and what  *)
(* resets the target is announced of a recording that ends without a text.  *)
LEMMA DaemonSays ==
    ASSUME TInv, TInv', Line, NEW w,
           Begin(w) \/ Stop \/ Cancel \/ Settle \/ UNCHANGED <<state, rec, given, events>>
    PROVE  /\ Line'
           /\ \/ rec' = rec /\ given' = given
              \/ rec' = rec + 1 /\ Begin(w)
           /\ \A r \in Recs : Pending(r)' => Pending(r) \/ (r = rec' /\ rec' = rec + 1)
           /\ \/ Clear' \/ ~Clear
              \/ /\ Active /\ rec' = rec
                 /\ \A r \in Recs : r = rec => ~Pending(r)'
  <1>0. Counts /\ Counts' /\ Wires /\ Numbered /\ Names
    BY Types, Zenon DEF TInv, TypeOK, Counts
  <1>1. \/ rec' = rec /\ given' = given /\ (Active' => Active)
        \/ /\ rec' = rec + 1 /\ Begin(w) /\ ~Active /\ events' = events
        \/ /\ rec' = rec + 1 /\ Begin(w) /\ ~Active /\ state' = "Recording"
    BY DEF Begin, Stop, Cancel, Settle, Becomes, Active
  <1>2. CASE events' = events
    <2>1. \A e : OnItsWay(e)' <=> OnItsWay(e)
      BY <1>2 DEF OnItsWay
    <2>2. rec \in Nat /\ rec' \in Nat
      BY <1>0, PluginAssumption DEF Counts
    <2>3. Line'
      BY <1>1, <1>2, <2>1, <2>2 DEF Line, Final, OnItsWay
    <2>4. \A r \in Recs : Pending(r)' => Pending(r) \/ (r = rec' /\ rec' = rec + 1)
      BY <1>1, <2>1 DEF Pending
    <2>5. Clear' \/ ~Clear
      BY <2>1 DEF Clear
    <2> QED
      BY <1>1, <2>3, <2>4, <2>5
  <1>3. ASSUME NEW es \in Seq(Events), Announce(es), Once(es),
           \A n \in 1 .. Len(es) :
              \/ es[n] \in {StateChanged("Idle"), StateChanged("Recording"),
                           StateChanged("Transcribing")}
              \/ /\ es[n] \in {StateChanged("Error"), StateChanged("Cancelled")}
                 /\ Active /\ state' \in {"Idle", "Cancelled"} /\ rec' = rec
                 /\ \A m \in 1 .. Len(es) : es[m].event # "final"
              \/ /\ es[n] = Final(rec) /\ Active /\ state' = "Idle" /\ rec' = rec
                 /\ \A m \in 1 .. Len(es) :
                       es[m] \notin {StateChanged("Error"), StateChanged("Cancelled")}
        PROVE  /\ Line'
               /\ \A r \in Recs : Pending(r)' => Pending(r) \/ (r = rec' /\ rec' = rec + 1)
               /\ \/ Clear' \/ ~Clear
                  \/ /\ Active /\ rec' = rec
                     /\ \A r \in Recs : r = rec => ~Pending(r)'
    <2>1. /\ \A x : StateChanged(x).event = "state" /\ StateChanged(x).value = x
          /\ \A r : Final(r).event = "final" /\ Final(r).value = r
      BY DEF StateChanged, Final
    <2>2. \A e : OnItsWay(e)' => OnItsWay(e) \/ \E n \in 1 .. Len(es) : es[n] = e
      BY <1>0, <1>3, Posting
    <2>3. \A n \in 1 .. Len(es) : es[n].event = "final" =>
             es[n] = Final(rec) /\ Active /\ state' = "Idle" /\ rec' = rec
      BY <1>3, <2>1
    <2>4. Once(events')
      <3>1. \A n \in 1 .. Len(es) : es[n].event = "final" => ~OnItsWay(es[n])
        BY <2>3 DEF Line
      <3> QED
        BY <1>0, <1>3, <3>1, Posting DEF Line
    <2>5. rec \in Nat /\ rec' \in Nat /\ (Active => rec \in 1 .. rec) /\ (rec' = rec \/ rec' = rec + 1)
      BY <1>0, <1>1, PluginAssumption DEF Counts, Numbered, Active, Recs
    <2>6. ASSUME NEW n \in 1 .. Len(events'), events'[n].event = "final"
          PROVE  events'[n].value \in 1 .. rec'
      <3>2. PICK e : e = events'[n]
        OBVIOUS
      <3>3. OnItsWay(e) \/ \E m \in 1 .. Len(es) : es[m] = e
        <4>1. \E m \in 1 .. Len(events') : events'[m] = e
          BY <3>2
        <4> QED
          BY <2>2, <4>1 DEF OnItsWay
      <3>4. CASE OnItsWay(e)
        BY <2>5, <2>6, <3>2, <3>4 DEF OnItsWay, Line
      <3>5. ASSUME NEW m \in 1 .. Len(es), es[m] = e PROVE events'[n].value \in 1 .. rec'
        BY <2>1, <2>3, <2>5, <2>6, <3>2, <3>5
      <3> QED
        BY <3>3, <3>4, <3>5
    <2>7. ASSUME Active', NEW r, r = rec', OnItsWay(Final(r))' PROVE FALSE
      <3>1. OnItsWay(Final(r)) \/ \E n \in 1 .. Len(es) : es[n] = Final(r)
        BY <2>2, <2>7
      <3>2. CASE rec' = rec
        <4>1. Active /\ ~OnItsWay(Final(r))
          BY <1>1, <2>5, <2>7, <3>2 DEF Line
        <4>2. state' # "Idle"
          BY <2>7 DEF Active
        <4> QED
          BY <2>1, <2>3, <3>1, <4>1, <4>2
      <3>3. CASE rec' = rec + 1
        <4>1. ~OnItsWay(Final(r))
          BY <2>1, <2>5, <2>7, <3>3 DEF Line, OnItsWay
        <4> QED
          BY <2>1, <2>3, <2>5, <3>1, <3>3, <4>1
      <3> QED
        BY <2>5, <3>2, <3>3
    <2>8. Line'
      BY <2>4, <2>6, <2>7 DEF Line
    <2>9. ASSUME NEW r \in Recs, Pending(r)'
          PROVE  Pending(r) \/ (r = rec' /\ rec' = rec + 1)
      <3>1. CASE r = rec' /\ Active'
        BY <1>1, <2>5, <3>1 DEF Pending
      <3>2. CASE OnItsWay(Final(r))'
        <4>1. OnItsWay(Final(r)) \/ \E n \in 1 .. Len(es) : es[n] = Final(r)
          BY <2>2, <3>2
        <4>2. CASE OnItsWay(Final(r))
          BY <4>2 DEF Pending
        <4>3. ASSUME NEW n \in 1 .. Len(es), es[n] = Final(r) PROVE Pending(r)
          <5>1. r = rec /\ Active
            BY <2>1, <2>3, <4>3
          <5> QED
            BY <5>1 DEF Pending
        <4> QED
          BY <4>1, <4>2, <4>3
      <3> QED
        BY <2>9, <3>1, <3>2 DEF Pending
    <2>10. ASSUME Clear, ~Clear'
           PROVE  Active /\ rec' = rec /\ \A r \in Recs : r = rec => ~Pending(r)'
      <3>1. PICK n \in 1 .. Len(es) : es[n] \in {StateChanged("Error"), StateChanged("Cancelled")}
        BY <2>2, <2>10 DEF Clear
      <3>2. /\ Active /\ state' \in {"Idle", "Cancelled"} /\ rec' = rec
            /\ \A m \in 1 .. Len(es) : es[m].event # "final"
        BY <1>3, <2>1, <3>1
      <3>3. ~Active'
        BY <3>2 DEF Active
      <3>4. ASSUME NEW r \in Recs, r = rec PROVE ~Pending(r)'
        <4>1. ~OnItsWay(Final(r))
          BY <3>2, <3>4 DEF Line
        <4>2. ~OnItsWay(Final(r))'
          BY <2>1, <2>2, <3>2, <4>1
        <4> QED
          BY <3>3, <4>2 DEF Pending
      <3> QED
        BY <3>2, <3>4
    <2> QED
      BY <2>8, <2>9, <2>10
  <1>4. \/ rec' = rec /\ given' = given
        \/ rec' = rec + 1 /\ Begin(w)
    BY <1>1
  <1> QED
    BY <1>2, <1>3, <1>4, Sayings
(* A step of the daemon that begins no recording disturbs nobody.           *)
LEMMA GoesOn ==
    ASSUME TInv, TInv', OInv, UNCHANGED <<link, globals, calmness>>, NEW w,
           Begin(w) \/ Stop \/ Cancel \/ Settle \/ UNCHANGED <<state, rec, given, events>>,
           cmds' = cmds \/ (cmds # <<>> /\ cmds' = Tail(cmds)),
           rec' = rec
    PROVE  OInv'
  <1>0. Counts /\ Wires /\ Numbered
    BY Types, Zenon DEF TInv
  <1>a. UNCHANGED <<loaded, targetWindow, injected, calmKey, calm>>
    BY DEF globals, calmness
  <1>b. rec \in Nat
    BY <1>0, PluginAssumption DEF Counts
  <1>1. /\ Line' /\ given' = given
        /\ \A r \in Recs : Pending(r)' => Pending(r)
        /\ Clear' \/ ~Clear \/ (Active /\ \A r \in Recs : r = rec => ~Pending(r)')
    BY <1>b, DaemonSays DEF OInv
  <1>2. OwnTarget' /\ Past'
    BY <1>a, <1>1 DEF OInv, OwnTarget, Past
  <1>3. Linked'
    BY <1>a DEF OInv, Linked
  <1>4. Active => rec \in Recs /\ Pending(rec)
    BY <1>0 DEF Active, Numbered, Pending
  <1>5. \A n \in 1 .. Len(cmds') : \E m \in 1 .. Len(cmds) : cmds'[n] = cmds[m]
    <2>1. CASE cmds' = cmds
      BY <2>1
    <2>2. CASE cmds # <<>> /\ cmds' = Tail(cmds)
      <3>1. \A n \in 1 .. Len(cmds') : n + 1 \in 1 .. Len(cmds) /\ cmds'[n] = cmds[n + 1]
        BY <1>0, <2>2 DEF Wires
      <3> QED
        BY <3>1
    <2> QED
      BY <2>1, <2>2
  <1>6. KeyInv'
    <2>1. ASSUME calmKey = TRUE, NEW n \in 1 .. Len(cmds'), cmds'[n].cmd = "start"
          PROVE  cmds'[n].win = targetWindow' /\ Clear' /\ \A r \in Recs : ~Pending(r)'
      <3>1. PICK m \in 1 .. Len(cmds) : cmds'[n] = cmds[m]
        BY <1>5
      <3>2. cmds[m].win = targetWindow /\ Clear /\ \A r \in Recs : ~Pending(r)
        BY <2>1, <3>1 DEF OInv, KeyInv
      <3> QED
        BY <1>a, <1>1, <1>4, <3>1, <3>2
    <2> QED
      BY <1>a, <2>1 DEF KeyInv
  <1>7. CalmInv'
    <2>1. ASSUME NEW r \in calm, Pending(r)'
          PROVE  targetWindow' = given'[r] /\ Clear' /\ \A q \in Recs : Pending(q)' => q = r
      <3>1. r \in Recs
        BY <1>0 DEF Counts
      <3>2. Pending(r)
        BY <1>1, <2>1, <3>1
      <3>3. targetWindow = given[r] /\ Clear /\ \A q \in Recs : Pending(q) => q = r
        BY <3>2 DEF OInv, CalmInv
      <3>4. Clear'
        BY <1>1, <1>4, <2>1, <3>1, <3>3
      <3> QED
        BY <1>a, <1>1, <3>3, <3>4
    <2> QED
      BY <1>a, <2>1 DEF CalmInv
  <1> QED
    BY <1>1, <1>2, <1>3, <1>6, <1>7 DEF OInv

(* A recording that begins disturbs what is under way, unless nothing is.   *)
LEMMA Begins ==
    ASSUME TInv, TInv', OInv, UNCHANGED <<link, globals>>, NEW w, NEW asked,
           Begin(w), Disturb(asked), rec' = rec + 1,
           cmds' = cmds \/ (cmds # <<>> /\ cmds' = Tail(cmds)),
           asked => /\ calmKey = TRUE /\ 1 \in 1 .. Len(cmds)
                    /\ cmds[1].cmd = "start" /\ cmds[1].win = w
    PROVE  OInv'
  <1>0. Counts /\ Counts' /\ Windowed
    BY Types, Zenon DEF TInv, TypeOK, Counts
  <1>a. UNCHANGED <<loaded, targetWindow, injected>>
    BY DEF globals
  <1>b. rec \in Nat /\ rec' \in Recs
    BY <1>0, PluginAssumption DEF Counts, Recs
  <1>1. /\ Line'
        /\ \A r \in Recs : Pending(r)' => Pending(r) \/ r = rec'
        /\ Clear' \/ ~Clear
    BY <1>b, DaemonSays DEF OInv
  <1>2. calmKey' = FALSE /\ calm' = Undisturbed \union (IF asked THEN {rec'} ELSE {})
    BY <1>b DEF Disturb
  <1>3. given'[rec'] = w /\ \A r \in 1 .. rec : given'[r] = given[r] /\ r # rec'
    BY <1>0, <1>b DEF Begin, Windowed
  <1>4. Past'
    <2>1. calm \subseteq 1 .. rec /\ \A i \in injected : i[1] \in 1 .. rec
      BY DEF OInv, Past
    <2>2. \A r \in 1 .. rec : r \in 1 .. rec'
      BY <1>b
    <2>3. rec' \in 1 .. rec'
      BY <1>b
    <2> QED
      BY <1>a, <1>2, <2>1, <2>2, <2>3 DEF Past, Undisturbed
  <1>5. OwnTarget'
    BY <1>a, <1>2, <1>3 DEF OInv, OwnTarget, Past, Undisturbed
  <1>6. Linked' /\ KeyInv'
    BY <1>a, <1>2 DEF OInv, Linked, KeyInv
  <1>7. CalmInv'
    <2>1. ASSUME NEW r \in calm', Pending(r)'
          PROVE  targetWindow' = given'[r] /\ Clear' /\ \A q \in Recs : Pending(q)' => q = r
      <3>1. CASE r \in calm /\ ~Pending(r)
        <4>1. r \in Recs /\ r # rec'
          BY <1>0, <1>3, <3>1 DEF OInv, Past, Counts
        <4> QED
          BY <1>1, <2>1, <3>1, <4>1
      <3>2. CASE asked /\ r = rec'
        <4>1. w = targetWindow /\ Clear /\ \A q \in Recs : ~Pending(q)
          BY <3>2 DEF OInv, KeyInv
        <4> QED
          BY <1>a, <1>1, <1>3, <3>2, <4>1
      <3> QED
        BY <1>2, <2>1, <3>1, <3>2 DEF Undisturbed
    <2> QED
      BY <2>1 DEF CalmInv
  <1> QED
    BY <1>1, <1>4, <1>5, <1>6, <1>7 DEF OInv

(* What neither begins nor ends a recording: nothing new comes but a state.  *)
LEMMA Kept ==
    ASSUME TInv, OInv, UNCHANGED <<given, rec>>, state' \in {state, "Idle"},
           Once(events'),
           \A n \in 1 .. Len(events') :
              events'[n].event # "state" => \E m \in 1 .. Len(events) : events'[n] = events[m],
           calm' \subseteq calm,
           \A r \in calm' : Pending(r)' => targetWindow' = targetWindow /\ (Clear => Clear'),
           \A i \in injected' :
              \/ i \in injected
              \/ i[1] \in 1 .. rec /\ (i[1] \in calm => i[2] = given[i[1]]),
           KeyInv', Linked'
    PROVE  OInv'
  <1>0. Counts
    BY Types, Zenon DEF TInv
  <1>1. OwnTarget' /\ Past'
    BY DEF OInv, OwnTarget, Past
  <1>2. \A r : OnItsWay(Final(r))' => OnItsWay(Final(r))
    BY DEF OnItsWay, Final
  <1>3. Active' => Active
    BY DEF Active
  <1>4. \A r \in Recs : Pending(r)' => Pending(r)
    BY <1>2, <1>3 DEF Pending
  <1>5. Line'
    <2>1. \A n \in 1 .. Len(events') : events'[n].event = "final" => events'[n].value \in 1 .. rec'
      BY DEF OInv, Line
    <2>2. ASSUME Active', NEW r, r = rec' PROVE ~OnItsWay(Final(r))'
      BY <1>2, <1>3, <2>2 DEF OInv, Line
    <2> QED
      BY <2>1, <2>2 DEF Line
  <1>6. CalmInv'
    <2>1. ASSUME NEW r \in calm', Pending(r)'
          PROVE  targetWindow' = given'[r] /\ Clear' /\ \A q \in Recs : Pending(q)' => q = r
      <3>1. r \in calm /\ Pending(r)
        BY <1>0, <1>4, <2>1 DEF Counts
      <3>2. targetWindow = given[r] /\ Clear /\ \A q \in Recs : Pending(q) => q = r
        BY <3>1 DEF OInv, CalmInv
      <3> QED
        BY <1>4, <2>1, <3>2
    <2> QED
      BY <2>1 DEF CalmInv
  <1> QED
    BY <1>1, <1>5, <1>6 DEF OInv

\* The key stays what it was if no start is sent.
LEMMA KeyKept ==
    ASSUME TInv, OInv, UNCHANGED rec, state' \in {state, "Idle"},
           \A n \in 1 .. Len(events') :
              events'[n].event # "state" => \E m \in 1 .. Len(events) : events'[n] = events[m],
           calmKey' = TRUE => calmKey = TRUE,
           \A n \in 1 .. Len(cmds') :
              cmds'[n].cmd = "start" =>
                 /\ \E m \in 1 .. Len(cmds) : cmds'[n] = cmds[m]
                 /\ targetWindow' = targetWindow \/ calmKey' = FALSE
                 /\ Clear => Clear'
    PROVE  KeyInv'
  <1>1. \A r \in Recs : Pending(r)' => Pending(r)
    BY DEF OnItsWay, Final, Pending, Active
  <1>2. ASSUME calmKey' = TRUE, NEW n \in 1 .. Len(cmds'), cmds'[n].cmd = "start"
        PROVE  cmds'[n].win = targetWindow' /\ Clear' /\ \A r \in Recs : ~Pending(r)'
    <2>1. PICK m \in 1 .. Len(cmds) : cmds'[n] = cmds[m]
      BY <1>2
    <2>2. cmds[m].win = targetWindow /\ Clear /\ \A r \in Recs : ~Pending(r)
      BY <1>2, <2>1 DEF OInv, KeyInv
    <2> QED
      BY <1>1, <1>2, <2>1, <2>2
  <1> QED
    BY <1>2 DEF KeyInv

LEMMA Fewer ==
    ASSUME Wires, Once(events),
           events' \in {events, <<>>} \/ (events # <<>> /\ events' = Tail(events))
    PROVE  /\ Once(events')
           /\ \A n \in 1 .. Len(events') : \E m \in 1 .. Len(events) : events'[n] = events[m]
           /\ \A e : OnItsWay(e)' => OnItsWay(e)
           /\ Clear => Clear'
  <1>1. CASE events' = events
    BY <1>1 DEF OnItsWay, Clear
  <1>2. CASE events' = <<>>
    BY <1>2 DEF OnItsWay, Clear, Once
  <1>3. CASE events # <<>> /\ events' = Tail(events)
    <2>1. /\ \A n \in 1 .. Len(events') : n + 1 \in 1 .. Len(events) /\ events'[n] = events[n + 1]
          /\ Len(events') \in Nat
      BY <1>3 DEF Wires
    <2>2. Once(events')
      <3>1. ASSUME NEW m \in 1 .. Len(events'), NEW n \in 1 .. Len(events'),
                   events'[m] = events'[n], events'[m].event = "final"
            PROVE  m = n
        <4>1. m + 1 = n + 1
          BY <2>1, <3>1 DEF Once
        <4> QED
          BY <2>1, <4>1
      <3> QED
        BY <3>1 DEF Once
    <2> QED
      BY <2>1, <2>2 DEF OnItsWay, Clear
  <1> QED
    BY <1>1, <1>2, <1>3

(* Reading: the target goes when a recording fails, is cancelled, or its     *)
(* text has come, and none of these is about a calm recording to come.      *)
LEMMA ReadOwn == ASSUME TInv, OInv, ReceiveEvent PROVE OInv'
  <1>0. Wires /\ Counts
    BY Types, Zenon DEF TInv
  <1>1. /\ UNCHANGED <<state, rec, given, link, cmds, loaded, calmKey, calm>>
        /\ events # <<>> /\ events' = Tail(events) /\ Head(events) = events[1]
        /\ 1 \in 1 .. Len(events) /\ events[1] \in Events
    BY <1>0 DEF ReceiveEvent, daemon, users, calmness, Wires
  <1>2. /\ Once(events')
        /\ \A n \in 1 .. Len(events') : \E m \in 1 .. Len(events) : events'[n] = events[m]
        /\ \A e : OnItsWay(e)' => OnItsWay(e)
        /\ Clear => Clear'
    BY <1>0, <1>1, Fewer DEF OInv, Line
  <1>3. Linked'
    BY <1>1 DEF OInv, Linked
  <1>4. \A r : Pending(r)' => Pending(r)
    BY <1>1, <1>2 DEF Pending, Active
  <1>5. \/ targetWindow' = targetWindow /\ injected' = injected
        \/ targetWindow' = NoWindow /\ injected' = injected /\ ~Clear
        \/ \E q \in Recs : events[1] = Final(q) /\ injected' = injected \union {<<q, targetWindow>>}
    <2>1. CASE events[1].event = "state"
      <3>1. OnDaemonState(events[1].value) /\ events[1] = StateChanged(events[1].value)
        BY <1>1, <2>1 DEF ReceiveEvent, Events, StateChanged
      <3>2. events[1].value \in {"Error", "Cancelled"} => ~Clear
        BY <1>1, <3>1 DEF Clear, OnItsWay
      <3> QED
        BY <3>1, <3>2 DEF OnDaemonState
    <2>2. CASE events[1].event # "state"
      <3>1. PICK q \in Recs : events[1] = Final(q)
        BY <1>1, <2>2 DEF Events, Final
      <3>2. OnFinalTranscript(q)
        BY <1>1, <3>1 DEF ReceiveEvent, Final
      <3> QED
        BY <3>1, <3>2 DEF OnFinalTranscript
    <2> QED
      BY <2>1, <2>2
  <1>6. CASE targetWindow' = targetWindow /\ injected' = injected
    <2>1. KeyInv'
      BY <1>1, <1>2, <1>6, KeyKept
    <2> QED
      BY <1>1, <1>2, <1>3, <1>6, <2>1, Kept
  <1>7. CASE targetWindow' = NoWindow /\ injected' = injected /\ ~Clear
    <2>1. \A r \in calm : ~Pending(r)'
      BY <1>4, <1>7 DEF OInv, CalmInv
    <2>2. calmKey = TRUE => \A n \in 1 .. Len(cmds) : cmds[n].cmd # "start"
      BY <1>7 DEF OInv, KeyInv
    <2>3. KeyInv'
      BY <1>1, <2>2 DEF KeyInv
    <2> QED
      BY <1>1, <1>2, <1>3, <1>7, <2>1, <2>3, Kept
  <1>8. ASSUME NEW q \in Recs, events[1] = Final(q),
               injected' = injected \union {<<q, targetWindow>>}
        PROVE  OInv'
    <2>1. Pending(q)
      BY <1>1, <1>8 DEF Pending, OnItsWay
    <2>2. ~Pending(q)'
      <3>1. ~OnItsWay(Final(q))'
        <4>1. ASSUME NEW n \in 1 .. Len(events'), events'[n] = Final(q) PROVE FALSE
          <5>1. n + 1 \in 1 .. Len(events) /\ events'[n] = events[n + 1] /\ n + 1 # 1
            BY <1>0, <1>1 DEF Wires
          <5>2. events[1].event = "final"
            BY <1>8 DEF Final
          <5> QED
            BY <1>1, <1>8, <4>1, <5>1, <5>2 DEF OInv, Line, Once
        <4> QED
          BY <4>1 DEF OnItsWay
      <3>2. ~(q = rec /\ Active)
        BY <1>1, <1>8 DEF OInv, Line, OnItsWay
      <3> QED
        BY <1>1, <3>1, <3>2 DEF Pending, Active
    <2>3. \A r \in calm : ~Pending(r)'
      <3>1. ASSUME NEW r \in calm, Pending(r)' PROVE FALSE
        <4>1. q = r
          BY <1>4, <2>1, <3>1 DEF OInv, CalmInv
        <4> QED
          BY <2>2, <3>1, <4>1
      <3> QED
        BY <3>1
    <2>4. calmKey = TRUE => \A n \in 1 .. Len(cmds) : cmds[n].cmd # "start"
      BY <2>1 DEF OInv, KeyInv
    <2>5. KeyInv'
      BY <1>1, <2>4 DEF KeyInv
    <2>6. q \in 1 .. rec /\ (q \in calm => targetWindow = given[q])
      <3>1. events[1].event = "final" /\ events[1].value = q
        BY <1>8 DEF Final
      <3> QED
        BY <1>1, <2>1, <3>1 DEF OInv, Line, CalmInv
    <2> QED
      BY <1>1, <1>2, <1>3, <1>8, <2>3, <2>5, <2>6, Kept
  <1> QED
    BY <1>5, <1>6, <1>7, <1>8

(* A connection begins with the state, and not with an old failure.         *)
LEMMA ConnectOwn ==
    ASSUME TInv, OInv, Connect, loaded # "unloaded", link = "down",
           UNCHANGED <<daemon, cmds, targetWindow, injected, calmness>>
    PROVE  OInv'
  <1>1. UNCHANGED <<state, rec, given, calmKey, calm>>
    BY DEF daemon, calmness
  <1>2. cmds' = <<>>
    BY DEF OInv, Linked
  <1>3. events' = <<>> \/ events' = <<StateChanged(state)>>
    BY DEF Connect
  <1>4. /\ \A n \in 1 .. Len(events') : events'[n].event = "state" /\ events'[n] = StateChanged(state)
        /\ Once(events')
    BY <1>3 DEF StateChanged, Once
  <1>5. ASSUME NEW r, Pending(r)' PROVE Clear'
    <2>1. state \in {"Recording", "Transcribing"}
      BY <1>1, <1>4, <1>5 DEF Pending, OnItsWay, Final, Active
    <2> QED
      BY <1>4, <2>1 DEF Clear, OnItsWay, StateChanged
  <1>6. KeyInv' /\ Linked'
    BY <1>2 DEF KeyInv, Linked
  <1> QED
    BY <1>1, <1>4, <1>5, <1>6, Kept

(* A start key is calm if all is over; it disturbs whatever is not.         *)
LEMMA CaptureOwn ==
    ASSUME TInv, OInv, NEW w \in Maybe, Capture(w), loaded = "yes",
           UNCHANGED <<daemon, loaded, injected>>
    PROVE  OInv'
  <1>0. Wires /\ Names
    BY Types, Zenon DEF TInv
  <1>1. UNCHANGED <<state, rec, given>>
    BY DEF daemon
  <1>2. /\ targetWindow' = w /\ calmKey' = Over /\ calm' = Undisturbed /\ Send("start", w)
    BY DEF Capture
  <1>3. /\ Once(events')
        /\ \A n \in 1 .. Len(events') : \E m \in 1 .. Len(events) : events'[n] = events[m]
        /\ \A e : OnItsWay(e)' => OnItsWay(e)
        /\ Clear => Clear'
    <2>1. events' \in {events, <<>>}
      BY <1>2 DEF Send, HandleDisconnect
    <2> QED
      BY <1>0, <2>1, Fewer DEF OInv, Line
  <1>4. \A r : Pending(r)' => Pending(r)
    BY <1>1, <1>3 DEF Pending, Active
  <1>5. calm' \subseteq calm /\ \A r \in calm' : ~Pending(r)'
    BY <1>2, <1>4 DEF Undisturbed
  <1>6. CASE link = "up"
    <2>1. link' = "up" /\ cmds' = Append(cmds, [cmd |-> "start", win |-> w])
      BY <1>2, <1>6 DEF Send
    <2>2. ASSUME Over, NEW n \in 1 .. Len(cmds'), cmds'[n].cmd = "start"
          PROVE  cmds'[n].win = targetWindow' /\ Clear' /\ \A r \in Recs : ~Pending(r)'
      <3>1. \/ cmds'[n] = [cmd |-> "start", win |-> w]
            \/ n \in 1 .. Len(cmds) /\ cmds'[n] = cmds[n]
        BY <1>0, <2>1 DEF Wires
      <3>2. cmds'[n].win = w
        BY <2>2, <3>1 DEF Over
      <3> QED
        BY <1>2, <1>3, <1>4, <2>2, <3>2 DEF Over, Clear
    <2>3. KeyInv'
      BY <1>2, <2>2 DEF KeyInv
    <2>4. Linked'
      BY <2>1 DEF Linked
    <2> QED
      BY <1>1, <1>3, <1>5, <2>3, <2>4, Kept
  <1>7. CASE link # "up"
    <2>1. cmds' = <<>>
      BY <1>0, <1>2, <1>7 DEF Send, Names, OInv, Linked
    <2>2. KeyInv' /\ Linked'
      BY <2>1 DEF KeyInv, Linked
    <2> QED
      BY <1>1, <1>3, <1>5, <2>2, Kept
  <1> QED
    BY <1>6, <1>7

\* Any other key sends a command that begins nothing for a calm start key; if
\* it takes the target away it disturbs.
LEMMA SendOwn ==
    ASSUME TInv, OInv, NEW c, c # "start", Send(c, NoWindow), loaded = "yes",
           UNCHANGED <<daemon, loaded, injected>>,
           \/ UNCHANGED <<targetWindow, calmness>>
           \/ calmKey' = FALSE /\ calm' = Undisturbed
    PROVE  OInv'
  <1>0. Wires /\ Names
    BY Types, Zenon DEF TInv
  <1>1. UNCHANGED <<state, rec, given>>
    BY DEF daemon
  <1>2. /\ Once(events')
        /\ \A n \in 1 .. Len(events') : \E m \in 1 .. Len(events) : events'[n] = events[m]
        /\ \A e : OnItsWay(e)' => OnItsWay(e)
        /\ Clear => Clear'
    <2>1. events' \in {events, <<>>}
      BY DEF Send, HandleDisconnect
    <2> QED
      BY <1>0, <2>1, Fewer DEF OInv, Line
  <1>3. \A r : Pending(r)' => Pending(r)
    BY <1>1, <1>2 DEF Pending, Active
  <1>4. /\ calm' \subseteq calm
        /\ \A r \in calm' : Pending(r)' => targetWindow' = targetWindow
        /\ calmKey' = TRUE => calmKey = TRUE /\ targetWindow' = targetWindow
    BY <1>3 DEF Undisturbed, calmness
  <1>5. \A n \in 1 .. Len(cmds') :
           cmds'[n].cmd = "start" => \E m \in 1 .. Len(cmds) : cmds'[n] = cmds[m]
    <2>1. CASE cmds' = cmds
      BY <2>1
    <2>2. CASE cmds' = Append(cmds, [cmd |-> c, win |-> NoWindow])
      <3>1. \A n \in 1 .. Len(cmds') : \/ cmds'[n] = [cmd |-> c, win |-> NoWindow]
                                       \/ n \in 1 .. Len(cmds) /\ cmds'[n] = cmds[n]
        BY <1>0, <2>2 DEF Wires
      <3> QED
        BY <3>1
    <2> QED
      BY <2>1, <2>2 DEF Send
  <1>6. KeyInv'
    <2>1. ASSUME calmKey' = TRUE PROVE KeyInv'
      BY <1>1, <1>2, <1>4, <1>5, <2>1, KeyKept
    <2> QED
      BY <2>1 DEF KeyInv
  <1>7. Linked'
    BY <1>0 DEF Send, HandleDisconnect, OInv, Linked, Names
  <1> QED
    BY <1>1, <1>2, <1>4, <1>6, <1>7, Kept

LEMMA OwnStep == TInv /\ TInv' /\ MInv /\ OInv /\ [Next]_vars => OInv'
  <1> SUFFICES ASSUME TInv, TInv', MInv, OInv, [Next]_vars PROVE OInv'
    OBVIOUS
  <1>0. Counts /\ Counts' /\ Names /\ Windowed /\ Wires
    BY Types, Zenon DEF TInv, TypeOK, Counts
  <1>1. ASSUME NEW w, NEW asked, Disturb(asked),
               \/ Begin(w) \/ Stop \/ Cancel \/ Settle
               \/ UNCHANGED <<state, rec, given, events>>,
               UNCHANGED <<link, globals>>,
               cmds' = cmds \/ (cmds # <<>> /\ cmds' = Tail(cmds)),
               asked => /\ calmKey = TRUE /\ 1 \in 1 .. Len(cmds)
                        /\ cmds[1].cmd = "start" /\ (Begin(w) => cmds[1].win = w)
        PROVE  OInv'
    <2>1. rec \in Nat
      BY <1>0, PluginAssumption DEF Counts
    <2>2. CASE rec' = rec
      BY <1>1, <2>2, GoesOn DEF Disturb
    <2>3. CASE rec' # rec
      <3>1. Begin(w) /\ rec' = rec + 1
        BY <1>1, <2>3 DEF Begin, Stop, Cancel, Settle
      <3> QED
        BY <1>1, <3>1, Begins
    <2> QED
      BY <2>2, <2>3
  <1>2. CASE ReceiveCommand
    <2>1. /\ cmds # <<>> /\ Head(cmds) = cmds[1] /\ 1 \in 1 .. Len(cmds)
          /\ cmds' = Tail(cmds) /\ Handle(Head(cmds))
      BY <1>0, <1>2 DEF ReceiveCommand, Wires
    <2>2. UNCHANGED <<link, globals>> /\ Disturb(calmKey /\ Head(cmds).cmd = "start")
      BY <1>2 DEF ReceiveCommand
    <2>3. \/ Begin(cmds[1].win) \/ Stop \/ Cancel \/ Settle
          \/ UNCHANGED <<state, rec, given, events>>
      BY <2>1 DEF Handle
    <2>4. Disturb(calmKey /\ cmds[1].cmd = "start")
      BY <2>1, <2>2
    <2>5. PICK w, asked : w = cmds[1].win /\ asked = (calmKey /\ cmds[1].cmd = "start")
      OBVIOUS
    <2>6. asked => calmKey = TRUE /\ cmds[1].cmd = "start"
      BY <2>5
    <2> QED
      BY <1>1, <2>1, <2>2, <2>3, <2>4, <2>5, <2>6
  <1>3. CASE DaemonStep
    <2>1. UNCHANGED <<link, cmds, globals>> /\ Disturb(FALSE)
      BY <1>3 DEF DaemonStep
    <2>2. Begin(NoWindow) \/ Stop \/ Settle
      BY <1>3 DEF DaemonStep
    <2> QED
      BY <1>1, <2>1, <2>2
  <1>4. CASE DaemonDies
    <2>1. /\ state' = "Idle" /\ cmds' = <<>>
          /\ UNCHANGED <<rec, given, events, targetWindow, injected, calm>>
      BY <1>4 DEF DaemonDies, globals, users, calmness
    <2>2. /\ Once(events') /\ (Clear => Clear')
          /\ \A n \in 1 .. Len(events') : \E m \in 1 .. Len(events) : events'[n] = events[m]
      BY <1>0, <2>1, Fewer DEF OInv, Line
    <2>3. KeyInv' /\ Linked'
      BY <2>1 DEF KeyInv, Linked
    <2> QED
      BY <2>1, <2>2, <2>3, Kept
  <1>5. CASE ReceiveEvent
    BY <1>5, ReadOwn
  <1>6. ASSUME HandleDisconnect, loaded = "yes",
               UNCHANGED <<daemon, cmds, targetWindow, injected, calmness>>,
               loaded' = "unloaded" \/ cmds = <<>>
        PROVE  OInv'
    <2>1. UNCHANGED <<state, rec, given, calmKey, calm>> /\ events' = <<>>
      BY <1>6 DEF HandleDisconnect, daemon, calmness
    <2>2. Once(events') /\ (Clear => Clear')
      BY <2>1 DEF Once, Clear, OnItsWay
    <2>a. \A n \in 1 .. Len(events') : FALSE
      BY <2>1
    <2>b. cmds' = cmds /\ targetWindow' = targetWindow
      BY <1>6
    <2>c. \A n \in 1 .. Len(cmds') : \E m \in 1 .. Len(cmds) : cmds'[n] = cmds[m]
      BY <2>b
    <2>3. KeyInv'
      BY <2>1, <2>2, <2>a, <2>b, <2>c, KeyKept
    <2>4. Linked'
      BY <1>6 DEF Linked
    <2> QED
      BY <1>6, <2>1, <2>2, <2>3, <2>4, Kept
  <1>7. CASE OnHangup
    <2>1. cmds = <<>>
      BY <1>7 DEF OnHangup, OInv, Linked
    <2> QED
      BY <1>6, <1>7, <2>1 DEF OnHangup, globals, users
  <1>8. CASE PluginExit
    BY <1>6, <1>8 DEF PluginExit, users
  <1>9. CASE Reconnect
    BY <1>9, ConnectOwn DEF Reconnect, users
  <1> DEFINE Same == UNCHANGED <<daemon, wires, targetWindow, injected, calmness>>
  <1>10. ASSUME Same, loaded' # "unloaded" => loaded # "unloaded" PROVE OInv'
    <2>1. UNCHANGED <<state, rec, given, link, cmds, events, calmKey, calm>>
      BY <1>10 DEF daemon, wires, calmness
    <2>2. /\ Once(events') /\ (Clear => Clear')
          /\ \A n \in 1 .. Len(events') : \E m \in 1 .. Len(events) : events'[n] = events[m]
      BY <1>0, <2>1, Fewer DEF OInv, Line
    <2>3. KeyInv'
      BY <1>10, <2>1, <2>2, KeyKept
    <2>4. Linked'
      BY <1>10, <2>1 DEF OInv, Linked
    <2> QED
      BY <1>10, <2>1, <2>2, <2>3, <2>4, Kept
  <1>11. CASE PluginInit
    <2>1. UNCHANGED <<daemon, cmds, targetWindow, injected, calmness>>
          /\ loaded = "no" /\ loaded' = "yes"
      BY <1>11 DEF PluginInit, users
    <2>2. CASE UNCHANGED <<link, events, cutLine, synced>>
      BY <1>10, <2>1, <2>2 DEF wires
    <2>3. CASE Connect
      BY <2>1, <2>3, ConnectOwn DEF MInv
    <2> QED
      BY <1>11, <2>2, <2>3 DEF PluginInit
  <1>12. CASE Dispatch
    <2>1. UNCHANGED <<daemon, loaded, injected>> /\ loaded = "yes"
      BY <1>12 DEF Dispatch
    <2>2. ASSUME NEW w \in open \union {NoWindow},
                 DispatchToggle(w) \/ DispatchPttDown(w)
          PROVE  OInv'
      <3>1. w \in Maybe
        BY <1>0 DEF Windowed, Maybe
      <3>2. CASE Capture(w)
        BY <2>1, <3>1, <3>2, CaptureOwn
      <3> QED
        BY <2>1, <2>2, <3>2, SendOwn DEF DispatchToggle, DispatchPttDown
    <2>3. CASE DispatchPttUp \/ DispatchCancel
      BY <2>1, <2>3, SendOwn DEF DispatchPttUp, DispatchCancel
    <2> QED
      BY <1>12, <2>2, <2>3 DEF Dispatch
  <1>13. ASSUME NEW w \in Windows, CloseWindow(w) PROVE OInv'
    BY <1>10, <1>13 DEF CloseWindow, globals, users
  <1>14. CASE DaemonRestarts
    <2>1. UNCHANGED <<state, rec, given, wires, globals, calmness>>
      BY <1>14 DEF DaemonRestarts, users
    <2>2. UNCHANGED <<link, cmds, events, loaded, targetWindow, injected, calmKey, calm>>
      BY <2>1 DEF wires, globals, calmness
    <2>3. /\ Once(events') /\ (Clear => Clear')
          /\ \A n \in 1 .. Len(events') : \E m \in 1 .. Len(events) : events'[n] = events[m]
      BY <1>0, <2>2, Fewer DEF OInv, Line
    <2>4. KeyInv'
      BY <2>1, <2>2, <2>3, KeyKept
    <2>5. Linked'
      BY <2>2 DEF OInv, Linked
    <2> QED
      BY <2>1, <2>2, <2>3, <2>4, <2>5, Kept
  <1>15. CASE Rest \/ UNCHANGED vars
    BY <1>10, <1>15 DEF Rest, vars, globals, users
  <1> QED
    BY <1>2, <1>3, <1>4, <1>5, <1>7, <1>8, <1>9, <1>11, <1>12, <1>13, <1>14,
       <1>15, Zenon DEF Next

(* The text of a recording nobody disturbed finds the window its start key   *)
(* captured, for any number of windows, recordings, keys and daemons that    *)
(* die, and whoever else records.                                          *)
THEOREM TextsToTheirOwn == Spec => []OwnTarget
  <1>1. Init => IInv /\ TInv /\ MInv /\ OInv
    BY IInvInit, TInvInit, MirrorInit, OwnInit
  <1>2. IInv /\ TInv /\ MInv /\ OInv /\ [Next]_vars => (IInv /\ TInv /\ MInv /\ OInv)'
    BY TypesStep, MirrorStep, OwnStep, Zenon
  <1>3. OInv => OwnTarget
    BY DEF OInv
  <1> QED
    BY <1>1, <1>2, <1>3, PTL DEF Spec
=============================================================================
