------------------------------ MODULE Injector ------------------------------
(***************************************************************************)
(* The plugin's injection of a final transcript: class Injector of         *)
(* plugin/src/injector.cpp and the gate of injection_gate.hpp.  A text     *)
(* waits, polled by a timer, until every key, button and modifier is       *)
(* released, or is dropped at a deadline.  Then the keyboard focus moves   *)
(* to the target, wtype types into whatever has the focus, and the focus   *)
(* moves back when wtype has exited.                                       *)
(*                                                                         *)
(* The handlers run on the compositor's thread, which also sees what the   *)
(* user does; between them, and inside of launchInject, act the clock and  *)
(* the wtype process.  Time is counted in ticks of the poll interval since *)
(* startInject.  Definitions marked "Faulty:" are no part of the model;    *)
(* see README.md.                                                          *)
(***************************************************************************)
EXTENDS Naturals

CONSTANTS
    Windows,      \* windows, as PHLWINDOWREF may refer to them
    NoWindow,     \* nothing: an expired or empty reference
    Timeout,      \* kInjectionTimeoutMs / kInjectionPollMs
    MaxTexts      \* bound on the texts accepted for injection

ASSUME InjectorAssumption ==
    /\ NoWindow \notin Windows
    /\ Timeout \in Nat \ {0}
    /\ MaxTexts \in Nat \ {0}

VARIABLES
    loaded,       \* the plugin is loaded
    open,         \* windows that exist
    focus,        \* the seat's keyboard focus
    held,         \* physical keys, buttons or modifiers are down
    timer,        \* m_releaseTimer is armed
    pending,      \* m_pendingWindow
    elapsed,      \* ticks since startInject, as far as they matter
    wtype,        \* the child: none, typing, exited (a zombie)
    launching,    \* launchInject has spawned it and not returned,
    watched,      \* m_pidfd and m_source: its exit will be seen
    savedFocus,   \* m_savedFocus
    userFocus,    \* history: the focus a text found, or the user set since,
    target,       \*          the window of the text in hand,
    typedInto,    \*          the windows that text was typed into,
    moved,        \*          the focus moved before it was given back,
    texts         \*          the number of texts accepted

world     == <<open, focus, held, userFocus>>
queue     == <<timer, pending, elapsed>>
injection == <<wtype, launching, watched, savedFocus>>
text      == <<target, typedInto, moved, texts>>
vars      == <<loaded, world, queue, injection, text>>

Refs == Windows \union {NoWindow}

TypeOK ==
    /\ loaded \in BOOLEAN
    /\ open \subseteq Windows
    /\ focus \in open \union {NoWindow}
    /\ userFocus \in Refs
    /\ held \in BOOLEAN
    /\ timer \in BOOLEAN
    /\ pending \in Refs /\ savedFocus \in Refs /\ target \in Refs
    /\ elapsed \in 0 .. Timeout
    /\ wtype \in {"none", "typing", "exited"}
    /\ launching \in BOOLEAN /\ watched \in BOOLEAN
    /\ typedInto \subseteq Windows
    /\ moved \in BOOLEAN
    /\ texts \in 0 .. MaxTexts

Init ==
    /\ loaded = TRUE
    /\ open = Windows
    /\ focus \in Windows /\ userFocus = focus
    /\ held = FALSE
    /\ timer = FALSE /\ pending = NoWindow /\ elapsed = 0
    /\ wtype = "none" /\ launching = FALSE /\ watched = FALSE
    /\ savedFocus = NoWindow
    /\ target = NoWindow /\ typedInto = {} /\ moved = FALSE /\ texts = 0

-----------------------------------------------------------------------------
(* Helpers.                                                                *)

IsBusy == timer \/ watched

\* Faulty: a release that came late still counts.
GateReleaseWins(anyInput, timedOut) ==
    IF ~anyInput THEN "Inject" ELSE IF timedOut THEN "Drop" ELSE "Wait"

\* Faulty: the deadline is looked at only once the input is released.
GateInputFirst(anyInput, timedOut) ==
    IF anyInput THEN "Wait" ELSE IF timedOut THEN "Drop" ELSE "Inject"

\* injectionGateDecision: the deadline wins over a release that came late.
InjectionGateDecision(anyInput, timedOut) ==
    IF timedOut THEN "Drop" ELSE IF anyInput THEN "Wait" ELSE "Inject"

ClearPending ==
    /\ timer' = FALSE
    /\ pending' = NoWindow
    /\ elapsed' = 0

\* restoreFocus, unless the saved surface is gone by now.
RestoreFocus(current) ==
    /\ focus' = IF savedFocus \in open THEN savedFocus ELSE current
    /\ savedFocus' = NoWindow

\* terminateChild kills and reaps what runs, then restores the focus.
TerminateChild ==
    /\ wtype' = "none"
    /\ launching' = FALSE /\ watched' = FALSE
    /\ RestoreFocus(focus)

-----------------------------------------------------------------------------
(* The handlers.                                                           *)

\* onDaemonTranscript hands over a final text; a busy injector or an expired
\* window rejects it and nothing changes.
StartInject(w) ==
    /\ loaded /\ ~launching /\ texts < MaxTexts
    /\ ~IsBusy /\ w \in open
    /\ timer' = TRUE
    /\ pending' = w
    /\ elapsed' = 0
    /\ target' = w /\ typedInto' = {} /\ moved' = FALSE /\ texts' = texts + 1
    /\ userFocus' = focus
    /\ UNCHANGED <<loaded, open, focus, held, injection>>

\* pollInputRelease: keep waiting, or give up at the deadline.
PollDrop ==
    /\ timer
    /\ InjectionGateDecision(held, elapsed = Timeout) = "Drop"
    /\ ClearPending
    /\ UNCHANGED <<loaded, world, injection, text>>

\* pollInputRelease and launchInject give up: the target is gone, the deadline
\* passed in between; or the child could not be spawned, and the focus went to
\* the target and back.
LaunchFails ==
    /\ timer
    /\ InjectionGateDecision(held, elapsed = Timeout) = "Inject"
    /\ ClearPending
    /\ UNCHANGED <<loaded, world, injection, text>>

\* Faulty: the focus stays where it is.
LaunchUnfocused ==
    /\ timer
    /\ InjectionGateDecision(held, elapsed = Timeout) = "Inject"
    /\ pending \in open
    /\ ClearPending
    /\ savedFocus' = focus
    /\ wtype' = "typing" /\ launching' = TRUE
    /\ UNCHANGED <<loaded, world, watched, text>>

\* launchInject redirects the focus and spawns the child.
Launch ==
    /\ timer
    /\ InjectionGateDecision(held, elapsed = Timeout) = "Inject"
    /\ pending \in open
    /\ ClearPending
    /\ savedFocus' = focus
    /\ focus' = pending
    /\ wtype' = "typing" /\ launching' = TRUE
    /\ UNCHANGED <<loaded, open, held, userFocus, watched, text>>

\* It opens a pidfd and hands it to the event loop.
Watch ==
    /\ launching
    /\ launching' = FALSE /\ watched' = TRUE
    /\ UNCHANGED <<loaded, world, queue, wtype, savedFocus, text>>

\* Faulty: the child that cannot be watched is left to itself.
WatchFailsLeaves ==
    /\ launching
    /\ launching' = FALSE
    /\ RestoreFocus(focus)
    /\ UNCHANGED <<loaded, open, held, userFocus, queue, wtype, watched, text>>

\* One of the two fails: the child, which may have begun to type or ended, is
\* terminated.
WatchFails ==
    /\ launching
    /\ TerminateChild
    /\ UNCHANGED <<loaded, open, held, userFocus, queue, text>>

\* Faulty: the child is reaped and the focus is left where it is.
FinishInjectKeepsFocus ==
    /\ watched /\ wtype = "exited"
    /\ wtype' = "none"
    /\ watched' = FALSE
    /\ savedFocus' = NoWindow
    /\ UNCHANGED <<loaded, world, queue, launching, text>>

\* onPidfdReady and finishInject: reap the child and give the focus back.
FinishInject ==
    /\ watched /\ wtype = "exited"
    /\ wtype' = "none"
    /\ watched' = FALSE
    /\ RestoreFocus(focus)
    /\ UNCHANGED <<loaded, open, held, userFocus, queue, launching, text>>

\* ~Injector, when the plugin is unloaded.
Destroy ==
    /\ loaded /\ ~launching
    /\ loaded' = FALSE
    /\ ClearPending
    /\ TerminateChild
    /\ UNCHANGED <<open, held, userFocus, text>>

-----------------------------------------------------------------------------
(* The world.                                                              *)

\* One tick; the wait in the timer callback rearms it for another.
Tick ==
    /\ timer /\ elapsed < Timeout
    /\ elapsed' = elapsed + 1
    /\ UNCHANGED <<loaded, world, timer, pending, injection, text>>

PressOrRelease ==
    /\ ~launching
    /\ held' = ~held
    /\ UNCHANGED <<loaded, open, focus, userFocus, queue, injection, text>>

UserFocuses(w) ==
    /\ ~launching /\ w \in open /\ w # focus
    /\ focus' = w /\ userFocus' = w
    /\ moved' = (moved \/ wtype # "none")
    /\ UNCHANGED <<loaded, open, held, queue, injection, target, typedInto,
                   texts>>

\* A window closes; the compositor focuses another one, if there is one.
Closes(w) ==
    /\ ~launching /\ w \in open
    /\ open' = open \ {w}
    /\ IF w = focus
       THEN /\ focus' \in IF open' = {} THEN {NoWindow} ELSE open'
            /\ userFocus' = focus'
       ELSE /\ UNCHANGED focus
            /\ userFocus' = IF w = userFocus THEN focus ELSE userFocus
    /\ moved' = (moved \/ (wtype # "none" /\ w = focus))
    /\ UNCHANGED <<loaded, held, queue, injection, target, typedInto, texts>>

\* wtype's virtual keyboard feeds the focused surface.
WtypeTypes ==
    /\ wtype = "typing" /\ focus \in Windows
    /\ typedInto' = typedInto \union {focus}
    /\ UNCHANGED <<loaded, world, queue, injection, target, moved, texts>>

WtypeExits ==
    /\ wtype = "typing"
    /\ wtype' = "exited"
    /\ UNCHANGED <<loaded, world, queue, launching, watched, savedFocus, text>>

Poll   == PollDrop \/ LaunchFails \/ Launch
Return == Watch \/ WatchFails

Next ==
    \/ \E w \in Windows : StartInject(w) \/ UserFocuses(w) \/ Closes(w)
    \/ Poll \/ Return \/ FinishInject \/ Destroy
    \/ Tick \/ PressOrRelease \/ WtypeTypes \/ WtypeExits

\* Timers fire, launchInject returns, children end and their end is noticed;
\* users do as they like.
Fairness ==
    /\ WF_vars(Poll) /\ WF_vars(Return) /\ WF_vars(FinishInject)
    /\ WF_vars(Tick) /\ WF_vars(WtypeExits)

Spec == Init /\ [][Next]_vars
FairSpec == Spec /\ Fairness

-----------------------------------------------------------------------------
(* Properties.                                                             *)

(* Injection is one at a time: a text never waits while another is typed,  *)
(* and once launchInject has returned, whichever way, a child that is not   *)
(* reaped is watched, so that the injector cannot stay busy, or leave a     *)
(* zombie or a stray wtype, for good.                                       *)
OneWatchedInjection ==
    /\ ~(timer /\ wtype # "none")
    /\ ~launching => watched = (wtype # "none")
    /\ ~loaded => ~timer /\ wtype = "none"

(* When no child runs, the keyboard focus is where the user put it: every  *)
(* way out of an injection undoes the redirection.                         *)
FocusGivenBack ==
    wtype = "none" =>
        /\ savedFocus = NoWindow
        /\ ~moved => focus = userFocus

(* The text goes to the window that was its target and to no other, unless *)
(* the focus moves during the injection.                                    *)
TypedIntoTargetIfStill == ~moved => typedInto \subseteq {target}

(* README: injection starts only with all physical input released, and is  *)
(* dropped at the deadline, even if the input was released just after it.  *)
StartsWithInputReleased ==
    [][wtype = "none" /\ wtype' # "none" =>
          ~held /\ elapsed < Timeout /\ focus' = target]_vars

(* The injector gets ready for the next text, whatever the user holds.     *)
BusyEnds == IsBusy \/ launching ~> ~IsBusy /\ ~launching
=============================================================================
