--------------------------- MODULE InjectorProofs ---------------------------
(***************************************************************************)
(* The safety properties of Injector, proved for every set of windows,     *)
(* every deadline and any number of texts.  They rest on where the focus   *)
(* is while a text waits, while wtype runs, and after it.                  *)
(***************************************************************************)
EXTENDS Injector, TLAPS

\* There is a child while it is launched or watched, and no text waits then.
ChildInv ==
    /\ ~(timer /\ (watched \/ launching))
    /\ ~(launching /\ watched)
    /\ (wtype # "none") = (launching \/ watched)
    /\ ~loaded => ~timer /\ ~watched /\ ~launching

\* While a text waits it is the one in hand, untouched.
WaitInv ==
    timer => pending = target /\ ~moved /\ typedInto = {}

\* The focus is nowhere only when there is no window; while wtype runs
\* undisturbed it is the target, and giving it back pleases the user.
FocusInv ==
    /\ open # {} => focus \in open
    /\ wtype = "none" =>
          /\ savedFocus = NoWindow
          /\ ~moved => focus = userFocus
    /\ wtype # "none" /\ ~moved =>
          /\ focus = target
          /\ userFocus = IF savedFocus \in open THEN savedFocus ELSE focus

TypedInv == ~moved => typedInto \subseteq {target}

IInv == TypeOK /\ ChildInv /\ WaitInv /\ FocusInv /\ TypedInv

USE DEF Refs, IsBusy, ClearPending, RestoreFocus, TerminateChild,
        InjectionGateDecision, world, queue, injection, text

-----------------------------------------------------------------------------
(* Initially nothing waits, nothing runs, and the focus is the user's.     *)
LEMMA IInvInit == Init => IInv
  <1>1. Init => elapsed \in 0 .. Timeout /\ texts \in 0 .. MaxTexts
    BY InjectorAssumption DEF Init
  <1>2. Init => TypeOK
    BY <1>1 DEF Init, TypeOK
  <1> QED
    BY <1>2 DEF Init, IInv, ChildInv, WaitInv, FocusInv, TypedInv

(* Every action keeps the types, the restored focus among them: it is      *)
(* given back only to a window that still exists.                          *)
LEMMA TypeStep == TypeOK /\ [Next]_vars => TypeOK'
  <1> SUFFICES ASSUME TypeOK, [Next]_vars PROVE TypeOK'
    OBVIOUS
  <1> USE InjectorAssumption
  <1>1. ASSUME NEW w \in Windows, StartInject(w) PROVE TypeOK'
    <2>1. elapsed' \in 0 .. Timeout /\ texts' \in 0 .. MaxTexts
      BY <1>1 DEF TypeOK, StartInject
    <2> QED
      BY <1>1, <2>1 DEF TypeOK, StartInject
  <1>2. ASSUME NEW w \in Windows, UserFocuses(w) PROVE TypeOK'
    BY <1>2 DEF TypeOK, UserFocuses
  <1>3. ASSUME NEW w \in Windows, Closes(w) PROVE TypeOK'
    <2>1. open' \subseteq Windows /\ focus' \in open' \union {NoWindow}
      BY <1>3 DEF TypeOK, Closes
    <2>2. userFocus' \in Refs /\ moved' \in BOOLEAN
      BY <1>3, <2>1 DEF TypeOK, Closes
    <2> QED
      BY <1>3, <2>1, <2>2 DEF TypeOK, Closes
  <1>4. CASE PollDrop
    <2>1. elapsed' \in 0 .. Timeout /\ texts' \in 0 .. MaxTexts
      BY <1>4 DEF TypeOK, PollDrop
    <2> QED
      BY <1>4, <2>1 DEF TypeOK, PollDrop
  <1>5. CASE LaunchFails
    <2>1. elapsed' \in 0 .. Timeout /\ texts' \in 0 .. MaxTexts
      BY <1>5 DEF TypeOK, LaunchFails
    <2> QED
      BY <1>5, <2>1 DEF TypeOK, LaunchFails
  <1>6. CASE Launch
    <2>1. elapsed' \in 0 .. Timeout /\ texts' \in 0 .. MaxTexts
      BY <1>6 DEF TypeOK, Launch
    <2> QED
      BY <1>6, <2>1 DEF TypeOK, Launch
  <1>7. CASE FinishInject
    BY <1>7 DEF TypeOK, FinishInject
  <1>8. CASE Destroy
    <2>1. elapsed' \in 0 .. Timeout /\ texts' \in 0 .. MaxTexts
      BY <1>8 DEF TypeOK, Destroy
    <2> QED
      BY <1>8, <2>1 DEF TypeOK, Destroy
  <1>9. CASE Tick
    BY <1>9 DEF TypeOK, Tick
  <1>10. CASE PressOrRelease
    BY <1>10 DEF TypeOK, PressOrRelease
  <1>11. CASE WtypeTypes
    BY <1>11 DEF TypeOK, WtypeTypes
  <1>12. CASE WtypeExits
    BY <1>12 DEF TypeOK, WtypeExits
  <1>13. CASE UNCHANGED vars
    BY <1>13 DEF TypeOK, vars
  <1>14. CASE Watch
    BY <1>14 DEF TypeOK, Watch
  <1>15. CASE WatchFails
    BY <1>15 DEF TypeOK, WatchFails
  <1> QED
    BY <1>1, <1>2, <1>3, <1>4, <1>5, <1>6, <1>7, <1>8, <1>9, <1>10, <1>11,
       <1>12, <1>13, <1>14, <1>15 DEF Next, Poll, Return

(* The rest of the invariant, action by action.                            *)
Rest == ChildInv /\ WaitInv /\ FocusInv /\ TypedInv

LEMMA RestStep == IInv /\ [Next]_vars => Rest'
  <1> SUFFICES ASSUME IInv, [Next]_vars PROVE Rest'
    OBVIOUS
  <1> USE InjectorAssumption DEF IInv, TypeOK, Rest, ChildInv, WaitInv, TypedInv
  <1>1. ASSUME NEW w \in Windows, StartInject(w) PROVE Rest'
    BY <1>1 DEF StartInject, FocusInv
  <1>2. ASSUME NEW w \in Windows, UserFocuses(w) PROVE Rest'
    BY <1>2 DEF UserFocuses, FocusInv
  <1>3. ASSUME NEW w \in Windows, Closes(w) PROVE Rest'
    <2>1. CASE w = focus
      <3>1. (open' # {} => focus' \in open') /\ userFocus' = focus'
        BY <1>3, <2>1 DEF Closes
      <3> QED
        BY <1>3, <2>1, <3>1 DEF Closes, FocusInv
    <2>2. CASE w # focus
      <3>1. focus' = focus /\ (open' # {} => focus \in open')
        BY <1>3, <2>2 DEF Closes, FocusInv
      <3>2. userFocus' = IF w = userFocus THEN focus ELSE userFocus
        BY <1>3, <2>2 DEF Closes
      <3> QED
        BY <1>3, <2>2, <3>1, <3>2 DEF Closes, FocusInv
    <2> QED
      BY <2>1, <2>2
  <1>4. CASE PollDrop
    BY <1>4 DEF PollDrop, FocusInv
  <1>5. CASE LaunchFails
    BY <1>5 DEF LaunchFails, FocusInv
  <1>6. CASE Launch
    BY <1>6 DEF Launch, FocusInv
  <1>7. CASE FinishInject
    BY <1>7 DEF FinishInject, FocusInv
  <1>8. CASE Destroy
    <2>1. NoWindow \notin open
      OBVIOUS
    <2> QED
      BY <1>8, <2>1 DEF Destroy, FocusInv
  <1>9. CASE Tick
    BY <1>9 DEF Tick, FocusInv
  <1>10. CASE PressOrRelease
    BY <1>10 DEF PressOrRelease, FocusInv
  <1>11. CASE WtypeTypes
    BY <1>11 DEF WtypeTypes, FocusInv
  <1>12. CASE WtypeExits
    BY <1>12 DEF WtypeExits, FocusInv
  <1>13. CASE UNCHANGED vars
    BY <1>13 DEF vars, FocusInv
  <1>14. CASE Watch
    BY <1>14 DEF Watch, FocusInv
  <1>15. CASE WatchFails
    <2>1. NoWindow \notin open
      OBVIOUS
    <2> QED
      BY <1>15, <2>1 DEF WatchFails, FocusInv
  <1> QED
    BY <1>1, <1>2, <1>3, <1>4, <1>5, <1>6, <1>7, <1>8, <1>9, <1>10, <1>11,
       <1>12, <1>13, <1>14, <1>15 DEF Next, Poll, Return

-----------------------------------------------------------------------------
(* The invariant holds of every behaviour of the injector.                 *)
THEOREM Invariant == Spec => []IInv
  <1>1. IInv /\ [Next]_vars => IInv'
    BY TypeStep, RestStep DEF IInv, Rest
  <1> QED
    BY IInvInit, <1>1, PTL DEF Spec

(* The members keep their types; the keyboard focus is never a window that *)
(* has closed.                                                             *)
THEOREM TypeCorrect == Spec => []TypeOK
  <1>1. IInv => TypeOK
    BY DEF IInv
  <1> QED
    BY Invariant, <1>1, PTL

(* startInject, launchInject, finishInject and ~Injector keep injections   *)
(* one at a time, and no child is left that nobody watches.                *)
THEOREM OneAtATime == Spec => []OneWatchedInjection
  <1>1. IInv => OneWatchedInjection
    BY DEF IInv, TypeOK, ChildInv, OneWatchedInjection
  <1> QED
    BY Invariant, <1>1, PTL

(* Every way out of launchInject, the kill of a child that cannot be       *)
(* watched included, and finishInject give the focus back.                 *)
THEOREM FocusReturned == Spec => []FocusGivenBack
  <1>1. IInv => FocusGivenBack
    BY DEF IInv, FocusInv, FocusGivenBack
  <1> QED
    BY Invariant, <1>1, PTL

(* wtype types into the target and nowhere else, focus changes apart.      *)
THEOREM TypedIntoTarget == Spec => []TypedIntoTargetIfStill
  <1>1. IInv => TypedIntoTargetIfStill
    BY DEF IInv, TypedInv, TypedIntoTargetIfStill
  <1> QED
    BY Invariant, <1>1, PTL

(* A child is born only in launchInject, with nothing held, before the     *)
(* deadline, and with the focus on the target.                             *)
THEOREM InputReleased == Spec => StartsWithInputReleased
  <1>1. IInv /\ [Next]_vars =>
           [wtype = "none" /\ wtype' # "none" =>
               ~held /\ elapsed < Timeout /\ focus' = target]_vars
    <2> SUFFICES ASSUME IInv, Next, wtype = "none", wtype' # "none"
                 PROVE  ~held /\ elapsed < Timeout /\ focus' = target
      BY DEF vars
    <2>1. Launch
      BY DEF Next, Poll, Return, StartInject, UserFocuses, Closes, PollDrop,
             LaunchFails, Watch, WatchFails, FinishInject, Destroy, Tick, PressOrRelease,
             WtypeTypes, WtypeExits
    <2> QED
      BY <2>1, InjectorAssumption DEF Launch, IInv, TypeOK, WaitInv
  <1> QED
    BY Invariant, <1>1, PTL DEF Spec, StartsWithInputReleased
=============================================================================
