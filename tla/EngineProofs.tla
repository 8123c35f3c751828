---------------------------- MODULE EngineProofs ----------------------------
(***************************************************************************)
(* The safety of Engine, proved for every set of texts and any number of    *)
(* recordings.                                                             *)
(*                                                                         *)
(* Memory: no stream is used after it is freed, none leaks, the process     *)
(* callback keeps what it runs on, and a recording that lost a chunk is not *)
(* delivered.  None of this rests on Session::m_mutex, which ~Session does  *)
(* not take: the PipeWire loop lock, the joins and the order of the owner's *)
(* calls carry it.                                                         *)
(*                                                                         *)
(* Reports: an error is told once, to its own recording, and no partial is  *)
(* hidden by an older one.  This does rest on m_mutex (LockInv).            *)
(***************************************************************************)
EXTENDS Engine, FiniteSetTheorems, TLAPS

Joined == {"none", "exited"}

\* A recording has begun where the code speaks of the present one.
RecInv ==
    /\ state # "Idle" => rec # 0
    /\ owner.pc \in {"open", "mic", "undo", "finish", "cancel"} => rec # 0
    /\ owner.pc \in MicSteps => owner.next \in {"finish", "cancel", "leave"}
    /\ owner.pc \in MicSteps /\ owner.next # "leave" => rec # 0
    /\ poll.pc \notin Joined => poll.gen # 0
    /\ poll.pc \in MicSteps \union {"failed"} => poll.cause # 0
    /\ owner.pc = "undo" => poll.pc \in Joined

\* The microphone is open only before the owner has gone past closing it, and
\* whoever is destroying it has the loop lock.
MicInv ==
    /\ mic # "none" => /\ capturing = TRUE
                       /\ state = "Recording"
                       /\ owner.pc \in {"rest"} \union MicSteps
    /\ owner.pc = "micClose" => loop = "owner" /\ mic # "on"
    /\ poll.pc = "micClose" => loop = "poll" /\ mic # "on"
    /\ pw.pc # "idle" => onChunk = TRUE /\ mic # "none"

\* There is at most the one stream m_stream names, and it is what is in use.
StreamInv ==
    /\ live = IF stream = 0 THEN {} ELSE {stream}
    /\ pw.pc = "add" => pw.h = stream /\ stream # 0
    /\ poll.pc \notin Joined => stream # 0
    /\ poll.pc = "pull" => poll.h = stream
    /\ owner.pc = "gone" => stream = 0

\* Whose stream it is, and that its damage is known as long as it lives.
DamageInv ==
    /\ stream <= rec
    /\ stream # 0 => /\ stream \notin delivered
                     /\ stream \in damaged => audioError # 0
    /\ damaged \union delivered \subseteq 1 .. rec
    /\ damaged \intersect delivered = {}
    /\ owner.pc = "open" => rec \notin damaged \union delivered
    /\ owner.pc \in {"open", "mic", "undo"} => state = "Idle"
    /\ owner.pc \in {"mic", "finish", "cancel"} => stream = rec
    /\ owner.pc \in MicSteps /\ owner.next # "leave" => stream = rec
    /\ owner.pc = "rest" /\ state = "Recording" => stream = rec

\* Who has the Session's lock, and what state goes with it.
LockInv ==
    /\ owner.pc \in {"open", "mic", "undo"} => mutex = "owner"
    /\ owner.pc \in MicSteps /\ owner.next # "leave" =>
          mutex = "owner" /\ state = "Recording"
    /\ owner.pc = "finish" =>
          IF mutex = "owner" THEN state = "Recording" ELSE state = "Transcribing"
    /\ owner.pc = "cancel" =>
          IF mutex = "owner" THEN state = "Recording" ELSE state = "Cancelled"
    /\ mutex = "owner" =>
          \/ owner.pc \in {"open", "mic", "undo", "finish", "cancel"}
          \/ owner.pc \in MicSteps /\ owner.next # "leave"
    /\ poll.pc \in MicSteps <=> mutex = "poll"
    /\ mutex = "poll" => poll.gen = rec /\ state = "Recording"

\* An error that is kept or carried is of the stream, or of the worker, and
\* nothing was told of a recording that is not over.
ErrorInv ==
    /\ poll.pc \notin Joined => poll.gen = stream
    /\ audioError # 0 /\ owner.pc # "undo" => audioError = stream
    /\ poll.pc \in MicSteps \union {"failed"} => poll.cause = poll.gen
    /\ \A r \in Recs : r > rec => told[r] = <<>>
    /\ state # "Idle" \/ owner.pc \in {"open", "mic", "undo"} =>
          told[rec] = <<>>
    /\ \A r \in Recs : told[r] \in {<<>>, <<r>>}

\* From the opening of a stream to the end of its recording, m_lastPartial is
\* what was pulled last and, once the worker has said it, what was shown.
PartialInv ==
    /\ owner.pc = "open" => stream < rec
    /\ \A r \in Recs : r > rec \/ (r = rec /\ owner.pc = "open") =>
          shown[r] = NoText /\ pulled[r] = NoText
    /\ poll.gen = rec /\ (state = "Recording" \/ owner.pc = "mic") =>
          /\ poll.pc \in {"wait", "pull"} =>
                shown[rec] = lastPartial /\ pulled[rec] = lastPartial
          /\ poll.pc = "partial" =>
                poll.text = lastPartial /\ pulled[rec] = lastPartial

IInv ==
    /\ TypeOK /\ RecInv /\ MicInv /\ StreamInv /\ DamageInv
    /\ LockInv /\ ErrorInv /\ PartialInv

-----------------------------------------------------------------------------
Flags == capturing \in BOOLEAN /\ onChunk \in BOOLEAN

Places ==
    /\ mutex \in Threads \union {"free"} /\ loop \in Threads \union {"free"}
    /\ state \in {"Idle", "Recording", "Transcribing", "Cancelled"}
    /\ owner \in [pc : OwnerSteps, next : OwnerSteps]
    /\ mic \in {"none", "on", "closing"}

PollTypes ==
    poll \in [pc : PollSteps, gen : 0 .. MaxRec, stop : BOOLEAN,
              h : 0 .. MaxRec, text : Texts \union {NoText}, cause : 0 .. MaxRec]

Numbers ==
    /\ rec \in 0 .. MaxRec /\ stream \in 0 .. MaxRec /\ audioError \in 0 .. MaxRec
    /\ pw \in [pc : {"idle", "chunk", "add"}, h : 0 .. MaxRec]
    /\ live \subseteq Recs /\ damaged \subseteq Recs /\ delivered \subseteq Recs

Strings ==
    /\ lastPartial \in Texts \union {NoText}
    /\ pulled \in [Recs -> Texts \union {NoText}]
    /\ shown \in [Recs -> Texts \union {NoText}]
    /\ told \in [Recs -> Seq(Recs)]

LEMMA Types == TypeOK = (Flags /\ Places /\ PollTypes /\ Numbers /\ Strings)
  BY DEF TypeOK, Flags, Places, PollTypes, Numbers, Strings

LEMMA PlacesStep == Places /\ RecInv /\ [Next]_vars => Places'
  <1> SUFFICES ASSUME Places, RecInv, [Next]_vars PROVE Places'
    OBVIOUS
  <1> USE DEF Places, OwnerSteps, MicSteps, Threads, OwnerAt, OwnerTo
  <1>1. ASSUME NEW t \in Threads, MicTest(t) PROVE Places'
    BY <1>1 DEF MicTest, At, GoTo, Leave, Settle
  <1>2. ASSUME NEW t \in Threads, MicLock(t) PROVE Places'
    BY <1>2 DEF MicLock, At, GoTo
  <1>3. ASSUME NEW t \in Threads, MicClose(t) PROVE Places'
    BY <1>3 DEF MicClose, At, GoTo, Leave, Settle
  <1>4. CASE PipeWire
    BY <1>4 DEF PipeWire, Process, LoadStream, AddAudio, session, audio
  <1>5. CASE PollWakes \/ Pull \/ Partial \/ Failed
    BY <1>5 DEF PollWakes, Pull, Partial, Failed, session, audio
  <1>6. CASE Begin
    BY <1>6 DEF Begin, audio
  <1>7. CASE Open
    BY <1>7 DEF Open, audio
  <1>8. CASE StartAudio \/ Undo
    BY <1>8 DEF StartAudio, Undo, audio
  <1>9. ASSUME NEW then \in {"finish", "cancel"}, End(then) PROVE Places'
    BY <1>9 DEF End, audio
  <1>10. CASE MicClosed
    BY <1>10 DEF MicClosed, audio
  <1>11. CASE Finish \/ CancelEngine
    BY <1>11 DEF Finish, CancelEngine, audio
  <1>12. CASE Shutdown \/ StopLast
    BY <1>12 DEF Shutdown, StopLast, audio
  <1>13. CASE Gone \/ UNCHANGED vars
    BY <1>13 DEF Gone, vars, session, audio
  <1> QED
    BY <1>1, <1>2, <1>3, <1>4, <1>5, <1>6, <1>7, <1>8, <1>9, <1>10, <1>11,
       <1>12, <1>13
    DEF Next, PollWorker, Continue, Command, MicStep

(* The worker's record: its place, and what it has loaded.                 *)
LEMMA PollTypesStep ==
    PollTypes /\ Numbers /\ RecInv /\ [Next]_vars => PollTypes'
  <1> SUFFICES ASSUME PollTypes, Numbers, RecInv, [Next]_vars PROVE PollTypes'
    OBVIOUS
  <1> USE DEF PollTypes, PollSteps, MicSteps, PollTo, RequestStop
  <1>0. 0 \in 0 .. MaxRec
    BY EngineAssumption
  <1>1. ASSUME NEW t \in Threads, MicTest(t) \/ MicLock(t) \/ MicClose(t)
        PROVE PollTypes'
    BY <1>1 DEF MicTest, MicLock, MicClose, At, GoTo, Leave, Threads
  <1>2. CASE PipeWire
    BY <1>2 DEF PipeWire, Process, LoadStream, AddAudio
  <1>3. CASE PollWakes
    BY <1>3 DEF PollWakes, Numbers
  <1>4. CASE Pull
    <2>1. CASE poll' = [poll EXCEPT !.pc = "failed", !.h = 0, !.cause = poll.gen]
      BY <2>1, <1>0
    <2>2. ASSUME NEW text \in Texts \union {NoText}, NEW new \in BOOLEAN,
                 poll' = [poll EXCEPT !.pc = IF new THEN "partial" ELSE "wait",
                                      !.h = 0,
                                      !.text = IF new THEN text ELSE NoText]
          PROVE PollTypes'
      BY <2>2, <1>0
    <2> QED
      BY <1>4, <2>1, <2>2 DEF Pull
  <1>5. CASE Partial \/ Failed
    BY <1>5 DEF Partial, Failed
  <1>6. CASE Begin \/ MicClosed \/ StopLast
    BY <1>6 DEF Begin, MicClosed, StopLast
  <1>7. CASE Open
    <2>1. poll' = poll \/ poll' = Worker(rec)
      BY <1>7 DEF Open
    <2>2. Worker(rec) \in [pc : PollSteps, gen : 0 .. MaxRec, stop : BOOLEAN,
              h : 0 .. MaxRec, text : Texts \union {NoText}, cause : 0 .. MaxRec]
      BY <1>0 DEF Worker, Numbers
    <2> QED
      BY <2>1, <2>2
  <1>8. CASE StartAudio \/ Undo \/ Finish \/ CancelEngine \/ Shutdown
    BY <1>8 DEF StartAudio, Undo, Finish, CancelEngine, Shutdown
  <1>9. ASSUME NEW then \in {"finish", "cancel"}, End(then) PROVE PollTypes'
    BY <1>9 DEF End
  <1>10. CASE Gone \/ UNCHANGED vars
    BY <1>10 DEF Gone, vars
  <1> QED
    BY <1>1, <1>2, <1>3, <1>4, <1>5, <1>6, <1>7, <1>8, <1>9, <1>10
    DEF Next, PollWorker, Continue, Command, MicStep, Threads

LEMMA NumbersStep ==
    TypeOK /\ RecInv /\ StreamInv /\ [Next]_vars => Numbers'
  <1> SUFFICES ASSUME Numbers, RecInv, StreamInv, [Next]_vars PROVE Numbers'
    BY DEF TypeOK, Numbers
  <1> USE DEF Numbers, OwnerAt
  <1>0. 0 \in 0 .. MaxRec /\ \A r \in 0 .. MaxRec : r # 0 => r \in Recs
    BY EngineAssumption DEF Recs
  <1>1. ASSUME NEW t \in Threads, MicTest(t) \/ MicLock(t) \/ MicClose(t)
        PROVE Numbers'
    BY <1>1 DEF MicTest, MicLock, MicClose, engine, history
  <1>2. CASE Process \/ LoadStream
    BY <1>2, <1>0 DEF Process, LoadStream, session, engine, history
  <1>3. CASE AddAudio
    <2>1. pw.h \in Recs
      BY <1>3, <1>0 DEF AddAudio, StreamInv
    <2> QED
      BY <1>3, <2>1, <1>0 DEF AddAudio, session
  <1>4. CASE PollWakes \/ Pull
    BY <1>4 DEF PollWakes, Pull, session, engine, history
  <1>5. CASE Partial \/ Failed
    BY <1>5 DEF Partial, Failed, session, engine, history
  <1>6. CASE Begin
    BY <1>6, EngineAssumption DEF Begin, engine, history
  <1>7. CASE Open
    BY <1>7, <1>0 DEF Open, RecInv, history
  <1>8. CASE StartAudio \/ Undo
    BY <1>8, <1>0 DEF StartAudio, Undo, Released, engine, history
  <1>9. ASSUME NEW then \in {"finish", "cancel"}, End(then) PROVE Numbers'
    BY <1>9 DEF End, engine, history
  <1>10. CASE MicClosed
    BY <1>10 DEF MicClosed, engine, history
  <1>11. CASE Finish
    BY <1>11, <1>0 DEF Finish, RecInv
  <1>12. CASE CancelEngine
    BY <1>12, <1>0 DEF CancelEngine, Released, history
  <1>13. CASE Shutdown \/ StopLast
    BY <1>13 DEF Shutdown, StopLast, engine, history
  <1>14. CASE Gone \/ UNCHANGED vars
    BY <1>14 DEF Gone, vars, session, engine, history
  <1> QED
    BY <1>1, <1>2, <1>3, <1>4, <1>5, <1>6, <1>7, <1>8, <1>9, <1>10, <1>11,
       <1>12, <1>13, <1>14
    DEF Next, PipeWire, PollWorker, Continue, Command, MicStep, Threads

(* The transcripts, and the origins of the errors, which are recordings.   *)
LEMMA StringsStep ==
    TypeOK /\ RecInv /\ [Next]_vars => Strings'
  <1> SUFFICES ASSUME Strings, PollTypes, Numbers, RecInv, [Next]_vars
               PROVE Strings'
    BY DEF TypeOK, Strings, PollTypes, Numbers
  <1>0. \A r \in 0 .. MaxRec : r # 0 => r \in Recs
    BY EngineAssumption DEF Recs
  <1> DEFINE Told(r, o) == [told EXCEPT ![r] = Append(@, o)]
  <1>a. ASSUME NEW r, NEW o \in Recs PROVE Told(r, o) \in [Recs -> Seq(Recs)]
    <2>1. told \in [Recs -> Seq(Recs)]
      BY DEF Strings
    <2>2. r \in Recs => Append(told[r], o) \in Seq(Recs)
      BY <1>a, <2>1
    <2> QED
      BY <2>1, <2>2
  <1> HIDE DEF Told
  <1>b. UNCHANGED <<lastPartial, pulled, shown, told>> => Strings'
    BY DEF Strings
  <1>1. ASSUME NEW t \in Threads, MicTest(t) \/ MicClose(t) PROVE Strings'
    <2>1. UNCHANGED <<lastPartial, pulled, shown>>
      BY <1>1 DEF MicTest, MicClose, engine
    <2>2. told' = told \/ told' = Told(poll.gen, poll.cause)
      BY <1>1 DEF MicTest, MicClose, Settle, Told
    <2>3. t = "poll" => poll.cause \in Recs
      BY <1>1, <1>0 DEF MicTest, MicClose, At, RecInv, MicSteps, PollTypes
    <2>4. t # "poll" => told' = told
      BY <1>1 DEF MicTest, MicClose, Settle, Threads
    <2> QED
      BY <2>1, <2>2, <2>3, <2>4, <1>a DEF Strings
  <1>2. ASSUME NEW t \in Threads, MicLock(t) PROVE Strings'
    BY <1>2, <1>b DEF MicLock, engine, history
  <1>3. CASE PipeWire
    BY <1>3, <1>b DEF PipeWire, Process, LoadStream, AddAudio, engine, history
  <1>4. CASE Pull
    BY <1>4 DEF Pull, Strings
  <1>5. CASE PollWakes \/ Failed
    BY <1>5, <1>b DEF PollWakes, Failed, engine, history
  <1>6. CASE Partial
    BY <1>6 DEF Partial, engine, Strings, PollTypes
  <1>7. CASE Open \/ Undo
    BY <1>7 DEF Open, Undo, Released, history, Strings
  <1>8. CASE Finish
    <2>1. UNCHANGED <<pulled, shown>> /\ lastPartial' \in {lastPartial, NoText}
      BY <1>8 DEF Finish
    <2>2. rec \in Recs
      BY <1>8, <1>0 DEF Finish, OwnerAt, RecInv, Numbers
    <2>3. \/ told' = told \/ told' = Told(rec, rec)
          \/ told' = Told(rec, audioError) /\ audioError # 0
      BY <1>8 DEF Finish, Told
    <2>4. told' \in [Recs -> Seq(Recs)]
      BY <2>2, <2>3, <1>a, <1>0 DEF Strings, Numbers
    <2> QED
      BY <2>1, <2>4 DEF Strings
  <1>9. CASE CancelEngine
    BY <1>9 DEF CancelEngine, Released, history, Strings
  <1>10. CASE Begin \/ StartAudio \/ MicClosed \/ Shutdown \/ StopLast
    BY <1>10, <1>b DEF Begin, StartAudio, MicClosed, Shutdown, StopLast,
       engine, history
  <1>11. ASSUME NEW then \in {"finish", "cancel"}, End(then) PROVE Strings'
    BY <1>11, <1>b DEF End, engine, history
  <1>12. CASE Gone \/ UNCHANGED vars
    BY <1>12, <1>b DEF Gone, vars, engine, history
  <1> QED
    BY <1>1, <1>2, <1>3, <1>4, <1>5, <1>6, <1>7, <1>8, <1>9, <1>10, <1>11, <1>12
    DEF Next, PollWorker, Continue, Command, MicStep, Threads

LEMMA FlagsStep == Flags /\ [Next]_vars => Flags'
  <1> SUFFICES ASSUME Flags, [Next]_vars PROVE Flags'
    OBVIOUS
  <1> USE DEF Flags
  <1>1. ASSUME NEW t \in Threads, MicTest(t) \/ MicLock(t) \/ MicClose(t)
        PROVE Flags'
    BY <1>1 DEF MicTest, MicLock, MicClose
  <1>2. CASE PipeWire
    BY <1>2 DEF PipeWire, Process, LoadStream, AddAudio, audio
  <1>3. CASE PollWakes \/ Pull \/ Partial \/ Failed
    BY <1>3 DEF PollWakes, Pull, Partial, Failed, audio
  <1>4. CASE Begin \/ Open \/ StartAudio \/ Undo \/ MicClosed
    BY <1>4 DEF Begin, Open, StartAudio, Undo, MicClosed, audio
  <1>5. CASE Finish \/ CancelEngine \/ Shutdown \/ StopLast
    BY <1>5 DEF Finish, CancelEngine, Shutdown, StopLast, audio
  <1>6. ASSUME NEW then \in {"finish", "cancel"}, End(then) PROVE Flags'
    BY <1>6 DEF End, audio
  <1>7. CASE Gone \/ UNCHANGED vars
    BY <1>7 DEF Gone, vars, audio
  <1> QED
    BY <1>1, <1>2, <1>3, <1>4, <1>5, <1>6, <1>7
    DEF Next, PollWorker, Continue, Command, MicStep, Threads

LEMMA TypeStep == TypeOK /\ RecInv /\ StreamInv /\ [Next]_vars => TypeOK'
  <1> SUFFICES ASSUME TypeOK, RecInv, StreamInv, [Next]_vars PROVE TypeOK'
    OBVIOUS
  <1>1. Flags' /\ Places' /\ PollTypes' /\ Numbers' /\ Strings'
    BY FlagsStep, PlacesStep, PollTypesStep, NumbersStep, StringsStep, Types
  <1> QED
    BY <1>1 DEF TypeOK, Flags, Places, PollTypes, Numbers, Strings

-----------------------------------------------------------------------------
(* The recordings.                                                         *)
LEMMA RecStep == TypeOK /\ RecInv /\ StreamInv /\ [Next]_vars => RecInv'
  <1> SUFFICES ASSUME Places, PollTypes, Numbers, RecInv, StreamInv, [Next]_vars
               PROVE RecInv'
    BY DEF TypeOK, Places, PollTypes, Numbers
  <1> USE DEF Places, PollTypes, RecInv, MicSteps, Joined, OwnerAt, OwnerTo, PollTo,
          RequestStop
  <1>1. ASSUME NEW t \in Threads, MicTest(t) PROVE RecInv'
    BY <1>1 DEF MicTest, At, GoTo, Leave, Settle, Threads, OwnerSteps
  <1>2. ASSUME NEW t \in Threads, MicLock(t) PROVE RecInv'
    BY <1>2 DEF MicLock, At, GoTo, Threads
  <1>3. ASSUME NEW t \in Threads, MicClose(t) PROVE RecInv'
    BY <1>3 DEF MicClose, At, GoTo, Leave, Settle, Threads
  <1>4. CASE PipeWire
    BY <1>4 DEF PipeWire, Process, LoadStream, AddAudio, session
  <1>5. CASE PollWakes
    BY <1>5 DEF PollWakes, session
  <1>6. CASE Pull
    BY <1>6 DEF Pull, session
  <1>7. CASE Partial \/ Failed
    BY <1>7 DEF Partial, Failed, session
  <1>8. CASE Begin
    BY <1>8 DEF Begin, Numbers
  <1>9. CASE Open
    BY <1>9 DEF Open, Worker, PollJoined
  <1>10. CASE StartAudio \/ Undo
    BY <1>10 DEF StartAudio, Undo
  <1>11. ASSUME NEW then \in {"finish", "cancel"}, End(then) PROVE RecInv'
    BY <1>11 DEF End
  <1>12. CASE MicClosed
    BY <1>12 DEF MicClosed
  <1>13. CASE Finish \/ CancelEngine
    BY <1>13 DEF Finish, CancelEngine
  <1>14. CASE Shutdown \/ StopLast
    BY <1>14 DEF Shutdown, StopLast
  <1>15. CASE Gone \/ UNCHANGED vars
    BY <1>15 DEF Gone, vars, session
  <1> QED
    BY <1>1, <1>2, <1>3, <1>4, <1>5, <1>6, <1>7, <1>8, <1>9, <1>10, <1>11,
       <1>12, <1>13, <1>14, <1>15
    DEF Next, PollWorker, Continue, Command, MicStep, Threads

(* The microphone.                                                         *)
LEMMA MicStays == TypeOK /\ RecInv /\ MicInv /\ [Next]_vars => MicInv'
  <1> SUFFICES ASSUME Places, PollTypes, Numbers, RecInv, MicInv,
                      [Next]_vars
               PROVE MicInv'
    BY DEF TypeOK, Places, PollTypes, Numbers
  <1> USE DEF Places, PollTypes, MicInv, MicSteps, OwnerAt, OwnerTo, PollTo,
          RequestStop
  <1>1. ASSUME NEW t \in Threads, MicTest(t) PROVE MicInv'
    BY <1>1 DEF MicTest, At, GoTo, Leave, Settle, Threads, RecInv
  <1>2. ASSUME NEW t \in Threads, MicLock(t) PROVE MicInv'
    BY <1>2 DEF MicLock, At, GoTo, Threads
  <1>3. ASSUME NEW t \in Threads, MicClose(t) PROVE MicInv'
    BY <1>3 DEF MicClose, At, GoTo, Leave, Settle, Threads, RecInv
  <1>4. CASE PipeWire
    BY <1>4 DEF PipeWire, Process, LoadStream, AddAudio, session, audio, Numbers
  <1>5. CASE PollWakes
    BY <1>5 DEF PollWakes, session, audio
  <1>6. CASE Pull
    BY <1>6 DEF Pull, session, audio
  <1>7. CASE Partial \/ Failed
    BY <1>7 DEF Partial, Failed, session, audio
  <1>8. CASE Begin
    BY <1>8 DEF Begin, audio
  <1>9. CASE Open
    BY <1>9 DEF Open, Worker, audio
  <1>10. CASE StartAudio
    BY <1>10 DEF StartAudio, audio
  <1>11. CASE Undo
    BY <1>11 DEF Undo
  <1>12. ASSUME NEW then \in {"finish", "cancel"}, End(then) PROVE MicInv'
    BY <1>12 DEF End, audio
  <1>13. CASE MicClosed
    BY <1>13 DEF MicClosed, audio
  <1>14. CASE Finish \/ CancelEngine
    BY <1>14 DEF Finish, CancelEngine, audio
  <1>15. CASE Shutdown \/ StopLast
    BY <1>15 DEF Shutdown, StopLast, audio
  <1>16. CASE Gone \/ UNCHANGED vars
    BY <1>16 DEF Gone, vars, session, audio
  <1> QED
    BY <1>1, <1>2, <1>3, <1>4, <1>5, <1>6, <1>7, <1>8, <1>9, <1>10, <1>11,
       <1>12, <1>13, <1>14, <1>15, <1>16
    DEF Next, PollWorker, Continue, Command, MicStep, Threads

(* The stream: whoever frees it has joined the worker and closed the        *)
(* microphone before.                                                      *)
LEMMA StreamStep ==
    TypeOK /\ RecInv /\ MicInv /\ StreamInv /\ [Next]_vars => StreamInv'
  <1> SUFFICES ASSUME Places, PollTypes, Numbers, RecInv, MicInv, StreamInv,
                      [Next]_vars
               PROVE StreamInv'
    BY DEF TypeOK, Places, PollTypes, Numbers
  <1> USE DEF Places, PollTypes, Numbers, StreamInv, MicSteps, Joined, OwnerAt,
          OwnerTo, PollTo, RequestStop
  <1>1. ASSUME NEW t \in Threads, MicTest(t) PROVE StreamInv'
    BY <1>1 DEF MicTest, At, GoTo, Leave, Threads, RecInv, engine
  <1>2. ASSUME NEW t \in Threads, MicLock(t) PROVE StreamInv'
    BY <1>2 DEF MicLock, At, GoTo, Threads, engine
  <1>3. ASSUME NEW t \in Threads, MicClose(t) PROVE StreamInv'
    BY <1>3 DEF MicClose, At, GoTo, Leave, Threads, RecInv, engine
  <1>4. CASE PipeWire
    BY <1>4 DEF PipeWire, Process, LoadStream, AddAudio, session, engine
  <1>5. CASE PollWakes
    BY <1>5 DEF PollWakes, session, engine
  <1>6. CASE Pull
    BY <1>6 DEF Pull, session
  <1>7. CASE Partial \/ Failed
    BY <1>7 DEF Partial, Failed, session, engine
  <1>8. CASE Begin \/ MicClosed \/ Shutdown \/ StopLast
    BY <1>8 DEF Begin, MicClosed, Shutdown, StopLast, engine
  <1>9. CASE Open
    <2>1. pw.pc = "idle" /\ rec # 0 /\ poll.pc \in Joined
      BY <1>9 DEF Open, PollJoined, MicInv, RecInv
    <2> QED
      BY <1>9, <2>1 DEF Open, Worker
  <1>10. CASE StartAudio
    BY <1>10 DEF StartAudio, engine
  <1>11. CASE Undo
    <2>1. pw.pc = "idle" /\ poll.pc \in Joined
      BY <1>11 DEF Undo, MicInv, RecInv
    <2> QED
      BY <1>11, <2>1 DEF Undo, Released
  <1>12. ASSUME NEW then \in {"finish", "cancel"}, End(then) PROVE StreamInv'
    BY <1>12 DEF End, engine
  <1>13. CASE Finish \/ CancelEngine
    <2>1. pw.pc = "idle" /\ poll.pc \in Joined
      BY <1>13 DEF Finish, CancelEngine, PollJoined, MicInv
    <2> QED
      BY <1>13, <2>1 DEF Finish, CancelEngine, Released
  <1>14. CASE Gone \/ UNCHANGED vars
    BY <1>14 DEF Gone, vars, session, engine
  <1> QED
    BY <1>1, <1>2, <1>3, <1>4, <1>5, <1>6, <1>7, <1>8, <1>9, <1>10, <1>11,
       <1>12, <1>13, <1>14
    DEF Next, PollWorker, Continue, Command, MicStep, Threads

(* The damage: the error flag outlives every chunk that set it, up to the   *)
(* finish that reads it.                                                   *)
LEMMA DamageStep ==
    TypeOK /\ RecInv /\ MicInv /\ StreamInv /\ DamageInv /\ [Next]_vars
        => DamageInv'
  <1> SUFFICES ASSUME Places, PollTypes, Numbers, RecInv, MicInv, StreamInv,
                      DamageInv, [Next]_vars
               PROVE DamageInv'
    BY DEF TypeOK, Places, PollTypes, Numbers
  <1> USE EngineAssumption
          DEF Places, Numbers, DamageInv, MicSteps, OwnerAt, OwnerTo, Recs
  <1>1. ASSUME NEW t \in Threads, MicTest(t) PROVE DamageInv'
    BY <1>1 DEF MicTest, At, GoTo, Leave, Settle, Threads, RecInv, engine
  <1>2. ASSUME NEW t \in Threads, MicLock(t) PROVE DamageInv'
    BY <1>2 DEF MicLock, At, GoTo, Threads, engine, history
  <1>3. ASSUME NEW t \in Threads, MicClose(t) PROVE DamageInv'
    BY <1>3 DEF MicClose, At, GoTo, Leave, Settle, Threads, RecInv, engine
  <1>4. CASE Process \/ LoadStream
    BY <1>4 DEF Process, LoadStream, session, engine, history
  <1>5. CASE AddAudio
    <2>1. pw.h = stream /\ stream # 0
      BY <1>5 DEF AddAudio, StreamInv
    <2>2. damaged' = damaged \/ damaged' = damaged \union {stream}
      BY <1>5, <2>1 DEF AddAudio
    <2>3. \/ damaged' = damaged /\ audioError' = audioError
          \/ audioError' # 0
      BY <1>5, <2>1 DEF AddAudio
    <2>4. UNCHANGED <<rec, stream, delivered, state, owner>>
      BY <1>5 DEF AddAudio, session
    <2>5. owner.pc = "open" => FALSE
      BY <1>5 DEF AddAudio, MicInv
    <2>6. (damaged \union delivered)' \subseteq 1 .. rec
      <3>1. stream \in 1 .. rec /\ damaged \union delivered \subseteq 1 .. rec
        BY <2>1
      <3> QED
        BY <2>2, <2>4, <3>1, Zenon
    <2>7. (damaged \intersect delivered)' = {}
      BY <2>1, <2>2, <2>4
    <2>8. stream' \in damaged' => audioError' # 0
      BY <2>1, <2>3, <2>4
    <2> QED
      BY <2>4, <2>5, <2>6, <2>7, <2>8
  <1>6. CASE PollWakes \/ Pull
    BY <1>6 DEF PollWakes, Pull, session, engine, history
  <1>7. CASE Partial \/ Failed
    BY <1>7 DEF Partial, Failed, session, engine, history
  <1>8. CASE Begin
    BY <1>8 DEF Begin, engine, history
  <1>9. CASE Open
    BY <1>9 DEF Open, history, RecInv
  <1>10. CASE StartAudio
    BY <1>10 DEF StartAudio, engine, history
  <1>11. CASE Undo
    BY <1>11 DEF Undo, Released, history
  <1>12. ASSUME NEW then \in {"finish", "cancel"}, End(then) PROVE DamageInv'
    BY <1>12 DEF End, engine, history
  <1>13. CASE MicClosed
    BY <1>13 DEF MicClosed, engine, history
  <1>14. CASE Finish
    <2>1. stream = rec /\ rec # 0
      BY <1>14 DEF Finish, RecInv
    <2>2. delivered' = delivered \/ delivered' = delivered \union {rec}
      BY <1>14 DEF Finish
    <2>3. delivered' # delivered => rec \notin damaged
      BY <1>14, <2>1 DEF Finish
    <2>4. /\ stream' = 0 /\ state' = "Idle" /\ owner'.pc = "rest"
          /\ rec' = rec /\ damaged' = damaged
      BY <1>14 DEF Finish
    <2>5. (damaged \union delivered)' \subseteq 1 .. rec
      <3>1. rec \in 1 .. rec /\ damaged \union delivered \subseteq 1 .. rec
        BY <2>1
      <3> QED
        BY <2>2, <2>4, <3>1, Zenon
    <2>6. (damaged \intersect delivered)' = {}
      BY <2>2, <2>3, <2>4
    <2> QED
      BY <2>4, <2>5, <2>6
  <1>15. CASE CancelEngine
    BY <1>15 DEF CancelEngine, Released, history
  <1>16. CASE Shutdown \/ StopLast
    BY <1>16 DEF Shutdown, StopLast, engine, history
  <1>17. CASE Gone \/ UNCHANGED vars
    BY <1>17 DEF Gone, vars, session, engine, history
  <1> QED
    BY <1>1, <1>2, <1>3, <1>4, <1>5, <1>6, <1>7, <1>8, <1>9, <1>10, <1>11,
       <1>12, <1>13, <1>14, <1>15, <1>16, <1>17
    DEF Next, PipeWire, PollWorker, Continue, Command, MicStep, Threads

(* The Session's lock: with it go the state and the present recording.      *)
LEMMA LockStep == TypeOK /\ RecInv /\ LockInv /\ [Next]_vars => LockInv'
  <1> SUFFICES ASSUME Places, PollTypes, Numbers, RecInv, LockInv, [Next]_vars
               PROVE LockInv'
    BY DEF TypeOK, Places, PollTypes, Numbers
  <1> USE DEF Places, PollTypes, LockInv, MicSteps, OwnerAt, OwnerTo, PollTo,
          RequestStop
  <1>1. ASSUME NEW t \in Threads, MicTest(t) PROVE LockInv'
    BY <1>1 DEF MicTest, At, GoTo, Leave, Settle, Threads, RecInv
  <1>2. ASSUME NEW t \in Threads, MicLock(t) PROVE LockInv'
    BY <1>2 DEF MicLock, At, GoTo, Threads
  <1>3. ASSUME NEW t \in Threads, MicClose(t) PROVE LockInv'
    BY <1>3 DEF MicClose, At, GoTo, Leave, Settle, Threads, RecInv
  <1>4. CASE PipeWire
    BY <1>4 DEF PipeWire, Process, LoadStream, AddAudio, session
  <1>5. CASE PollWakes
    BY <1>5 DEF PollWakes, session
  <1>6. CASE Pull
    BY <1>6 DEF Pull, session
  <1>7. CASE Partial \/ Failed
    BY <1>7 DEF Partial, Failed, session
  <1>8. CASE Begin
    BY <1>8 DEF Begin
  <1>9. CASE Open
    BY <1>9 DEF Open, Worker, PollJoined
  <1>10. CASE StartAudio
    BY <1>10 DEF StartAudio
  <1>11. CASE Undo
    BY <1>11 DEF Undo
  <1>12. ASSUME NEW then \in {"finish", "cancel"}, End(then) PROVE LockInv'
    BY <1>12 DEF End
  <1>13. CASE MicClosed
    BY <1>13 DEF MicClosed
  <1>14. CASE Finish \/ CancelEngine
    BY <1>14 DEF Finish, CancelEngine, PollJoined
  <1>15. CASE Shutdown \/ StopLast
    BY <1>15 DEF Shutdown, StopLast
  <1>16. CASE Gone \/ UNCHANGED vars
    BY <1>16 DEF Gone, vars, session
  <1> QED
    BY <1>1, <1>2, <1>3, <1>4, <1>5, <1>6, <1>7, <1>8, <1>9, <1>10, <1>11,
       <1>12, <1>13, <1>14, <1>15, <1>16
    DEF Next, PollWorker, Continue, Command, MicStep, Threads

\* One more recording has its error told.
LEMMA Tells ==
    ASSUME told \in [Recs -> Seq(Recs)], NEW g \in Recs,
           told' = told \/ told' = [told EXCEPT ![g] = <<g>>],
           \A r \in Recs : told[r] \in {<<>>, <<r>>}
    PROVE  \A r \in Recs : /\ told'[r] \in {<<>>, <<r>>}
                           /\ r # g => told'[r] = told[r]
<1>1. CASE told' = told
    BY <1>1, Zenon
<1>2. CASE told' = [told EXCEPT ![g] = <<g>>]
    <2>1. \A r \in Recs : told'[r] = IF r = g THEN <<g>> ELSE told[r]
        BY <1>2, Zenon
    <2> QED
        BY <2>1, Zenon
<1> QED BY <1>1, <1>2

(* What the worker's steps do to its record.                               *)
LEMMA WorkerMoves ==
    ASSUME PollTypes
    PROVE  /\ PollWakes =>
                /\ poll.pc = "wait" /\ poll'.gen = poll.gen
                /\ \/ poll'.pc \in {"exited", "pull"}
                   \/ /\ poll'.pc = "failed"
                      /\ poll'.cause = audioError /\ audioError # 0
           /\ Pull =>
                /\ poll.pc = "pull" /\ poll'.gen = poll.gen
                /\ \/ poll'.pc \in {"wait", "partial"}
                   \/ poll'.pc = "failed" /\ poll'.cause = poll.gen
           /\ Partial =>
                poll.pc = "partial" /\ poll'.gen = poll.gen /\ poll'.pc = "wait"
           /\ Failed =>
                /\ poll.pc = "failed" /\ mutex = "free"
                /\ poll'.gen = poll.gen /\ poll'.cause = poll.cause
                /\ poll'.pc \in {"micTest", "exited"}
<1> USE DEF PollTypes, PollTo
<1>1. PollWakes =>
        /\ poll.pc = "wait" /\ poll'.gen = poll.gen
        /\ \/ poll'.pc \in {"exited", "pull"}
           \/ /\ poll'.pc = "failed"
              /\ poll'.cause = audioError /\ audioError # 0
    BY DEF PollWakes
<1>2. Pull => /\ poll.pc = "pull" /\ poll'.gen = poll.gen
              /\ \/ poll'.pc \in {"wait", "partial"}
                 \/ poll'.pc = "failed" /\ poll'.cause = poll.gen
    BY DEF Pull
<1>3. Partial => poll.pc = "partial" /\ poll'.gen = poll.gen /\ poll'.pc = "wait"
    BY DEF Partial
<1>4. Failed => /\ poll.pc = "failed" /\ mutex = "free"
                /\ poll'.gen = poll.gen /\ poll'.cause = poll.cause
                /\ poll'.pc \in {"micTest", "exited"}
    BY DEF Failed
<1> QED BY <1>1, <1>2, <1>3, <1>4

(* The errors: who reports one, the worker or finish, ends the recording.   *)
LEMMA ErrorStep ==
    /\ TypeOK /\ RecInv /\ MicInv /\ StreamInv /\ DamageInv /\ LockInv /\ ErrorInv
    /\ [Next]_vars
    => ErrorInv'
  <1> SUFFICES ASSUME Places, PollTypes, Numbers, Strings, RecInv, MicInv,
                      StreamInv, DamageInv, LockInv, ErrorInv, [Next]_vars
               PROVE ErrorInv'
    BY DEF TypeOK, Places, PollTypes, Numbers, Strings
  <1> USE EngineAssumption
          DEF Places, PollTypes, Numbers, ErrorInv, MicSteps, Joined, OwnerAt,
              OwnerTo, PollTo, RequestStop, Recs
  <1>0. \A r \in Recs : told[r] \in Seq(Recs)
    BY DEF Strings
  <1>1. ASSUME NEW t \in Threads, MicTest(t) \/ MicClose(t) PROVE ErrorInv'
    <2>1. CASE t = "owner"
      BY <1>1, <2>1 DEF MicTest, MicClose, At, GoTo, Leave, Settle, RecInv,
         LockInv, engine
    <2>2. CASE t = "poll"
      <3>1. /\ poll.pc \in MicSteps /\ poll.gen = rec /\ poll.cause = rec
            /\ state = "Recording" /\ rec \in Recs /\ told[rec] = <<>>
            /\ mutex = "poll"
        BY <1>1, <2>2 DEF MicTest, MicClose, At, LockInv, RecInv
      <3>2. /\ UNCHANGED <<rec, stream, audioError>>
            /\ owner' = owner /\ poll'.gen = rec /\ poll'.cause = rec
            /\ \/ UNCHANGED <<state, told>>
               \/ /\ state' = "Idle" /\ told' = [told EXCEPT ![rec] = <<rec>>]
                  /\ poll'.pc = "exited"
        BY <1>1, <2>2, <3>1 DEF MicTest, MicClose, At, GoTo, Leave, Settle, engine
      <3>3. rec = stream /\ owner.pc \notin {"open", "mic", "undo"}
        BY <3>1 DEF LockInv
      <3>4. \A q \in Recs : told'[q] \in {<<>>, <<q>>} /\ (q > rec => told'[q] = <<>>)
        <4>1. \A q \in Recs : /\ told'[q] \in {<<>>, <<q>>}
                              /\ q # rec => told'[q] = told[q]
          BY <3>1, <3>2, Tells, Zenon DEF Strings
        <4> QED
          BY <4>1
      <3>5. state' # "Idle" => told'[rec] = <<>>
        BY <3>1, <3>2
      <3> QED
        BY <3>2, <3>3, <3>4, <3>5
    <2> QED
      BY <2>1, <2>2 DEF Threads
  <1>2. ASSUME NEW t \in Threads, MicLock(t) PROVE ErrorInv'
    BY <1>2 DEF MicLock, At, GoTo, Threads, engine, history
  <1>4. CASE Process \/ LoadStream
    BY <1>4 DEF Process, LoadStream, session, engine, history
  <1>5. CASE AddAudio
    BY <1>5 DEF AddAudio, StreamInv, session
  <1>6. CASE PollWakes
    <2>1. UNCHANGED <<session, engine, told>>
      BY <1>6 DEF PollWakes, history
    <2>2. /\ poll.pc = "wait" /\ poll'.gen = poll.gen
          /\ \/ poll'.pc \in {"exited", "pull"}
             \/ /\ poll'.pc = "failed"
                /\ poll'.cause = audioError /\ audioError # 0
      BY <1>6, WorkerMoves
    <2>3. owner.pc # "undo"
      BY <2>2 DEF RecInv
    <2> QED
      BY <2>1, <2>2, <2>3 DEF session, engine
  <1>7. CASE Pull
    <2>1. UNCHANGED <<session, stream, audioError, told>>
      BY <1>7 DEF Pull
    <2> QED
      BY <1>7, <2>1, WorkerMoves DEF session
  <1>8. CASE Partial \/ Failed
    <2>1. UNCHANGED <<state, rec, owner, stream, audioError, told>>
      BY <1>8 DEF Partial, Failed, session, engine, history
    <2> QED
      BY <1>8, <2>1, WorkerMoves
  <1>9. CASE Begin
    BY <1>9 DEF Begin, engine, history
  <1>10. CASE Open
    BY <1>10 DEF Open, Worker, PollJoined, history
  <1>11. CASE StartAudio
    BY <1>11 DEF StartAudio, engine, history
  <1>12. CASE Undo
    BY <1>12 DEF Undo, Released, RecInv, history
  <1>13. ASSUME NEW then \in {"finish", "cancel"}, End(then) PROVE ErrorInv'
    BY <1>13 DEF End, engine, history
  <1>14. CASE MicClosed
    BY <1>14 DEF MicClosed, LockInv, engine, history
  <1>15. CASE Finish
    <2>1. /\ rec \in Recs /\ stream = rec /\ state = "Transcribing"
          /\ told[rec] = <<>> /\ poll.pc \in Joined
      BY <1>15 DEF Finish, RecInv, DamageInv, LockInv, PollJoined
    <2>2. told' = told \/ told' = [told EXCEPT ![rec] = <<rec>>]
      BY <1>15, <2>1 DEF Finish
    <2>3. /\ rec' = rec /\ state' = "Idle" /\ owner'.pc = "rest"
          /\ audioError' = 0 /\ poll' = poll
      BY <1>15 DEF Finish
    <2>4. \A q \in Recs : told'[q] \in {<<>>, <<q>>} /\ (q > rec => told'[q] = <<>>)
      <3>1. \A q \in Recs : /\ told'[q] \in {<<>>, <<q>>}
                            /\ q # rec => told'[q] = told[q]
        BY <2>1, <2>2, Tells, Zenon DEF Strings
      <3> QED
        BY <3>1
    <2> QED
      BY <2>1, <2>3, <2>4
  <1>16. CASE CancelEngine
    BY <1>16 DEF CancelEngine, Released, PollJoined, history
  <1>17. CASE Shutdown \/ StopLast
    BY <1>17 DEF Shutdown, StopLast, engine, history
  <1>18. CASE Gone \/ UNCHANGED vars
    BY <1>18 DEF Gone, vars, session, engine, history
  <1> QED
    BY <1>1, <1>2, <1>4, <1>5, <1>6, <1>7, <1>8, <1>9, <1>10, <1>11, <1>12,
       <1>13, <1>14, <1>15, <1>16, <1>17, <1>18
    DEF Next, PipeWire, PollWorker, Continue, Command, MicStep, Threads

(* The partials: the worker may pull before Recording is announced, but it  *)
(* cannot show before, since start holds the lock.                          *)
LEMMA PartialStep ==
    /\ TypeOK /\ RecInv /\ StreamInv /\ DamageInv /\ LockInv /\ ErrorInv
    /\ PartialInv /\ [Next]_vars
    => PartialInv'
  <1> SUFFICES ASSUME Places, PollTypes, Numbers, Strings, RecInv, StreamInv,
                      DamageInv, LockInv, ErrorInv, PartialInv, [Next]_vars
               PROVE PartialInv'
    BY DEF TypeOK, Places, PollTypes, Numbers, Strings
  <1> USE EngineAssumption
          DEF Places, PollTypes, Numbers, Strings, PartialInv, MicSteps, Joined,
              OwnerAt, OwnerTo, PollTo, RequestStop, Recs
  <1>1. ASSUME NEW t \in Threads, MicTest(t) PROVE PartialInv'
    BY <1>1 DEF MicTest, At, GoTo, Leave, Settle, Threads, RecInv, engine
  <1>2. ASSUME NEW t \in Threads, MicLock(t) PROVE PartialInv'
    BY <1>2 DEF MicLock, At, GoTo, Threads, engine, history
  <1>3. ASSUME NEW t \in Threads, MicClose(t) PROVE PartialInv'
    BY <1>3, SMTT(20) DEF MicClose, At, GoTo, Leave, Settle, Threads, RecInv, engine
  <1>4. CASE Process \/ LoadStream
    BY <1>4 DEF Process, LoadStream, session, engine, history
  <1>5. CASE AddAudio
    BY <1>5 DEF AddAudio, session
  <1>6. CASE PollWakes
    BY <1>6 DEF PollWakes, session, engine, history
  <1>7. CASE Pull
    <2>0. poll.pc = "pull" /\ poll.gen = stream /\ stream # 0
      BY <1>7 DEF Pull, ErrorInv, StreamInv
    <2>1. poll.gen = stream /\ poll.gen \in Recs /\ poll.gen <= rec
      BY <2>0 DEF DamageInv
    <2>2. UNCHANGED <<session, shown, stream>>
      BY <1>7 DEF Pull
    <2>3. CASE poll'.pc = "failed" /\ poll'.gen = poll.gen
               /\ UNCHANGED <<lastPartial, pulled>>
      BY <2>1, <2>2, <2>3 DEF session
    <2>4. ASSUME NEW text \in Texts \union {NoText},
                 text \notin {NoText, lastPartial},
                 poll'.pc = "partial", poll'.text = text, poll'.gen = poll.gen,
                 lastPartial' = text, pulled' = [pulled EXCEPT ![poll.gen] = text]
          PROVE PartialInv'
      BY <2>1, <2>2, <2>4 DEF session
    <2>5. ASSUME NEW text \in {NoText, lastPartial},
                 poll'.pc = "wait", poll'.gen = poll.gen,
                 lastPartial' = lastPartial,
                 pulled' = IF text = NoText THEN pulled
                           ELSE [pulled EXCEPT ![poll.gen] = text]
          PROVE PartialInv'
      <3>1. (poll.gen = rec /\ (state = "Recording" \/ owner.pc = "mic")) =>
               shown[rec] = lastPartial /\ pulled[rec] = lastPartial
        BY <2>0
      <3>2. pulled'[poll.gen] \in {pulled[poll.gen], lastPartial}
            /\ \A q \in Recs : q # poll.gen => pulled'[q] = pulled[q]
        BY <2>1, <2>5
      <3>3. poll.gen = rec => owner.pc # "open"
        BY <2>1
      <3> QED
        <4>1. \A q \in Recs : q > rec \/ (q = rec /\ owner.pc = "open") =>
                 shown'[q] = NoText /\ pulled'[q] = NoText
          BY <2>1, <2>2, <3>2, <3>3
        <4>2. (poll.gen = rec /\ (state = "Recording" \/ owner.pc = "mic")) =>
                 shown'[rec] = lastPartial /\ pulled'[rec] = lastPartial
          BY <2>1, <2>2, <3>1, <3>2
        <4> QED
          BY <2>2, <2>5, <4>1, <4>2 DEF session
    <2>6. \/ poll'.pc = "failed" /\ poll'.gen = poll.gen
             /\ UNCHANGED <<lastPartial, pulled>>
          \/ \E text \in Texts \union {NoText} :
                /\ text \notin {NoText, lastPartial}
                /\ poll'.pc = "partial" /\ poll'.text = text /\ poll'.gen = poll.gen
                /\ lastPartial' = text /\ pulled' = [pulled EXCEPT ![poll.gen] = text]
          \/ \E text \in {NoText, lastPartial} :
                /\ poll'.pc = "wait" /\ poll'.gen = poll.gen
                /\ lastPartial' = lastPartial
                /\ pulled' = IF text = NoText THEN pulled
                             ELSE [pulled EXCEPT ![poll.gen] = text]
      BY <1>7 DEF Pull
    <2> QED
      BY <2>3, <2>4, <2>5, <2>6
  <1>8. CASE Partial
    <2>1. poll.gen = stream /\ poll.gen \in Recs /\ poll.gen <= rec
      BY <1>8 DEF Partial, ErrorInv, RecInv, DamageInv
    <2>2. owner.pc \notin {"open", "mic"}
      BY <1>8 DEF Partial, LockInv
    <2>3. /\ UNCHANGED <<session, stream, lastPartial, pulled>>
          /\ poll'.gen = poll.gen /\ poll'.pc = "wait"
          /\ shown' = IF rec = poll.gen /\ state \in {"Recording", "Transcribing"}
                      THEN [shown EXCEPT ![poll.gen] = poll.text] ELSE shown
      BY <1>8 DEF Partial, engine
    <2> QED
      BY <1>8, <2>1, <2>2, <2>3 DEF Partial, session
  <1>9. CASE Failed
    BY <1>9 DEF Failed, engine, history
  <1>10. CASE Begin
    BY <1>10 DEF Begin, DamageInv, engine, history
  <1>11. CASE Open
    BY <1>11 DEF Open, Worker, PollJoined, DamageInv, RecInv, history
  <1>12. CASE StartAudio
    BY <1>12 DEF StartAudio, engine, history
  <1>13. CASE Undo
    BY <1>13 DEF Undo, Released, RecInv, DamageInv, history
  <1>14. ASSUME NEW then \in {"finish", "cancel"}, End(then) PROVE PartialInv'
    BY <1>14 DEF End, engine, history
  <1>15. CASE MicClosed
    BY <1>15 DEF MicClosed, engine, history
  <1>16. CASE Finish
    BY <1>16 DEF Finish, PollJoined
  <1>17. CASE CancelEngine
    BY <1>17 DEF CancelEngine, Released, PollJoined, history
  <1>18. CASE Shutdown \/ StopLast
    BY <1>18 DEF Shutdown, StopLast, engine, history
  <1>19. CASE Gone \/ UNCHANGED vars
    BY <1>19 DEF Gone, vars, session, engine, history
  <1> QED
    BY <1>1, <1>2, <1>3, <1>4, <1>5, <1>6, <1>7, <1>8, <1>9, <1>10, <1>11,
       <1>12, <1>13, <1>14, <1>15, <1>16, <1>17, <1>18, <1>19
    DEF Next, PipeWire, PollWorker, Continue, Command, MicStep, Threads

LEMMA IInvInit == Init => IInv
  <1> SUFFICES ASSUME Init PROVE IInv
    OBVIOUS
  <1> USE EngineAssumption DEF Init, Recs
  <1>0. 0 \in 0 .. MaxRec
    OBVIOUS
  <1>a. Flags /\ Places
    BY DEF Flags, Places, Threads, OwnerSteps, MicSteps
  <1>b. PollTypes
    BY <1>0 DEF PollTypes, PollSteps
  <1>2. Numbers /\ Strings
    BY DEF Numbers, Strings
  <1>3. RecInv /\ MicInv
    BY DEF RecInv, MicInv, MicSteps, Joined
  <1>4. StreamInv /\ DamageInv
    BY DEF StreamInv, DamageInv, MicSteps, Joined
  <1>5. LockInv /\ ErrorInv /\ PartialInv
    BY DEF LockInv, ErrorInv, PartialInv, MicSteps, Joined
  <1> QED
    BY <1>a, <1>b, <1>2, <1>3, <1>4, <1>5, Types DEF IInv

(* The invariant of Engine: where the three threads are, and what each may  *)
(* still use.                                                              *)
THEOREM Invariant == Spec => []IInv
  <1>1. IInv /\ [Next]_vars => IInv'
    BY TypeStep, RecStep, MicStays, StreamStep, DamageStep, LockStep,
       ErrorStep, PartialStep DEF IInv
  <1> QED
    BY IInvInit, <1>1, PTL DEF Spec

(* The types of Engine.                                                    *)
THEOREM TypeCorrect == Spec => []TypeOK
  <1>1. IInv => TypeOK
    BY DEF IInv
  <1> QED
    BY <1>1, Invariant, PTL

(* No thread uses a stream that another one has freed.                     *)
THEOREM NoUseAfterFree == Spec => []StreamsInUseAreOpen
  <1>1. IInv => StreamsInUseAreOpen
    BY DEF IInv, StreamInv, StreamsInUseAreOpen, Joined
  <1> QED
    BY <1>1, Invariant, PTL

(* The process callback runs to its end on a stream and a function that are *)
(* there.                                                                  *)
THEOREM CallbacksWhole == Spec => []CallbackIsWhole
  <1>1. IInv => CallbackIsWhole
    BY DEF IInv, MicInv, CallbackIsWhole
  <1> QED
    BY <1>1, Invariant, PTL

(* A recording that lost a chunk is not delivered.                         *)
THEOREM DamageIsTold == Spec => []DamagedIsNotDelivered
  <1>1. IInv => DamagedIsNotDelivered
    BY DEF IInv, DamageInv, DamagedIsNotDelivered
  <1> QED
    BY <1>1, Invariant, PTL

(* The library has at most one stream of ours, and none in the end.         *)
THEOREM NoLeak == Spec => []NoStreamLeaks
  <1>1. IInv => NoStreamLeaks
    <2> SUFFICES ASSUME IInv PROVE NoStreamLeaks
      OBVIOUS
    <2>1. live = {} \/ live = {stream}
      BY DEF IInv, StreamInv
    <2>2. Cardinality(live) <= 1
      <3>1. Cardinality({}) = 0 /\ Cardinality({stream}) = 1
        BY FS_EmptySet, FS_Singleton
      <3> QED
        BY <2>1, <3>1
    <2> QED
      BY <2>2 DEF IInv, StreamInv, NoStreamLeaks, OwnerAt
  <1> QED
    BY <1>1, Invariant, PTL

(* Errors are told once, and of their own recording.                        *)
THEOREM ErrorsAreOwn == Spec => []ErrorsOfOwnRecording
  <1>1. IInv => ErrorsOfOwnRecording
    BY DEF IInv, ErrorInv, ErrorsOfOwnRecording
  <1> QED
    BY <1>1, Invariant, PTL

(* No partial is hidden by the one before it.                               *)
THEOREM PartialsShown == Spec => []PartialsCurrent
  <1>1. IInv => PartialsCurrent
    BY DEF IInv, PartialInv, PartialsCurrent
  <1> QED
    BY <1>1, Invariant, PTL
=============================================================================
