------------------------------ MODULE Protocol ------------------------------
(***************************************************************************)
(* The line protocol between the daemon and its clients: the types of       *)
(* shared/include/hyprdictate/protocol.hpp and the conversions of           *)
(* shared/src/protocol.cpp and state.cpp.  A JSON value is its type and its *)
(* value; an object is a record.  The text of a line, its escapes and the    *)
(* wording of errors are the JSON library's and are left out.               *)
(*                                                                         *)
(* The two ends are separate programs and may be of different versions: a   *)
(* line may lack a key, carry one that is unknown, or a value of a type     *)
(* nobody expects.  Definitions marked "Faulty:" are no part of the model;  *)
(* see README.md.                                                           *)
(***************************************************************************)
CONSTANTS
    Texts, Empty,   \* strings a message may carry; the empty one
    None            \* the empty optional, and the result of a parser that throws

VARIABLES
    message,   \* what one end wanted to say
    line,      \* the line it wrote
    variant    \* how the line differs from what this version writes

vars == <<message, line, variant>>

States == {"Idle", "Recording", "Transcribing", "Error", "Cancelled"}
WindowContexts == [cls : Texts, title : Texts]

Commands ==
    [cmd : {"toggle", "stop", "cancel", "status", "reload", "ptt_up"}]
    \union [cmd : {"start", "ptt_down"}, window : WindowContexts \union {None}]
    \union [cmd : {"identify"}, role : Texts]

Events ==
    [event : {"state"}, value : States]
    \union [event : {"transcript"}, text : Texts, final : BOOLEAN]
    \union [event : {"status"}, state : States,
            model_path : Texts \union {None}]
    \union [event : {"error"}, message : Texts]

Messages == Commands \union Events

ASSUME ProtocolAssumption ==
    /\ Empty \in Texts
    /\ None \notin Texts \union States \union WindowContexts \union Messages

-----------------------------------------------------------------------------
(* JSON.                                                                   *)

Str(s)  == [type |-> "string", string |-> s]
Bool(b) == [type |-> "boolean", boolean |-> b]
Obj(o)  == [type |-> "object", object |-> o]
Null    == [type |-> "null"]

\* contains(key) and the type test that goes with it everywhere.
Has(j, key, type) == key \in DOMAIN j /\ j[key].type = type

-----------------------------------------------------------------------------
(* State names.                                                            *)

formatState ==
    [Idle |-> "idle", Recording |-> "recording",
     Transcribing |-> "transcribing", Error |-> "error",
     Cancelled |-> "cancelled"]

\* Of the string a value is: the state of that name, or none.
ParseState(s) ==
    CASE s = "idle"         -> "Idle"
      [] s = "recording"    -> "Recording"
      [] s = "transcribing" -> "Transcribing"
      [] s = "error"        -> "Error"
      [] s = "cancelled"    -> "Cancelled"
      [] OTHER              -> None

-----------------------------------------------------------------------------
(* serialize.                                                              *)

WriteWindow(w) == Obj([class |-> Str(w.cls), title |-> Str(w.title)])

SerializeCommand(c) ==
    CASE c.cmd \in {"start", "ptt_down"} ->
             IF c.window = None THEN [cmd |-> Str(c.cmd)]
             ELSE [cmd |-> Str(c.cmd), window |-> WriteWindow(c.window)]
      [] c.cmd = "identify" -> [cmd |-> Str("identify"), role |-> Str(c.role)]
      [] OTHER -> [cmd |-> Str(c.cmd)]

\* Faulty: a transcript does not say whether it is final.
SerializeEventNoFinal(e) ==
    CASE e.event = "state" ->
             [event |-> Str("state"), value |-> Str(formatState[e.value])]
      [] e.event = "transcript" ->
             [event |-> Str("transcript"), text |-> Str(e.text)]
      [] e.event = "status" ->
             IF e.model_path = None
             THEN [event |-> Str("status"), state |-> Str(formatState[e.state])]
             ELSE [event |-> Str("status"), state |-> Str(formatState[e.state]),
                   model_path |-> Str(e.model_path)]
      [] OTHER -> [event |-> Str("error"), message |-> Str(e.message)]

SerializeEvent(e) ==
    CASE e.event = "state" ->
             [event |-> Str("state"), value |-> Str(formatState[e.value])]
      [] e.event = "transcript" ->
             [event |-> Str("transcript"), text |-> Str(e.text),
              final |-> Bool(e.final)]
      [] e.event = "status" ->
             IF e.model_path = None
             THEN [event |-> Str("status"), state |-> Str(formatState[e.state])]
             ELSE [event |-> Str("status"), state |-> Str(formatState[e.state]),
                   model_path |-> Str(e.model_path)]
      [] OTHER -> [event |-> Str("error"), message |-> Str(e.message)]

Serialize(m) ==
    IF "cmd" \in DOMAIN m THEN SerializeCommand(m) ELSE SerializeEvent(m)

-----------------------------------------------------------------------------
(* parseCommand and parseEvent, of a JSON object.                          *)

\* What a missing or ill-typed string stands for.
TextOr(j, key, default) == IF Has(j, key, "string") THEN j[key].string ELSE default

\* Faulty: an object without a class or a title is no window.
ReadWindowStrict(j) ==
    IF /\ Has(j, "window", "object")
       /\ Has(j.window.object, "class", "string") /\ Has(j.window.object, "title", "string")
       /\ j.window.object.title.string # Empty
    THEN [cls   |-> j.window.object.class.string,
          title |-> j.window.object.title.string]
    ELSE None

ReadWindow(j) ==
    IF Has(j, "window", "object")
    THEN [cls   |-> TextOr(j.window.object, "class", Empty),
          title |-> TextOr(j.window.object, "title", Empty)]
    ELSE None

ParseCommand(j) ==
    IF ~Has(j, "cmd", "string") THEN None
    ELSE LET cmd == j.cmd.string
         IN  CASE cmd \in {"toggle", "stop", "cancel", "status", "reload",
                           "ptt_up"} -> [cmd |-> cmd]
               [] cmd \in {"start", "ptt_down"} ->
                      [cmd |-> cmd, window |-> ReadWindow(j)]
               [] cmd = "identify" ->
                      [cmd |-> cmd, role |-> TextOr(j, "role", Empty)]
               [] OTHER -> None

\* A state event must say a state; a status reply that does not is Idle.  A
\* transcript that does not say is final.
ParseEvent(j) ==
    IF ~Has(j, "event", "string") THEN None
    ELSE LET ev == j.event.string
         IN  CASE ev = "state" ->
                      IF Has(j, "value", "string") /\ ParseState(j.value.string) # None
                      THEN [event |-> ev, value |-> ParseState(j.value.string)]
                      ELSE None
               [] ev = "transcript" ->
                      IF Has(j, "text", "string")
                      THEN [event |-> ev, text |-> j.text.string,
                            final |-> IF Has(j, "final", "boolean")
                                      THEN j.final.boolean ELSE TRUE]
                      ELSE None
               [] ev = "status" ->
                      [event |-> ev,
                       state |-> IF Has(j, "state", "string")
                                    /\ ParseState(j.state.string) # None
                                 THEN ParseState(j.state.string) ELSE "Idle",
                       model_path |-> TextOr(j, "model_path", None)]
               [] ev = "error" ->
                      [event |-> ev, message |-> TextOr(j, "message", Empty)]
               [] OTHER -> None

Parse(j) == IF "cmd" \in DOMAIN j THEN ParseCommand(j) ELSE ParseEvent(j)

-----------------------------------------------------------------------------
(* The two ends.                                                           *)

Init ==
    /\ message \in Messages
    /\ line = Serialize(message)
    /\ variant = "same"

Say(m) ==
    /\ message' = m
    /\ line' = Serialize(m)
    /\ variant' = "same"

Without(o, key) == [k \in DOMAIN o \ {key} |-> o[k]]

\* Another version leaves out a key, has another type for it, or adds one.
Vary ==
    /\ variant = "same"
    /\ \/ \E key \in DOMAIN line :
             line' = Without(line, key) /\ variant' = "lacks"
       \/ \E key \in DOMAIN line,
             v \in {Null, Obj([x |-> Null])} \union {Str(t) : t \in Texts} :
             line' = [line EXCEPT ![key] = v] /\ variant' = "differs"
       \/ /\ Has(line, "window", "object")
          /\ \E key \in {"class", "title"} :
                line' = [line EXCEPT !.window = Obj(Without(@.object, key))]
          /\ variant' = "window"
       \/ /\ line' = [k \in DOMAIN line \union {"extra"} |->
                          IF k = "extra" THEN Null ELSE line[k]]
          /\ variant' = "adds"
    /\ UNCHANGED message

Next == Vary \/ \E m \in Messages : Say(m)

Spec == Init /\ [][Next]_vars

-----------------------------------------------------------------------------
(* Properties.                                                             *)

(* protocol_test.cpp: what is said is what is heard, whatever the texts.  A  *)
(* partial stays a partial, a command keeps its window, and one without      *)
(* one is not given any.                                                    *)
RoundTrip == variant = "same" => Parse(line) = message

HasWindow(m) == m # None /\ "window" \in DOMAIN m /\ m.window # None

(* Another version is still understood: whatever a line lacks, it is heard  *)
(* as a message or refused; a key that is unknown changes nothing; and no   *)
(* difference moves the injection from the daemon to the client, which      *)
(* owns it if its start has a window, nor does the lack of a class or a      *)
(* title move it back.                                                     *)
VersionsGetOn ==
    LET heard == Parse(line)
    IN  /\ heard \in Messages \union {None}
        /\ variant = "adds" => heard = message
        /\ HasWindow(heard) => HasWindow(message)
        /\ variant = "window" => HasWindow(heard)
=============================================================================
