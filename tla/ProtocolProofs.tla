--------------------------- MODULE ProtocolProofs ---------------------------
(***************************************************************************)
(* What is said is what is heard, for every set of texts, a message at a    *)
(* time; and what another version says is heard as the parsers promise.     *)
(***************************************************************************)
EXTENDS Protocol, TLAPS

USE DEF Str, Bool, Obj, Has, TextOr

-----------------------------------------------------------------------------
(* The name of a state is parsed as that state.                            *)
LEMMA StateOf ==
    \A s \in States : ParseState(formatState[s]) = s /\ s # None
  BY ProtocolAssumption DEF States, ParseState, formatState

(* A window survives the line, and so does its absence.                    *)
LEMMA WindowHeard ==
    ASSUME NEW c \in {"start", "ptt_down"}, NEW w \in WindowContexts \union {None}
    PROVE  ParseCommand(SerializeCommand([cmd |-> c, window |-> w]))
               = [cmd |-> c, window |-> w]
  <1> DEFINE m == [cmd |-> c, window |-> w]
             j == SerializeCommand(m)
  <1>1. CASE w = None
    <2>1. j = [cmd |-> Str(c)]
      BY <1>1 DEF SerializeCommand
    <2>2. ReadWindow(j) = None
      BY <2>1 DEF ReadWindow
    <2> QED
      BY <1>1, <2>1, <2>2 DEF ParseCommand
  <1>2. CASE w # None
    <2>1. j = [cmd |-> Str(c), window |-> WriteWindow(w)]
      BY <1>2 DEF SerializeCommand
    <2>2. ReadWindow(j) = [cls |-> w.cls, title |-> w.title]
      BY <2>1 DEF ReadWindow, WriteWindow
    <2>3. w = [cls |-> w.cls, title |-> w.title]
      BY <1>2 DEF WindowContexts
    <2> QED
      BY <2>1, <2>2, <2>3 DEF ParseCommand
  <1> QED
    BY <1>1, <1>2

LEMMA CommandHeard ==
    ASSUME NEW c \in Commands
    PROVE  /\ "cmd" \in DOMAIN SerializeCommand(c) /\ "cmd" \in DOMAIN c
           /\ ParseCommand(SerializeCommand(c)) = c
  <1>1. CASE c \in [cmd : {"toggle", "stop", "cancel", "status", "reload", "ptt_up"}]
    <2>1. SerializeCommand(c) = [cmd |-> Str(c.cmd)] /\ c = [cmd |-> c.cmd]
      BY <1>1 DEF SerializeCommand
    <2> QED
      BY <1>1, <2>1 DEF ParseCommand
  <1>2. CASE c \in [cmd : {"start", "ptt_down"},
                    window : WindowContexts \union {None}]
    <2>1. c = [cmd |-> c.cmd, window |-> c.window]
      BY <1>2
    <2>2. ParseCommand(SerializeCommand(c)) = c
      BY <1>2, <2>1, WindowHeard
    <2>3. "cmd" \in DOMAIN SerializeCommand(c)
      BY <1>2 DEF SerializeCommand
    <2> QED
      BY <1>2, <2>2, <2>3
  <1>3. CASE c \in [cmd : {"identify"}, role : Texts]
    <2>1. SerializeCommand(c) = [cmd |-> Str("identify"), role |-> Str(c.role)]
      BY <1>3 DEF SerializeCommand
    <2>2. c = [cmd |-> "identify", role |-> c.role]
      BY <1>3
    <2> QED
      BY <2>1, <2>2 DEF ParseCommand
  <1> QED
    BY <1>1, <1>2, <1>3 DEF Commands

LEMMA EventHeard ==
    ASSUME NEW e \in Events
    PROVE  /\ "cmd" \notin DOMAIN SerializeEvent(e) /\ "cmd" \notin DOMAIN e
           /\ ParseEvent(SerializeEvent(e)) = e
  <1>1. CASE e \in [event : {"state"}, value : States]
    <2>1. SerializeEvent(e) = [event |-> Str("state"),
                               value |-> Str(formatState[e.value])]
      BY <1>1 DEF SerializeEvent
    <2>2. e = [event |-> "state", value |-> e.value] /\ e.value \in States
      BY <1>1
    <2> QED
      BY <2>1, <2>2, StateOf, ProtocolAssumption DEF ParseEvent
  <1>2. CASE e \in [event : {"transcript"}, text : Texts, final : BOOLEAN]
    <2>1. SerializeEvent(e) = [event |-> Str("transcript"),
                               text |-> Str(e.text), final |-> Bool(e.final)]
      BY <1>2 DEF SerializeEvent
    <2>2. e = [event |-> "transcript", text |-> e.text, final |-> e.final]
      BY <1>2
    <2> QED
      BY <2>1, <2>2 DEF ParseEvent
  <1>3. CASE e \in [event : {"status"}, state : States,
                    model_path : Texts \union {None}]
    <2>1. e = [event |-> "status", state |-> e.state, model_path |-> e.model_path]
          /\ e.state \in States
      BY <1>3
    <2>2. CASE e.model_path = None
      <3>1. SerializeEvent(e) = [event |-> Str("status"),
                                 state |-> Str(formatState[e.state])]
        BY <1>3, <2>2 DEF SerializeEvent
      <3> QED
        BY <2>1, <2>2, <3>1, StateOf, ProtocolAssumption DEF ParseEvent
    <2>3. CASE e.model_path # None
      <3>1. SerializeEvent(e) = [event |-> Str("status"),
                                 state |-> Str(formatState[e.state]),
                                 model_path |-> Str(e.model_path)]
        BY <1>3, <2>3 DEF SerializeEvent
      <3> QED
        BY <2>1, <2>3, <3>1, StateOf, ProtocolAssumption DEF ParseEvent
    <2> QED
      BY <2>2, <2>3
  <1>4. CASE e \in [event : {"error"}, message : Texts]
    <2>1. SerializeEvent(e) = [event |-> Str("error"), message |-> Str(e.message)]
      BY <1>4 DEF SerializeEvent
    <2>2. e = [event |-> "error", message |-> e.message]
      BY <1>4
    <2> QED
      BY <2>1, <2>2 DEF ParseEvent
  <1> QED
    BY <1>1, <1>2, <1>3, <1>4 DEF Events

(* Parsing undoes serializing, for every message the two ends exchange.     *)
THEOREM Heard == \A m \in Messages : Parse(Serialize(m)) = m
  BY CommandHeard, EventHeard DEF Messages, Parse, Serialize

(* A line written by this version is heard as it was meant.                *)
THEOREM RoundTrips == Spec => []RoundTrip
  <1> DEFINE Inv == /\ message \in Messages
                    /\ variant = "same" => line = Serialize(message)
  <1>1. Init => Inv
    BY DEF Init
  <1>2. Inv /\ [Next]_vars => Inv'
    BY DEF Next, Say, Vary, vars
  <1>3. Inv => RoundTrip
    BY Heard DEF RoundTrip
  <1> QED
    BY <1>1, <1>2, <1>3, PTL DEF Spec

-----------------------------------------------------------------------------
(* Lines of other versions.                                                *)

(* The strings a line carries as texts are texts, and what it says of       *)
(* finality is a truth value; the rest of it may be anything.               *)
Typed(j) ==
    /\ \A key \in {"role", "text", "message", "model_path"} :
          Has(j, key, "string") => j[key].string \in Texts
    /\ Has(j, "final", "boolean") => j["final"].boolean \in BOOLEAN
    /\ Has(j, "window", "object") =>
          \A key \in {"class", "title"} :
             Has(j["window"].object, key, "string") =>
                j["window"].object[key].string \in Texts

(* Of such a line a message is heard, or it is refused.                     *)
LEMMA WindowUnderstood ==
    ASSUME NEW j, Typed(j)
    PROVE  /\ ReadWindow(j) \in WindowContexts \union {None}
           /\ ReadWindow(j) # None <=> Has(j, "window", "object")
  <1>1. CASE Has(j, "window", "object")
    <2>1. TextOr(j.window.object, "class", Empty) \in Texts
      BY <1>1, ProtocolAssumption DEF Typed
    <2>2. TextOr(j.window.object, "title", Empty) \in Texts
      BY <1>1, ProtocolAssumption DEF Typed
    <2>3. ReadWindow(j) \in WindowContexts
      BY <1>1, <2>1, <2>2 DEF ReadWindow, WindowContexts
    <2> QED
      BY <1>1, <2>3, ProtocolAssumption
  <1>2. CASE ~Has(j, "window", "object")
    BY <1>2 DEF ReadWindow
  <1> QED
    BY <1>1, <1>2

LEMMA CommandUnderstood ==
    ASSUME NEW j, Typed(j)
    PROVE  ParseCommand(j) \in Commands \union {None}
  <1> SUFFICES ASSUME Has(j, "cmd", "string")
               PROVE  ParseCommand(j) \in Commands \union {None}
    BY DEF ParseCommand
  <1> DEFINE cmd == j.cmd.string
  <1>1. CASE cmd \in {"toggle", "stop", "cancel", "status", "reload", "ptt_up"}
    BY <1>1 DEF ParseCommand, Commands
  <1>2. CASE cmd \in {"start", "ptt_down"}
    <2>1. ParseCommand(j) = [cmd |-> cmd, window |-> ReadWindow(j)]
      BY <1>2 DEF ParseCommand
    <2> QED
      BY <1>2, <2>1, WindowUnderstood DEF Commands
  <1>3. CASE cmd = "identify"
    <2>1. TextOr(j, "role", Empty) \in Texts
      BY ProtocolAssumption DEF Typed
    <2>2. ParseCommand(j) = [cmd |-> cmd, role |-> TextOr(j, "role", Empty)]
      BY <1>3 DEF ParseCommand
    <2> QED
      BY <1>3, <2>1, <2>2 DEF Commands
  <1>4. CASE cmd \notin {"toggle", "stop", "cancel", "status", "reload",
                         "ptt_up", "start", "ptt_down", "identify"}
    BY <1>4 DEF ParseCommand
  <1> QED
    BY <1>1, <1>2, <1>3, <1>4

LEMMA EventUnderstood ==
    ASSUME NEW j, Typed(j)
    PROVE  ParseEvent(j) \in Events \union {None}
  <1> SUFFICES ASSUME Has(j, "event", "string")
               PROVE  ParseEvent(j) \in Events \union {None}
    BY DEF ParseEvent
  <1> DEFINE ev == j.event.string
  <1>0. \A s : ParseState(s) \in States \union {None}
    BY DEF ParseState, States
  <1>1. CASE ev = "state"
    BY <1>0, <1>1 DEF ParseEvent, Events
  <1>2. CASE ev = "transcript"
    <2>1. CASE Has(j, "text", "string")
      <3> DEFINE final == IF Has(j, "final", "boolean") THEN j.final.boolean ELSE TRUE
      <3>1. j.text.string \in Texts /\ final \in BOOLEAN
        BY <2>1 DEF Typed
      <3>2. ParseEvent(j) = [event |-> ev, text |-> j.text.string, final |-> final]
        BY <1>2, <2>1 DEF ParseEvent
      <3> HIDE DEF final
      <3>3. [event |-> ev, text |-> j.text.string, final |-> final]
                \in [event : {"transcript"}, text : Texts, final : BOOLEAN]
        BY <1>2, <3>1, Zenon
      <3> QED
        BY <3>2, <3>3 DEF Events
    <2>2. CASE ~Has(j, "text", "string")
      BY <1>2, <2>2 DEF ParseEvent
    <2> QED
      BY <2>1, <2>2
  <1>3. CASE ev = "status"
    <2> DEFINE st == IF Has(j, "state", "string") /\ ParseState(j.state.string) # None
                     THEN ParseState(j.state.string) ELSE "Idle"
    <2>1. st \in States
      BY <1>0 DEF States
    <2>2. TextOr(j, "model_path", None) \in Texts \union {None}
      BY DEF Typed
    <2>3. ParseEvent(j) = [event |-> ev, state |-> st,
                           model_path |-> TextOr(j, "model_path", None)]
      BY <1>3 DEF ParseEvent
    <2> QED
      BY <1>3, <2>1, <2>2, <2>3 DEF Events
  <1>4. CASE ev = "error"
    <2>1. TextOr(j, "message", Empty) \in Texts
      BY ProtocolAssumption DEF Typed
    <2>2. ParseEvent(j) = [event |-> ev, message |-> TextOr(j, "message", Empty)]
      BY <1>4 DEF ParseEvent
    <2> QED
      BY <1>4, <2>1, <2>2 DEF Events
  <1>5. CASE ev \notin {"state", "transcript", "status", "error"}
    BY <1>5 DEF ParseEvent
  <1> QED
    BY <1>1, <1>2, <1>3, <1>4, <1>5

(* Parsing looks at the keys it knows, and at no other.                     *)
Keys == {"cmd", "window", "role", "event", "value", "text", "final", "state",
         "model_path", "message"}

LEMMA OtherKeysIgnored ==
    ASSUME NEW j, NEW o,
           \A key \in Keys : /\ key \in DOMAIN j <=> key \in DOMAIN o
                             /\ key \in DOMAIN j => j[key] = o[key]
    PROVE  Parse(j) = Parse(o)
  <1>1. \A key \in Keys : \A type : Has(j, key, type) <=> Has(o, key, type)
    OBVIOUS
  <1>2. \A key \in Keys : Has(j, key, "string") => j[key].string = o[key].string
    OBVIOUS
  <1>3. \A key \in Keys : \A d : TextOr(j, key, d) = TextOr(o, key, d)
    BY <1>1, <1>2
  <1>4. ReadWindow(j) = ReadWindow(o)
    BY DEF ReadWindow, Keys
  <1>5. ParseCommand(j) = ParseCommand(o)
    <2>1. "cmd" \in Keys /\ "role" \in Keys
      BY DEF Keys
    <2> HIDE DEF Has, TextOr
    <2> QED
      BY <1>1, <1>2, <1>3, <1>4, <2>1 DEF ParseCommand
  <1>6. ParseEvent(j) = ParseEvent(o)
    <2>1. {"event", "value", "text", "final", "state", "model_path", "message"}
              \subseteq Keys
      BY DEF Keys
    <2>2. Has(j, "final", "boolean") => j["final"].boolean = o["final"].boolean
      BY <2>1
    <2> HIDE DEF Has, TextOr
    <2> QED
      BY <1>1, <1>2, <1>3, <2>1, <2>2 DEF ParseEvent
  <1> QED
    BY <1>5, <1>6 DEF Parse, Keys

(* What this version writes: typed, of known keys, and with a window only   *)
(* if the message, a start, has one.                                       *)
LEMMA Written ==
    ASSUME NEW m \in Messages, NEW s, s = Serialize(m)
    PROVE  /\ Typed(s)
           /\ DOMAIN s \subseteq Keys
           /\ "window" \in DOMAIN s =>
                 /\ HasWindow(m)
                 /\ m.cmd \in {"start", "ptt_down"}
                 /\ "cmd" \in DOMAIN s /\ s["cmd"] = Str(m.cmd)
                 /\ s["window"] = WriteWindow(m.window)
                 /\ m.window \in WindowContexts
  <1>1. CASE m \in Commands
    <2>0. "cmd" \in DOMAIN m
      BY <1>1 DEF Commands
    <2>1. CASE m \in [cmd : {"toggle", "stop", "cancel", "status", "reload", "ptt_up"}]
      <3>1. s = [cmd |-> Str(m.cmd)]
        BY <2>0, <2>1 DEF Serialize, SerializeCommand
      <3> QED
        BY <3>1 DEF Typed, Keys
    <2>2. CASE m \in [cmd : {"start", "ptt_down"}, window : WindowContexts \union {None}]
      <3>1. CASE m.window = None
        <4>1. s = [cmd |-> Str(m.cmd)]
          BY <2>0, <2>2, <3>1 DEF Serialize, SerializeCommand
        <4> QED
          BY <4>1 DEF Typed, Keys
      <3>2. CASE m.window # None
        <4>1. s = [cmd |-> Str(m.cmd), window |-> WriteWindow(m.window)]
          BY <2>0, <2>2, <3>2 DEF Serialize, SerializeCommand
        <4>2. m.window \in WindowContexts /\ m.cmd \in {"start", "ptt_down"}
              /\ "window" \in DOMAIN m
          BY <2>2, <3>2
        <4>3. Typed(s)
          BY <4>1, <4>2 DEF Typed, WriteWindow, WindowContexts
        <4>4. HasWindow(m)
          BY <3>2, <4>2, ProtocolAssumption DEF HasWindow
        <4> QED
          BY <4>1, <4>2, <4>3, <4>4 DEF Keys
      <3> QED
        BY <3>1, <3>2
    <2>3. CASE m \in [cmd : {"identify"}, role : Texts]
      <3>1. s = [cmd |-> Str("identify"), role |-> Str(m.role)]
        BY <2>0, <2>3 DEF Serialize, SerializeCommand
      <3> QED
        BY <2>3, <3>1 DEF Typed, Keys
    <2> QED
      BY <1>1, <2>1, <2>2, <2>3 DEF Commands
  <1>2. CASE m \in Events
    <2>0. "cmd" \notin DOMAIN m
      BY <1>2 DEF Events
    <2>1. CASE m \in [event : {"state"}, value : States]
      <3>1. s = [event |-> Str("state"), value |-> Str(formatState[m.value])]
        BY <2>0, <2>1 DEF Serialize, SerializeEvent
      <3> QED
        BY <3>1 DEF Typed, Keys
    <2>2. CASE m \in [event : {"transcript"}, text : Texts, final : BOOLEAN]
      <3>1. s = [event |-> Str("transcript"), text |-> Str(m.text),
                 final |-> Bool(m.final)]
        BY <2>0, <2>2 DEF Serialize, SerializeEvent
      <3>2. m.text \in Texts /\ m.final \in BOOLEAN
        BY <2>2
      <3>3. Typed(s)
        BY <3>1, <3>2 DEF Typed
      <3> QED
        BY <3>1, <3>3 DEF Keys
    <2>3. CASE m \in [event : {"status"}, state : States,
                      model_path : Texts \union {None}]
      <3>1. CASE m.model_path = None
        <4>1. s = [event |-> Str("status"), state |-> Str(formatState[m.state])]
          BY <2>0, <2>3, <3>1 DEF Serialize, SerializeEvent
        <4> QED
          BY <4>1 DEF Typed, Keys
      <3>2. CASE m.model_path # None
        <4>1. s = [event |-> Str("status"), state |-> Str(formatState[m.state]),
                   model_path |-> Str(m.model_path)]
          BY <2>0, <2>3, <3>2 DEF Serialize, SerializeEvent
        <4>2. m.model_path \in Texts
          BY <2>3, <3>2
        <4> QED
          BY <4>1, <4>2 DEF Typed, Keys
      <3> QED
        BY <3>1, <3>2
    <2>4. CASE m \in [event : {"error"}, message : Texts]
      <3>1. s = [event |-> Str("error"), message |-> Str(m.message)]
        BY <2>0, <2>4 DEF Serialize, SerializeEvent
      <3> QED
        BY <2>4, <3>1 DEF Typed, Keys
    <2> QED
      BY <1>2, <2>1, <2>2, <2>3, <2>4 DEF Events
  <1> QED
    BY <1>1, <1>2 DEF Messages

-----------------------------------------------------------------------------
(* How a line may have come from what its writer would have written.        *)
Adds(l, s) == l = [k \in DOMAIN s \union {"extra"} |->
                       IF k = "extra" THEN Null ELSE s[k]]

Windowless(l, s) ==
    /\ Has(s, "window", "object")
    /\ \E key \in {"class", "title"} :
          l = [s EXCEPT !.window = Obj(Without(@.object, key))]

Varied ==
    LET s == Serialize(message)
    IN  /\ message \in Messages
        /\ variant \in {"same", "lacks", "differs", "window", "adds"}
        /\ variant = "same" => line = s
        /\ variant = "adds" => Adds(line, s)
        /\ variant = "window" => Windowless(line, s)
        /\ Typed(line)
        /\ "window" \in DOMAIN line => "window" \in DOMAIN s

(* Each way to vary a line leaves it typed, and adds no window.             *)
LEMMA VaryTyped ==
    ASSUME Varied, Vary
    PROVE  Varied'
  <1> DEFINE s == Serialize(message)
  <1>0. /\ message \in Messages /\ line = s /\ message' = message
        /\ Typed(s) /\ DOMAIN s \subseteq Keys
    BY Written DEF Varied, Vary
  <1> HIDE DEF s
  <1>1. CASE \E key \in DOMAIN line : line' = Without(line, key) /\ variant' = "lacks"
    <2>1. PICK key \in DOMAIN s : line' = Without(s, key) /\ variant' = "lacks"
      BY <1>0, <1>1
    <2>2. DOMAIN line' \subseteq DOMAIN s
          /\ \A k \in DOMAIN line' : line'[k] = s[k]
      BY <2>1 DEF Without
    <2>3. Typed(line')
      BY <1>0, <2>2 DEF Typed
    <2> QED
      BY <1>0, <2>1, <2>2, <2>3 DEF Varied, s, Typed
  <1>2. CASE \E key \in DOMAIN line,
                v \in {Null, Obj([x |-> Null])} \union {Str(t) : t \in Texts} :
                line' = [line EXCEPT ![key] = v] /\ variant' = "differs"
    <2>1. PICK key \in DOMAIN s,
               v \in {Null, Obj([x |-> Null])} \union {Str(t) : t \in Texts} :
               line' = [s EXCEPT ![key] = v] /\ variant' = "differs"
      BY <1>0, <1>2
    <2>2. /\ DOMAIN line' = DOMAIN s /\ line'[key] = v
          /\ \A k \in DOMAIN line' \ {key} : line'[k] = s[k]
      BY <2>1
    <2>3. /\ v.type = "string" => v.string \in Texts
          /\ v.type # "boolean"
          /\ v.type = "object" => DOMAIN v.object = {"x"}
      BY <2>1 DEF Null
    <2>4. Typed(line')
      BY <1>0, <2>2, <2>3 DEF Typed
    <2> QED
      BY <1>0, <2>1, <2>2, <2>4 DEF Varied, s, Typed
  <1>3. CASE Windowless(line', line) /\ variant' = "window"
    <2>1. PICK key \in {"class", "title"} :
             line' = [s EXCEPT !.window = Obj(Without(@.object, key))]
      BY <1>0, <1>3 DEF Windowless
    <2>2. /\ "window" \in DOMAIN s /\ DOMAIN line' = DOMAIN s
          /\ line'["window"] = Obj(Without(s["window"].object, key))
          /\ \A k \in DOMAIN line' \ {"window"} : line'[k] = s[k]
      BY <1>0, <1>3, <2>1 DEF Windowless
    <2>3. /\ DOMAIN line'["window"].object \subseteq DOMAIN s["window"].object
          /\ \A k \in DOMAIN line'["window"].object :
                line'["window"].object[k] = s["window"].object[k]
      BY <2>2 DEF Without
    <2>4. Has(s, "window", "object")
      BY <1>0, <1>3 DEF Windowless
    <2>5. Typed(line')
      BY <1>0, <2>2, <2>3, <2>4 DEF Typed
    <2> QED
      BY <1>0, <1>3, <2>2, <2>5 DEF Varied, s, Typed
  <1>4. CASE Adds(line', line) /\ variant' = "adds"
    <2>1. /\ DOMAIN line' = DOMAIN s \union {"extra"}
          /\ \A k \in DOMAIN s : line'[k] = s[k]
      BY <1>0, <1>4 DEF Adds, Keys
    <2>2. Typed(line')
      BY <1>0, <2>1 DEF Typed
    <2> QED
      BY <1>0, <1>4, <2>1, <2>2 DEF Varied, s, Typed
  <1> QED
    BY <1>1, <1>2, <1>3, <1>4 DEF Vary, Windowless, Adds

(* Whatever another version leaves out, types otherwise or adds, a line is  *)
(* heard as a message or refused, and the window of a start stays or goes   *)
(* with it.                                                                *)
THEOREM Understood == Spec => []VersionsGetOn
  <1>1. Init => Varied
    BY Written DEF Init, Varied
  <1>2. Varied /\ [Next]_vars => Varied'
    <2> SUFFICES ASSUME Varied, [Next]_vars PROVE Varied'
      OBVIOUS
    <2>1. CASE Vary
      BY <2>1, VaryTyped
    <2>2. CASE \E m \in Messages : Say(m)
      BY <2>2, Written DEF Say, Varied
    <2>3. CASE UNCHANGED vars
      BY <2>3 DEF vars, Varied, Typed
    <2> QED
      BY <2>1, <2>2, <2>3 DEF Next
  <1>3. Varied => VersionsGetOn
    <2> SUFFICES ASSUME Varied PROVE VersionsGetOn
      OBVIOUS
    <2> DEFINE heard == Parse(line)
               s == Serialize(message)
    <2>0. message \in Messages /\ Typed(line)
      BY DEF Varied
    <2>1. heard \in Messages \union {None}
      BY <2>0, CommandUnderstood, EventUnderstood DEF Parse, Messages
    <2>2. ASSUME variant = "adds" PROVE heard = message
      <3>1. DOMAIN s \subseteq Keys
        BY <2>0, Written
      <3>2. Adds(line, s)
        BY <2>2 DEF Varied
      <3> HIDE DEF s
      <3>3. \A key \in Keys : /\ key \in DOMAIN line <=> key \in DOMAIN s
                              /\ key \in DOMAIN line => line[key] = s[key]
        BY <3>1, <3>2 DEF Adds, Keys
      <3>4. Parse(line) = Parse(s)
        BY <3>3, OtherKeysIgnored
      <3> QED
        BY <2>0, <3>4, Heard DEF s
    <2>3. ASSUME HasWindow(heard) PROVE HasWindow(message)
      <3>1. heard \in [cmd : {"start", "ptt_down"}, window : WindowContexts \union {None}]
        BY <2>1, <2>3 DEF HasWindow, Messages, Commands, Events
      <3>2. heard.window = ReadWindow(line)
        <4>1. heard # None
          BY <2>3 DEF HasWindow
        <4>2. heard \notin Events
          BY <3>1 DEF Events
        <4>3. heard = ParseCommand(line) /\ Has(line, "cmd", "string")
          BY <2>0, <4>1, <4>2, EventUnderstood DEF Parse, ParseCommand
        <4>4. CASE line.cmd.string \in {"start", "ptt_down"}
          BY <4>3, <4>4 DEF ParseCommand
        <4>5. CASE line.cmd.string = "identify"
          BY <3>1, <4>3, <4>5 DEF ParseCommand
        <4>6. CASE line.cmd.string \notin {"start", "ptt_down", "identify"}
          BY <3>1, <4>1, <4>3, <4>6 DEF ParseCommand
        <4> QED
          BY <4>4, <4>5, <4>6
      <3>3. "window" \in DOMAIN line
        BY <2>3, <3>2 DEF HasWindow, ReadWindow
      <3> QED
        BY <2>0, <3>3, Written DEF Varied
    <2>4. ASSUME variant = "window" PROVE HasWindow(heard)
      <3>1. Windowless(line, s) /\ Has(s, "window", "object")
        BY <2>4 DEF Varied, Windowless
      <3>2. /\ message.cmd \in {"start", "ptt_down"}
            /\ "cmd" \in DOMAIN s /\ s["cmd"] = Str(message.cmd)
        BY <2>0, <3>1, Written
      <3> HIDE DEF s
      <3>3. /\ "cmd" \in DOMAIN line /\ line["cmd"] = Str(message.cmd)
            /\ Has(line, "window", "object")
        BY <3>1, <3>2 DEF Windowless
      <3>4. heard = [cmd |-> message.cmd, window |-> ReadWindow(line)]
        BY <3>2, <3>3 DEF Parse, ParseCommand
      <3>5. ReadWindow(line) # None
        BY <2>0, <3>3, WindowUnderstood
      <3>6. heard \in Messages
        BY <2>0, <3>2, <3>4, WindowUnderstood DEF Messages, Commands
      <3> QED
        BY <3>4, <3>5, <3>6, ProtocolAssumption DEF HasWindow
    <2> QED
      BY <2>1, <2>2, <2>3, <2>4 DEF VersionsGetOn
  <1> QED
    BY <1>1, <1>2, <1>3, PTL DEF Spec
=============================================================================
