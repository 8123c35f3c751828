---------------------------- MODULE SocketClient ----------------------------
(***************************************************************************)
(* The plugin's connection to the daemon: class SocketClient of            *)
(* plugin/src/socket_client.cpp.  Every handler runs on the compositor's   *)
(* one thread, so each is one step; the daemon and the kernel act between  *)
(* them.                                                                   *)
(*                                                                         *)
(* An event travels as a line of two pieces, because a read may end in the *)
(* middle of one and the daemon may die in the middle of one.  A line that *)
(* is not one whole event does not parse and is only logged.  Delays are   *)
(* in milliseconds.  Failures of wl_event_loop_add_timer and a socket path *)
(* too long for sockaddr_un, after which the code gives up, are left out.  *)
(* Definitions marked "Faulty:" are no part of the model; see README.md.   *)
(***************************************************************************)
EXTENDS Integers, Sequences, SequencesExt

CONSTANTS
    kBackoffInitMs, kBackoffMaxMs,
    MaxConns,      \* bound on the connections the daemon accepts
    MaxEvents      \* bound on the events sent on one connection

ASSUME SocketAssumption ==
    /\ kBackoffInitMs \in Nat \ {0}
    /\ kBackoffMaxMs \in Nat /\ kBackoffInitMs <= kBackoffMaxMs
    /\ MaxConns \in Nat \ {0}
    /\ MaxEvents \in Nat \ {0}

NoTimer == -1
Conns   == 1 .. MaxConns

VARIABLES
    loaded,      \* between PLUGIN_INIT and PLUGIN_EXIT: yes; before, after: no
    fd,          \* m_fd >= 0
    source,      \* m_source: the event loop watches the descriptor
    retryTimer,  \* the delay m_retryTimer was armed with, or NoTimer
    backoffMs,   \* m_backoffMs
    readbuf,     \* m_readbuf: pieces of a line that is not complete
    daemon,      \* the daemon listens
    conn,        \* the latest connection, 0 before the first
    wire,        \* pieces in the socket's receive buffer
    eof,         \* the daemon's end of the connection is closed
    sent,        \* history: events sent on each connection, numbered from 1;
    dispatched   \*          events handed to the plugin's callbacks

client == <<loaded, fd, source, retryTimer, backoffMs, readbuf>>
peer   == <<daemon, conn, wire, eof>>
vars   == <<client, peer, sent, dispatched>>

\* Event n of connection c: its first and its last piece.
Begins(c, n) == [conn |-> c, num |-> n, last |-> FALSE]
Ends(c, n) == [conn |-> c, num |-> n, last |-> TRUE]
Pieces     == [conn : Conns, num : 1 .. MaxEvents, last : BOOLEAN]

\* readbuf and dispatched, which handleReadable builds, are the business of
\* EventsInOrder.
TypeOK ==
    /\ loaded \in {"no", "yes", "unloaded"}
    /\ fd \in BOOLEAN /\ source \in BOOLEAN
    /\ retryTimer \in {NoTimer} \union (kBackoffInitMs .. kBackoffMaxMs)
    /\ backoffMs \in kBackoffInitMs .. kBackoffMaxMs
    /\ daemon \in BOOLEAN /\ eof \in BOOLEAN
    /\ conn \in 0 .. MaxConns
    /\ wire \in Seq(Pieces)
    /\ sent \in [Conns -> 0 .. MaxEvents]

Init ==
    /\ loaded = "no"
    /\ fd = FALSE
    /\ source = FALSE
    /\ retryTimer = NoTimer
    /\ backoffMs = kBackoffInitMs
    /\ readbuf = <<>>
    /\ daemon \in BOOLEAN
    /\ conn = 0
    /\ wire = <<>>
    /\ eof = FALSE
    /\ sent = [c \in Conns |-> 0]
    /\ dispatched = [c \in Conns |-> <<>>]

-----------------------------------------------------------------------------
(* Helpers shared by the handlers.  Each says what the members become.     *)

\* scheduleReconnect: a pending retry is left alone.
ScheduleReconnect(timer, delay) ==
    retryTimer' = IF timer = NoTimer THEN delay ELSE timer

\* Faulty: no retry is scheduled.
HandleDisconnectForGood ==
    /\ fd' = FALSE
    /\ source' = FALSE
    /\ UNCHANGED retryTimer

\* handleDisconnect.  m_readbuf is not touched.
HandleDisconnect ==
    /\ fd' = FALSE
    /\ source' = FALSE
    /\ ScheduleReconnect(retryTimer, backoffMs)

\* connect() with the backoff b and no timer pending: the daemon may be down
\* or the descriptor refused; or the connection stands, in the listener's queue
\* until the daemon accepts and greets it; or it stands, but the identify write
\* fails, the descriptor is closed again, and connect() still resets the backoff.
ConnectFails(b) ==
    /\ ScheduleReconnect(NoTimer, b)
    /\ backoffMs' = b
    /\ UNCHANGED <<fd, source, readbuf, daemon, conn, wire, eof, sent,
                   dispatched>>

ConnectOpens ==
    /\ daemon /\ conn < MaxConns
    /\ fd' = TRUE
    /\ source' = TRUE
    /\ retryTimer' = NoTimer
    /\ backoffMs' = kBackoffInitMs
    /\ conn' = conn + 1
    /\ wire' = <<>>
    /\ eof' = FALSE
    /\ UNCHANGED <<readbuf, daemon, sent, dispatched>>

IdentifyFails(b) ==
    /\ daemon
    /\ ScheduleReconnect(NoTimer, b)
    /\ backoffMs' = kBackoffInitMs
    /\ UNCHANGED <<fd, source, readbuf, peer, sent, dispatched>>

Connect(b) == ConnectFails(b) \/ ConnectOpens \/ IdentifyFails(b)

\* parseEvent accepts a line that is one event, whole and alone.
Parses(line) ==
    /\ Len(line) = 2
    /\ line[1] = Begins(line[2].conn, line[2].num)

\* The loop of handleReadable, with the rest of a line and the events handed
\* on so far, reaches a piece: only the last one of a line completes it.
Consume(got, p) ==
    LET line == Append(got.rest, p)
    IN  IF p.last
        THEN [rest |-> <<>>,
              nums |-> IF Parses(line) THEN Append(got.nums, p.num) ELSE got.nums]
        ELSE [rest |-> line, nums |-> got.nums]

\* handleReadable on the old rest and the new pieces: the events that are
\* handed on, and the rest that stays for the next read.
Split(pieces) ==
    LET f[n \in 0 .. Len(pieces)] ==
            IF n = 0 THEN [rest |-> <<>>, nums |-> <<>>]
            ELSE Consume(f[n - 1], pieces[n])
    IN  f[Len(pieces)]

-----------------------------------------------------------------------------
(* The plugin's handlers.                                                  *)

PluginInit ==
    /\ loaded = "no"
    /\ loaded' = "yes"
    /\ Connect(backoffMs)

\* Faulty: the backoff grows without its cap.
OnRetryTimerUncapped ==
    /\ loaded = "yes" /\ retryTimer # NoTimer
    /\ Connect(backoffMs * 2)
    /\ UNCHANGED loaded

\* onRetryTimer grows the backoff before the attempt.
OnRetryTimer ==
    /\ loaded = "yes" /\ retryTimer # NoTimer
    /\ LET next == backoffMs * 2
       IN  Connect(IF next > kBackoffMaxMs THEN kBackoffMaxMs ELSE next)
    /\ UNCHANGED loaded

\* Faulty: the rest of a line is not kept for the next read.
OnReadableForgetsRest ==
    /\ loaded = "yes" /\ source /\ wire # <<>>
    /\ \E n \in 1 .. Len(wire) :
          /\ wire' = SubSeq(wire, n + 1, Len(wire))
          /\ dispatched' = [dispatched EXCEPT ![conn] =
                               @ \o Split(SubSeq(wire, 1, n)).nums]
    /\ UNCHANGED <<client, daemon, conn, eof, sent>>

\* handleReadable with data: one read takes some of it, from the front.
OnReadable ==
    /\ loaded = "yes" /\ source /\ wire # <<>>
    /\ \E n \in 1 .. Len(wire) :
          LET got == Split(readbuf \o SubSeq(wire, 1, n))
          IN  /\ wire' = SubSeq(wire, n + 1, Len(wire))
              /\ readbuf' = got.rest
              /\ dispatched' = [dispatched EXCEPT ![conn] = @ \o got.nums]
    /\ UNCHANGED <<loaded, fd, source, retryTimer, backoffMs, daemon, conn,
                   eof, sent>>

\* The peer has closed: the mask says hangup, and whatever was still unread is
\* dropped; or the reads come first and end with a zero read.
OnHangup ==
    /\ loaded = "yes" /\ source /\ eof
    /\ HandleDisconnect
    /\ wire' = <<>>
    /\ UNCHANGED <<loaded, backoffMs, readbuf, daemon, conn, eof, sent,
                   dispatched>>

\* A dispatcher's send() to a closed peer.
SendFails ==
    /\ loaded = "yes" /\ fd /\ eof
    /\ HandleDisconnect
    /\ wire' = <<>>
    /\ UNCHANGED <<loaded, backoffMs, readbuf, daemon, conn, eof, sent,
                   dispatched>>

\* PLUGIN_EXIT destroys the client.
PluginExit ==
    /\ loaded = "yes"
    /\ loaded' = "unloaded"
    /\ fd' = FALSE
    /\ source' = FALSE
    /\ retryTimer' = NoTimer
    /\ UNCHANGED <<backoffMs, readbuf, peer, sent, dispatched>>

-----------------------------------------------------------------------------
(* The daemon and the kernel.                                              *)

\* The first event of a connection is its greeting.
DaemonSends ==
    /\ daemon /\ fd /\ ~eof /\ sent[conn] < MaxEvents
    /\ LET n == sent[conn] + 1
       IN  /\ wire' = wire \o <<Begins(conn, n), Ends(conn, n)>>
           /\ sent' = [sent EXCEPT ![conn] = n]
    /\ UNCHANGED <<client, daemon, conn, eof, dispatched>>

\* The daemon stops or dies, perhaps in the middle of a line.
DaemonStops ==
    /\ daemon
    /\ daemon' = FALSE
    /\ eof' = TRUE
    /\ \/ UNCHANGED <<wire, sent>>
       \/ /\ fd /\ ~eof /\ sent[conn] < MaxEvents
          /\ wire' = Append(wire, Begins(conn, sent[conn] + 1))
          /\ sent' = [sent EXCEPT ![conn] = @ + 1]
    /\ UNCHANGED <<client, conn, dispatched>>

DaemonStarts ==
    /\ ~daemon
    /\ daemon' = TRUE
    /\ UNCHANGED <<client, conn, wire, eof, sent, dispatched>>

Handler == PluginInit \/ OnRetryTimer \/ OnReadable \/ OnHangup \/ SendFails

Next == Handler \/ PluginExit \/ DaemonSends \/ DaemonStops \/ DaemonStarts

(* The event loop serves the descriptor and the timer.  An attempt that     *)
(* the kernel could always refuse must succeed if it can again and again.   *)
Fairness ==
    /\ WF_vars(PluginInit)
    /\ WF_vars(OnReadable)
    /\ WF_vars(OnHangup)
    /\ WF_vars(OnRetryTimer)
    /\ SF_vars(OnRetryTimer /\ fd')

Spec == Init /\ [][Next]_vars
FairSpec == Spec /\ Fairness

-----------------------------------------------------------------------------
(* Properties.                                                             *)

(* Between two handlers the loaded client is either connected and watched, *)
(* or has exactly one retry pending: no handler leaves it dead, with a     *)
(* descriptor nobody watches, or with a timer that would connect twice.    *)
(* Doubling never takes the delay past its cap.                            *)
(* PLUGIN_EXIT leaves nothing registered with the compositor.              *)
ConnectedOrRetrying ==
    /\ fd = source
    /\ loaded = "yes" => fd = (retryTimer = NoTimer)
    /\ loaded # "yes" => ~fd /\ retryTimer = NoTimer
    /\ retryTimer # NoTimer => retryTimer \in kBackoffInitMs .. kBackoffMaxMs

(* However the lines are cut by reads and by daemons dying in the middle,  *)
(* the callbacks see the events of a connection in order, none twice and   *)
(* none skipped, except that the first may be lost.  Once the client was    *)
(* greeted and everything was read, everything is dispatched, and no rest   *)
(* is carried along.                                                        *)
EventsInOrder ==
    /\ fd /\ ~eof /\ wire = <<>> /\ sent[conn] > 0 =>
        /\ readbuf = <<>>
        /\ dispatched[conn] # <<>> => Last(dispatched[conn]) = sent[conn]
    /\ \A c \in Conns :
        LET d == dispatched[c]
        IN  /\ Len(d) <= sent[c]
            /\ d # <<>> => d[1] \in {1, 2}
            /\ \A i \in 1 .. Len(d) - 1 : d[i + 1] = d[i] + 1

(* A daemon that stays up is reached again.                                *)
Reconnects ==
    loaded = "yes" /\ daemon /\ conn < MaxConns
        ~> fd \/ ~daemon \/ loaded # "yes"
=============================================================================
