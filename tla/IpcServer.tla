----------------------------- MODULE IpcServer ------------------------------
(***************************************************************************)
(* The daemon's socket: class IpcServer of daemon/src/ipc.cpp, with its     *)
(* clients.  Every handler runs on the IO thread and is one step.  The      *)
(* Session's threads announce events at any time; broadcast() only posts    *)
(* them, and they are sent from the IO thread in the order of the posts,    *)
(* until the event loop is stopped.                                         *)
(*                                                                         *)
(* A client is a subscriber, which stays and writes what it likes (the      *)
(* plugin, a widget), or a run of the command line tool, which writes one   *)
(* line, prints the answer if the command is status, and leaves             *)
(* (cli/src/main.cpp).  What an answer or an event says is reduced to its    *)
(* kind and a number, and an answer carries the number of the line it        *)
(* answers, which only the properties look at.  Commands return, as Session  *)
(* shows; the socket file, permissions and log lines are left out, and so is *)
(* the role a plugin identifies with, which is only logged.  Definitions     *)
(* marked "Faulty:" are no part of the model; see README.md.                *)
(***************************************************************************)
EXTENDS Naturals, Sequences, FiniteSets

CONSTANTS
    Subscribers, Tools,   \* connections, each used once
    Readers,      \* the clients that read what the daemon writes to them
    MaxEvents,    \* bound on the events announced
    MaxLines      \* bound on the lines all clients write together

Conns == Subscribers \union Tools

ASSUME IpcAssumption ==
    /\ Subscribers \intersect Tools = {}
    /\ Tools \subseteq Readers /\ Readers \subseteq Conns
    /\ MaxEvents \in Nat /\ MaxLines \in Nat

VARIABLES
    running,     \* io_context::run has not been stopped, the acceptor is open
    accepting,   \* an async_accept is outstanding
    state,       \* Session::m_state, as the number of its latest change
    posted,      \* broadcasts handed to asio::post, not yet run
    members,     \* m_connections
    peer,        \* the client's end of the connection
    accepted,    \* the daemon has accepted it
    reading,     \* an async_read_until is outstanding
    box,         \* m_outbox, and the async_writes that are outstanding
    written,     \* lines the client wrote,
    taken,       \*   and how many of them the daemon has read
    got,         \* lines that reached the client's socket, while it is open
    printed,     \* the event whose text a status tool printed
    announced, from
        \* history: the events announced, in the order of the posts; how many
        \* of them had been broadcast when the client was accepted

session == <<state, announced>>
server  == <<running, accepting, posted, members, accepted, reading, box, taken, from>>
clients == <<peer, written, got, printed>>
vars    == <<session, server, clients>>

\* The number of a status is that of the state it reports.
Broadcasts  == [kind : {"state"}, num : 1 .. MaxEvents]
Greeting    == [kind |-> "greeting", num |-> state]
Reply(n)    == [kind |-> "reply", num |-> state, line |-> n]
Refusal(n)  == [kind |-> "error", line |-> n]

\* A line asks for the status; or does not parse, or is reload, which get an
\* error; or is a command without an answer (start, stop, toggle, cancel), which
\* gets an error if it throws.  An identify is one that never does.
Lines == {"status", "bad", "command"}

Init ==
    /\ running = TRUE /\ accepting = TRUE
    /\ state = 0
    /\ posted = <<>>
    /\ members = {}
    /\ peer = [c \in Conns |-> "none"]
    /\ accepted = [c \in Conns |-> FALSE]
    /\ reading = [c \in Conns |-> FALSE]
    /\ box = [c \in Conns |-> [out |-> <<>>, writes |-> <<>>]]
    /\ written = [c \in Conns |-> <<>>]
    /\ taken = [c \in Conns |-> 0]
    /\ got = [c \in Conns |-> <<>>]
    /\ printed = [c \in Tools |-> "nothing"]
    /\ announced = <<>>
    /\ from = [c \in Conns |-> 0]

\* The messages of these kinds: SelectSeq, written so that it can be proved about.
Only(s, kinds) ==
    LET f[n \in 0 .. Len(s)] ==
            IF n = 0 THEN <<>>
            ELSE IF s[n].kind \in kinds THEN Append(f[n - 1], s[n])
            ELSE f[n - 1]
    IN  f[Len(s)]

-----------------------------------------------------------------------------
(* The Session's threads.                                                  *)

\* setState stores the state and posts its announcement.  An accept between
\* the two greets as one after them does, so they are one step.  Once
\* io_context is stopped a post has no effect that is ever seen.
SetState ==
    /\ state < MaxEvents
    /\ state' = state + 1
    /\ LET m == [kind |-> "state", num |-> state']
       IN  /\ posted' = IF running THEN Append(posted, m) ELSE posted
           /\ announced' = Append(announced, m)
    /\ UNCHANGED <<running, accepting, members, accepted, reading, box, taken, from,
                   clients>>

-----------------------------------------------------------------------------
(* The IO thread.                                                          *)

\* Connection::send: the first line of an empty outbox starts the writing.
Queue(b, m) ==
    [out    |-> Append(b.out, m),
     writes |-> IF b.out = <<>> THEN <<m>> ELSE b.writes]

\* Faulty: a new connection is not told the present state.
AcceptSilent(c) ==
    /\ running /\ accepting /\ peer[c] # "none" /\ ~accepted[c]
    /\ accepted' = [accepted EXCEPT ![c] = TRUE]
    /\ members' = members \union {c}
    /\ reading' = [reading EXCEPT ![c] = TRUE]
    /\ from' = [from EXCEPT ![c] = Len(announced) - Len(posted)]
    /\ UNCHANGED <<session, clients, running, accepting, posted, box, taken>>

\* The accept handler adds the connection, greets it with the state of this
\* moment, which may be ahead of the posted broadcasts, begins to read, and
\* accepts the next.
Accept(c) ==
    /\ running /\ accepting /\ peer[c] # "none" /\ ~accepted[c]
    /\ accepted' = [accepted EXCEPT ![c] = TRUE]
    /\ members' = members \union {c}
    /\ box' = [box EXCEPT ![c] = Queue(@, Greeting)]
    /\ reading' = [reading EXCEPT ![c] = TRUE]
    /\ from' = [from EXCEPT ![c] = Len(announced) - Len(posted)]
    /\ UNCHANGED <<session, clients, running, accepting, posted, taken>>

\* An accept that fails (out of descriptors, say) is logged and not tried again:
\* whoever connects from now on waits for good.
AcceptFails ==
    /\ running /\ accepting
    /\ accepting' = FALSE
    /\ UNCHANGED <<session, clients, running, posted, members, accepted, reading,
                   box, taken, from>>

\* Faulty: one client that does not read holds up all.
RunBroadcastWaits ==
    /\ running /\ posted # <<>>
    /\ \A c \in members : box[c].writes = <<>>
    /\ posted' = Tail(posted)
    /\ box' = [c \in Conns |-> IF c \in members THEN Queue(box[c], Head(posted))
                                                ELSE box[c]]
    /\ UNCHANGED <<session, clients, running, accepting, members, accepted, reading,
                   taken, from>>

\* The handler broadcast() posted.
RunBroadcast ==
    /\ running /\ posted # <<>>
    /\ posted' = Tail(posted)
    /\ box' = [c \in Conns |-> IF c \in members THEN Queue(box[c], Head(posted))
                                                ELSE box[c]]
    /\ UNCHANGED <<session, clients, running, accepting, members, accepted, reading,
                   taken, from>>

\* Faulty: an answer goes ahead of what waits to be written.
Overtake(b, m) ==
    IF b.out = <<>> THEN Queue(b, m)
    ELSE [b EXCEPT !.out = <<Head(@), m>> \o Tail(@)]

OnLineAhead(c) ==
    /\ running /\ reading[c] /\ taken[c] < Len(written[c])
    /\ taken' = [taken EXCEPT ![c] = @ + 1]
    /\ LET line == written[c][taken[c] + 1]
       IN  \/ /\ line = "status"
              /\ box' = [box EXCEPT ![c] = Overtake(@, Reply(taken'[c]))]
           \/ /\ line \in {"bad", "command"}
              /\ box' = [box EXCEPT ![c] = Overtake(@, Refusal(taken'[c]))]
           \/ line = "command" /\ UNCHANGED box
    /\ UNCHANGED <<session, clients, running, accepting, posted, members,
                   accepted, reading, from>>

\* onLine: the Session's reply, the error of a line it does not take, or that of
\* a command that threw, goes to the one who wrote the line.
OnLine(c) ==
    /\ running /\ reading[c] /\ taken[c] < Len(written[c])
    /\ taken' = [taken EXCEPT ![c] = @ + 1]
    /\ LET line == written[c][taken[c] + 1]
       IN  \/ /\ line = "status"
              /\ box' = [box EXCEPT ![c] = Queue(@, Reply(taken'[c]))]
           \/ /\ line \in {"bad", "command"}
              /\ box' = [box EXCEPT ![c] = Queue(@, Refusal(taken'[c]))]
           \/ line = "command" /\ UNCHANGED box
    /\ UNCHANGED <<session, clients, running, accepting, posted, members,
                   accepted, reading, from>>

\* A Connection, and its outbox, lives as long as a handler or the list has it.
Drop(b, live) == IF live THEN b ELSE [out |-> <<>>, writes |-> <<>>]

\* Faulty: the connection is not taken off the list.
ReadEndsKept(c) ==
    /\ running /\ reading[c]
    /\ peer[c] = "closed" /\ taken[c] = Len(written[c])
    /\ reading' = [reading EXCEPT ![c] = FALSE]
    /\ UNCHANGED <<session, clients, running, accepting, posted, members, accepted, box,
                   taken, from>>

\* The read ends with an error once the client's lines are read.
ReadEnds(c) ==
    /\ running /\ reading[c]
    /\ peer[c] = "closed" /\ taken[c] = Len(written[c])
    /\ reading' = [reading EXCEPT ![c] = FALSE]
    /\ members' = members \ {c}
    /\ box' = [box EXCEPT ![c] = Drop(@, @.writes # <<>>)]
    /\ UNCHANGED <<session, clients, running, accepting, posted, accepted, taken, from>>

\* Faulty: the line is popped only when another one is behind it.
WriteDoneUnpopped(c) ==
    /\ running /\ box[c].writes # <<>> /\ peer[c] = "open"
    /\ got' = [got EXCEPT ![c] = Append(@, Head(box[c].writes))]
    /\ LET rest == IF Len(box[c].out) > 1 THEN Tail(box[c].out) ELSE box[c].out
       IN  box' = [box EXCEPT ![c] = [out |-> rest, writes |-> <<Head(rest)>>]]
    /\ UNCHANGED <<session, running, accepting, posted, members, accepted, reading,
                   taken, from, peer, written, printed>>

\* The completion of a write drops the line and writes the next one.
WriteDone(c) ==
    /\ running /\ box[c].writes # <<>> /\ peer[c] = "open"
    /\ got' = [got EXCEPT ![c] = Append(@, Head(box[c].writes))]
    /\ LET rest == Tail(box[c].out)
       IN  box' = [box EXCEPT ![c] =
                      [out    |-> rest,
                       writes |-> Tail(@.writes) \o
                                  SubSeq(rest, 1, IF rest = <<>> THEN 0 ELSE 1)]]
    /\ UNCHANGED <<session, running, accepting, posted, members, accepted, reading,
                   taken, from, peer, written, printed>>

\* The client is gone: no write is started again, since the outbox keeps the
\* line that failed.  Lines already written to the daemon are still read.
WriteFails(c) ==
    /\ running /\ box[c].writes # <<>> /\ peer[c] = "closed"
    /\ box' = [box EXCEPT ![c] = Drop([out |-> @.out, writes |-> Tail(@.writes)],
                                      reading[c])]
    /\ members' = members \ {c}
    /\ UNCHANGED <<session, clients, running, accepting, posted, accepted, reading,
                   taken, from>>

\* The signal handler: IpcServer::stop, then io_context::stop.  No handler
\* runs again, and what the server holds goes with the process.  It goes the
\* same way when an exception leaves io_context::run: an error whose text is
\* not UTF-8 cannot be serialized, inside the handler of the first exception.
Stop ==
    /\ running
    /\ running' = FALSE /\ accepting' = FALSE
    /\ members' = {}
    /\ posted' = <<>>
    /\ accepted' = [c \in Conns |-> FALSE]
    /\ reading' = [c \in Conns |-> FALSE]
    /\ box' = [c \in Conns |-> Drop(box[c], FALSE)]
    /\ taken' = [c \in Conns |-> 0]
    /\ from' = [c \in Conns |-> 0]
    /\ UNCHANGED <<session, clients>>

-----------------------------------------------------------------------------
(* The clients.                                                            *)

ClientConnects(c) ==
    /\ running /\ peer[c] = "none"
    /\ peer' = [peer EXCEPT ![c] = "open"]
    /\ UNCHANGED <<session, server, written, got, printed>>

ClientWrites(c, line) ==
    /\ running /\ peer[c] = "open"
    /\ c \in Tools => written[c] = <<>>
    /\ Cardinality({p \in Conns \X (1 .. MaxLines) : p[2] <= Len(written[p[1]])})
          < MaxLines
    /\ written' = [written EXCEPT ![c] = Append(@, line)]
    /\ UNCHANGED <<session, server, peer, got, printed>>

\* A subscriber ends whenever it likes, a tool when it has written a command
\* whose answer it does not wait for, or finds the daemon gone.
ClientCloses(c) ==
    /\ peer[c] = "open"
    /\ c \in Tools => ~running \/ written[c] \in {<<"bad">>, <<"command">>}
    /\ peer' = [peer EXCEPT ![c] = "closed"]
    /\ got' = [got EXCEPT ![c] = <<>>]
    /\ UNCHANGED <<session, server, written, printed>>

\* hyprdictate status: printStatus skips the broadcasts, takes the first status
\* or error and leaves.  The greeting is always the first.
PrintStatus(c) ==
    /\ peer[c] = "open" /\ written[c] = <<"status">>
    /\ LET answers == Only(got[c], {"greeting", "reply", "error"})
       IN  /\ answers # <<>>
           /\ printed' = [printed EXCEPT ![c] = Head(answers).kind]
    /\ peer' = [peer EXCEPT ![c] = "closed"]
    /\ got' = [got EXCEPT ![c] = <<>>]
    /\ UNCHANGED <<session, server, written>>

-----------------------------------------------------------------------------
Serve(c) == Accept(c) \/ OnLine(c) \/ ReadEnds(c) \/ WriteFails(c)

Client(c) ==
    \/ ClientConnects(c) \/ ClientCloses(c)
    \/ \E line \in Lines : ClientWrites(c, line)

\* The process has left main.
Exited == ~running /\ UNCHANGED vars

Next ==
    \/ SetState \/ RunBroadcast \/ AcceptFails \/ Stop
    \/ \E c \in Conns : Serve(c) \/ WriteDone(c) \/ Client(c)
    \/ \E c \in Tools : PrintStatus(c)
    \/ Exited

(* The IO thread serves whatever is ready.  A write ends if its client      *)
(* reads; the others owe nothing, and hold up nobody but themselves.        *)
Fairness ==
    /\ WF_vars(RunBroadcast)
    /\ \A c \in Conns :
          /\ WF_vars(Accept(c)) /\ WF_vars(OnLine(c))
          /\ WF_vars(ReadEnds(c)) /\ WF_vars(WriteFails(c))
    /\ \A c \in Readers : WF_vars(WriteDone(c))
    /\ \A c \in Tools : WF_vars(PrintStatus(c))

Spec == Init /\ [][Next]_vars
FairSpec == Spec /\ Fairness

-----------------------------------------------------------------------------
(* Properties.                                                             *)

Present(c) == running /\ accepted[c] /\ peer[c] = "open"

F == INSTANCE Feed WITH
         Clients <- Conns, Events <- Broadcasts, log <- announced,
         place <- [c \in Conns |-> IF Present(c) THEN "present"
                                   ELSE IF ~running \/ peer[c] = "closed"
                                   THEN "gone" ELSE "away"],
         from <- [c \in Conns |-> IF Present(c) THEN from[c] ELSE 0],
         seen <- [c \in Conns |-> IF Present(c) THEN Only(got[c], {"state"})
                                  ELSE <<>>]

(* ipc.hpp: events fan out to every open connection.  Whoever comes and     *)
(* goes, whoever's write fails or is slow, each client is sent a run of the *)
(* announced events, in order, without a gap and without a repetition.      *)
RefinesFeed == F!Spec

(* And a client that stays and reads is sent all of it, whatever the        *)
(* others do, as long as the daemon runs.                                   *)
KeepsFeedFair == F!Fairness

(* ipc.cpp: a connection dispatches each line to the Session and unicasts    *)
(* any reply back.  Each line that wants an answer has exactly one of its     *)
(* kind, a command has one at most, nobody is answered a line of another's,   *)
(* and the answers come in the order of the lines, however the broadcasts     *)
(* between them and the pace of the writes fall; and no write begins while    *)
(* another is outstanding, which would mix the lines.                        *)
AnswersTo(line) == IF line = "status" THEN "reply" ELSE "error"

AnsweredInOrder ==
    \A c \in {d \in Conns : Present(d)} :
        LET answers == Only(got[c] \o box[c].out, {"reply", "error"})
        IN  /\ Len(box[c].writes) <= 1
            /\ \A i \in 1 .. Len(answers) :
                  /\ answers[i].line \in 1 .. taken[c]
                  /\ answers[i].kind = AnswersTo(written[c][answers[i].line])
            /\ \A i, j \in 1 .. Len(answers) :
                  i < j => answers[i].line < answers[j].line
            /\ \A n \in 1 .. taken[c] :
                  written[c][n] # "command" =>
                      \E i \in 1 .. Len(answers) : answers[i].line = n

(* A client knows the daemon's state once everything has been sent, though  *)
(* greetings and replies overtake the broadcasts that are posted, and older *)
(* states arrive after them.                                                *)
MirrorConverges ==
    \A c \in Conns :
        Present(c) /\ posted = <<>> /\ box[c].out = <<>> =>
            LET states == Only(got[c], {"greeting", "reply", "state"})
            IN  states # <<>> /\ states[Len(states)].num = state

(* A client that has left is taken off the list, so that the daemon does    *)
(* not keep queueing events for it.                                         *)
GoneIsDropped ==
    \A c \in Conns :
        peer[c] = "closed" /\ accepted[c] ~> c \notin members
=============================================================================
