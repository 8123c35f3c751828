------------------------- MODULE SocketClientProofs -------------------------
(***************************************************************************)
(* SocketClient is never dead and never connects twice, and dispatches the  *)
(* events of each connection in order, for every pair of delays, any number *)
(* of connections and events, and reads cut anywhere.  What Split makes of  *)
(* a growing buffer is proved by induction, as the absence of a least       *)
(* counterexample.                                                         *)
(***************************************************************************)
EXTENDS SocketClient, SequenceTheorems, WellFoundedInduction, TLAPS

\* A delay that is armed is a delay, so that it tells "armed" from NoTimer.
DelayInv ==
    /\ backoffMs \in kBackoffInitMs .. kBackoffMaxMs
    /\ retryTimer \in {NoTimer} \union (kBackoffInitMs .. kBackoffMaxMs)

\* Before PLUGIN_INIT and after PLUGIN_EXIT nothing is registered; between
\* them exactly one of descriptor and timer is.
IInv == DelayInv /\ fd \in BOOLEAN /\ ConnectedOrRetrying

USE DEF NoTimer, client, peer

-----------------------------------------------------------------------------
LEMMA IInvInit == Init => IInv
  <1>1. Init => DelayInv
    BY SocketAssumption DEF Init, DelayInv
  <1>2. Init => ConnectedOrRetrying
    BY Zenon DEF Init, ConnectedOrRetrying
  <1>3. Init => fd \in BOOLEAN
    BY Zenon DEF Init
  <1> QED
    BY <1>1, <1>2, <1>3 DEF IInv

\* A delay is not NoTimer.
LEMMA Armed == \A d \in kBackoffInitMs .. kBackoffMaxMs : d # NoTimer
  BY SocketAssumption

(* connect() with no timer pending and no descriptor leaves one of the two. *)
LEMMA ConnectStep ==
    ASSUME NEW b \in kBackoffInitMs .. kBackoffMaxMs, Connect(b), DelayInv,
           loaded' = "yes", fd = source, fd = FALSE
    PROVE  IInv'
  <1> USE DEF ScheduleReconnect
  <1>1. ASSUME \/ ConnectFails(b) \/ IdentifyFails(b) PROVE IInv'
    <2>1. retryTimer' = b
      BY <1>1, Zenon DEF ConnectFails, IdentifyFails
    <2>2. backoffMs' \in {b, kBackoffInitMs}
      BY <1>1, Zenon DEF ConnectFails, IdentifyFails
    <2>3. DelayInv'
      BY <2>1, <2>2, SocketAssumption DEF DelayInv
    <2>4. fd' = fd /\ source' = source
      BY <1>1, Zenon DEF ConnectFails, IdentifyFails
    <2>5. ConnectedOrRetrying'
      BY <2>1, <2>4, Armed, Zenon DEF ConnectedOrRetrying
    <2> QED
      BY <2>3, <2>4, <2>5, Zenon DEF IInv
  <1>2. ASSUME ConnectOpens PROVE IInv'
    <2>1. DelayInv'
      <3>1. retryTimer' = NoTimer /\ backoffMs' = kBackoffInitMs
        BY <1>2, Zenon DEF ConnectOpens
      <3> QED
        BY <3>1, SocketAssumption DEF DelayInv
    <2>2. ConnectedOrRetrying'
      BY <1>2, Zenon DEF ConnectOpens, ConnectedOrRetrying
    <2>3. fd' \in BOOLEAN
      BY <1>2, Zenon DEF ConnectOpens
    <2> QED
      BY <2>1, <2>2, <2>3 DEF IInv
  <1> QED
    BY <1>1, <1>2 DEF Connect

(* handleDisconnect closes the descriptor and arms the timer.               *)
LEMMA DisconnectStep ==
    ASSUME IInv, loaded = "yes", HandleDisconnect, UNCHANGED <<loaded, backoffMs>>
    PROVE  IInv'
  <1>1. retryTimer' \in {backoffMs, retryTimer} /\ retryTimer' # NoTimer
    BY Armed, Zenon DEF HandleDisconnect, ScheduleReconnect, IInv, DelayInv
  <1>2. DelayInv'
    BY <1>1 DEF IInv, DelayInv
  <1>3. ConnectedOrRetrying'
    BY <1>1, <1>2, Zenon DEF HandleDisconnect, ConnectedOrRetrying, DelayInv
  <1>4. fd' \in BOOLEAN
    BY Zenon DEF HandleDisconnect
  <1> QED
    BY <1>2, <1>3, <1>4 DEF IInv

LEMMA IInvStep == IInv /\ [Next]_vars => IInv'
  <1> SUFFICES ASSUME IInv, [Next]_vars PROVE IInv'
    OBVIOUS
  <1> USE SocketAssumption
  <1>1. CASE PluginInit
    <2>1. fd = FALSE /\ fd = source
      BY <1>1 DEF PluginInit, IInv, ConnectedOrRetrying
    <2>2. Connect(backoffMs) /\ loaded' = "yes"
      BY <1>1 DEF PluginInit
    <2> QED
      BY <2>1, <2>2, ConnectStep DEF IInv, DelayInv
  <1>2. CASE OnRetryTimer
    <2>1. PICK b \in kBackoffInitMs .. kBackoffMaxMs : Connect(b)
      BY <1>2 DEF OnRetryTimer, IInv, DelayInv
    <2>2. fd = source /\ fd = FALSE /\ loaded' = "yes"
      BY <1>2 DEF OnRetryTimer, IInv, ConnectedOrRetrying
    <2> QED
      BY <2>1, <2>2, ConnectStep DEF IInv
  <1>3. CASE OnHangup \/ SendFails
    BY <1>3, DisconnectStep DEF OnHangup, SendFails
  <1>4. CASE PluginExit
    BY <1>4 DEF PluginExit, IInv, DelayInv, ConnectedOrRetrying
  <1>5. CASE OnReadable
    <2>1. UNCHANGED <<loaded, fd, source, retryTimer, backoffMs>>
      BY <1>5 DEF OnReadable
    <2> QED
      BY <2>1 DEF IInv, DelayInv, ConnectedOrRetrying
  <1>6. CASE DaemonSends \/ DaemonStops \/ DaemonStarts \/ UNCHANGED vars
    <2>1. UNCHANGED <<loaded, fd, source, retryTimer, backoffMs>>
      BY <1>6 DEF DaemonSends, DaemonStops, DaemonStarts, vars
    <2> QED
      BY <2>1 DEF IInv, DelayInv, ConnectedOrRetrying
  <1> QED
    BY <1>1, <1>2, <1>3, <1>4, <1>5, <1>6 DEF Next, Handler

(* Between two handlers the client is connected and watched, or has one      *)
(* retry pending; unloaded it has neither.                                 *)
THEOREM NeverLost == Spec => []ConnectedOrRetrying
  <1>1. IInv => ConnectedOrRetrying
    BY DEF IInv
  <1> QED
    BY IInvInit, IInvStep, <1>1, PTL DEF Spec

-----------------------------------------------------------------------------
(* Types.                                                                  *)

Peer ==
    /\ daemon \in BOOLEAN /\ eof \in BOOLEAN
    /\ conn \in 0 .. MaxConns
    /\ wire \in Seq(Pieces)
    /\ sent \in [Conns -> 0 .. MaxEvents]

\* There is a connection only after the first.
TInv ==
    /\ loaded \in {"no", "yes", "unloaded"}
    /\ Peer
    /\ fd = TRUE => conn \in Conns

LEMMA TInvInit == Init => TInv
  <1> SUFFICES ASSUME Init PROVE TInv
    OBVIOUS
  <1>1. daemon \in BOOLEAN /\ eof \in BOOLEAN
    BY Zenon DEF Init
  <1>2. conn \in 0 .. MaxConns /\ wire \in Seq(Pieces)
    BY SocketAssumption DEF Init
  <1>3. sent \in [Conns -> 0 .. MaxEvents]
    BY SocketAssumption DEF Init
  <1>4. loaded = "no" /\ fd = FALSE
    BY DEF Init
  <1> QED
    BY <1>1, <1>2, <1>3, <1>4 DEF TInv, Peer

\* Events of a connection that exists are made of pieces.
LEMMA PiecesOf ==
    ASSUME NEW c \in Conns, NEW n \in 1 .. MaxEvents
    PROVE  Begins(c, n) \in Pieces /\ Ends(c, n) \in Pieces
  BY DEF Begins, Ends, Pieces

LEMMA TInvConnect ==
    ASSUME NEW b, Connect(b), TInv, fd = FALSE
    PROVE  Peer' /\ (fd' = TRUE => conn' \in Conns)
  <1> USE SocketAssumption
  <1>1. CASE ConnectFails(b) \/ IdentifyFails(b)
    BY <1>1 DEF ConnectFails, IdentifyFails, TInv, Peer
  <1>2. CASE ConnectOpens
    <2>1. conn + 1 \in Conns
      BY <1>2 DEF ConnectOpens, TInv, Peer, Conns
    <2>3. wire' \in Seq(Pieces)
      BY <1>2 DEF ConnectOpens
    <2>4. daemon' \in BOOLEAN /\ eof' \in BOOLEAN
      BY <1>2, Zenon DEF ConnectOpens, TInv, Peer
    <2>5. conn' \in Conns /\ conn' \in 0 .. MaxConns
      BY <1>2, <2>1 DEF ConnectOpens, Conns
    <2>6. sent' \in [Conns -> 0 .. MaxEvents]
      BY <1>2, <2>1 DEF ConnectOpens, TInv, Peer
    <2> QED
      BY <2>3, <2>4, <2>5, <2>6 DEF Peer
  <1> QED
    BY <1>1, <1>2 DEF Connect

LEMMA TInvStep == IInv /\ TInv /\ [Next]_vars => TInv'
  <1> SUFFICES ASSUME IInv, TInv, [Next]_vars PROVE TInv'
    OBVIOUS
  <1> USE SocketAssumption
  <1>1. CASE PluginInit
    <2>1. loaded' = "yes" /\ Connect(backoffMs) /\ fd = FALSE
      BY <1>1 DEF PluginInit, IInv, ConnectedOrRetrying
    <2> QED
      BY <2>1, TInvConnect DEF TInv
  <1>2. CASE OnRetryTimer
    <2>1. loaded' = "yes" /\ fd = FALSE /\ \E b : Connect(b)
      BY <1>2 DEF OnRetryTimer, IInv, ConnectedOrRetrying
    <2> QED
      BY <2>1, TInvConnect DEF TInv
  <1>3. CASE OnReadable
    <2>1. PICK n \in 1 .. Len(wire) : wire' = SubSeq(wire, n + 1, Len(wire))
      BY <1>3 DEF OnReadable
    <2>2. wire' \in Seq(Pieces)
      BY <2>1 DEF TInv, Peer
    <2>3. UNCHANGED <<loaded, fd, daemon, conn, eof, sent>>
      BY <1>3 DEF OnReadable
    <2> QED
      BY <2>2, <2>3 DEF TInv, Peer
  <1>4. CASE OnHangup \/ SendFails \/ PluginExit
    <2>1. /\ fd' = FALSE /\ loaded' \in {"yes", "unloaded"}
          /\ wire' \in {wire, <<>>} /\ UNCHANGED <<daemon, conn, eof, sent>>
      BY <1>4 DEF OnHangup, SendFails, PluginExit, HandleDisconnect
    <2>2. <<>> \in Seq(Pieces)
      OBVIOUS
    <2> QED
      BY <2>1, <2>2 DEF TInv, Peer
  <1>5. CASE DaemonSends
    <2> DEFINE n == sent[conn] + 1
    <2>1. conn \in Conns /\ n \in 1 .. MaxEvents
      BY <1>5 DEF DaemonSends, TInv, Peer
    <2>2. Begins(conn, n) \in Pieces /\ Ends(conn, n) \in Pieces
      BY <2>1, PiecesOf
    <2>3. wire' \in Seq(Pieces)
      BY <1>5, <2>2 DEF DaemonSends, TInv, Peer
    <2>4. sent' \in [Conns -> 0 .. MaxEvents]
      BY <1>5, <2>1 DEF DaemonSends, TInv, Peer
    <2>5. UNCHANGED <<loaded, fd, daemon, conn, eof>>
      BY <1>5 DEF DaemonSends
    <2> QED
      BY <2>3, <2>4, <2>5 DEF TInv, Peer
  <1>6. CASE DaemonStops
    <2>1. UNCHANGED <<loaded, fd, conn>> /\ daemon' = FALSE /\ eof' = TRUE
      BY <1>6 DEF DaemonStops
    <2>2. CASE UNCHANGED <<wire, sent>>
      BY <2>1, <2>2 DEF TInv, Peer
    <2>3. CASE /\ fd /\ ~eof /\ sent[conn] < MaxEvents
               /\ wire' = Append(wire, Begins(conn, sent[conn] + 1))
               /\ sent' = [sent EXCEPT ![conn] = @ + 1]
      <3>1. conn \in Conns /\ sent[conn] + 1 \in 1 .. MaxEvents
        BY <2>3 DEF TInv, Peer
      <3>2. wire' \in Seq(Pieces)
        BY <2>3, <3>1, PiecesOf DEF TInv, Peer
      <3>3. sent' \in [Conns -> 0 .. MaxEvents]
        BY <2>3, <3>1 DEF TInv, Peer
      <3> QED
        BY <2>1, <3>2, <3>3 DEF TInv, Peer
    <2> QED
      BY <1>6, <2>2, <2>3 DEF DaemonStops
  <1>7. CASE DaemonStarts \/ UNCHANGED vars
    <2>1. /\ UNCHANGED <<loaded, fd, conn, wire, eof, sent>>
          /\ daemon' \in {daemon, TRUE}
      BY <1>7 DEF DaemonStarts, vars
    <2> QED
      BY <2>1 DEF TInv, Peer
  <1> QED
    BY <1>1, <1>2, <1>3, <1>4, <1>5, <1>6, <1>7 DEF Next, Handler

(* Every variable but the two that handleReadable builds keeps its type; in  *)
(* particular the delay in use is always within its two bounds.             *)
THEOREM TypeCorrect == Spec => []TypeOK
  <1>1. IInv /\ TInv => TypeOK
    <2> SUFFICES ASSUME IInv, TInv PROVE TypeOK
      OBVIOUS
    <2>1. source \in BOOLEAN /\ fd \in BOOLEAN
      BY Zenon DEF IInv, ConnectedOrRetrying
    <2> QED
      BY <2>1, Zenon DEF IInv, DelayInv, TInv, Peer, TypeOK
  <1> QED
    BY IInvInit, IInvStep, TInvInit, TInvStep, <1>1, PTL DEF Spec

-----------------------------------------------------------------------------
(* Split, piece by piece.                                                  *)

\* f[n] is what Split makes of the first n pieces.
Folds(f, s, N) ==
    \A n \in 0 .. N :
        f[n] = IF n = 0 THEN [rest |-> <<>>, nums |-> <<>>]
               ELSE Consume(f[n - 1], s[n])

(* A set of naturals with an element has a least one.                       *)
LEMMA NatMin ==
    ASSUME NEW T, T \subseteq Nat, T # {}
    PROVE  \E n \in T : \A m \in T : n <= m
  <1>1. IsWellFoundedOn(OpToRel(<, Nat), Nat)
    BY NatLessThanWellFounded
  <1>2. PICK n \in T : \A m \in T : <<m, n>> \notin OpToRel(<, Nat)
    BY <1>1, WFMin
  <1>3. ASSUME NEW m \in T, ~(n <= m) PROVE FALSE
    <2>1. <<m, n>> \in OpToRel(<, Nat)
      BY <1>3 DEF OpToRel
    <2> QED
      BY <1>2, <2>1
  <1> QED
    BY <1>3

(* There is such a function, and only one.                                 *)
LEMMA FoldExists ==
    ASSUME NEW X, NEW s \in Seq(X)
    PROVE  \A N \in 0 .. Len(s) : \E f : Folds(f, s, N)
  <1> DEFINE T == {N \in 0 .. Len(s) : ~ \E f : Folds(f, s, N)}
  <1> SUFFICES ASSUME T # {} PROVE FALSE
    OBVIOUS
  <1>0. T \subseteq Nat
    OBVIOUS
  <1> HIDE DEF T
  <1>1. PICK N \in T : \A m \in T : N <= m
    BY <1>0, NatMin
  <1> USE DEF T
  <1>2. CASE N = 0
    <2>1. Folds([n \in {0} |-> [rest |-> <<>>, nums |-> <<>>]], s, 0)
      BY DEF Folds
    <2> QED
      BY <1>1, <1>2, <2>1
  <1>3. CASE N # 0
    <2>1. PICK f : Folds(f, s, N - 1)
      BY <1>1, <1>3
    <2> DEFINE g == [n \in 0 .. N |-> IF n < N THEN f[n] ELSE Consume(f[n - 1], s[n])]
    <2>2. Folds(g, s, N)
      BY <1>3, <2>1 DEF Folds
    <2> QED
      BY <1>1, <2>2
  <1> QED
    BY <1>2, <1>3

LEMMA FoldUnique ==
    ASSUME NEW X, NEW s \in Seq(X), NEW t \in Seq(X), NEW f, NEW g,
           NEW N \in Nat, N <= Len(s), N <= Len(t), \A n \in 1 .. N : s[n] = t[n],
           Folds(f, s, N), Folds(g, t, N)
    PROVE  f[N] = g[N]
  <1> DEFINE T == {n \in 0 .. N : f[n] # g[n]}
  <1> SUFFICES ASSUME T # {} PROVE FALSE
    OBVIOUS
  <1>0. T \subseteq Nat
    OBVIOUS
  <1> HIDE DEF T
  <1>1. PICK n \in T : \A m \in T : n <= m
    BY <1>0, NatMin
  <1> USE DEF T
  <1>2. CASE n = 0
    BY <1>1, <1>2 DEF Folds
  <1>3. CASE n # 0
    <2>1. f[n - 1] = g[n - 1]
      BY <1>1, <1>3
    <2> QED
      BY <1>1, <1>3, <2>1 DEF Folds
  <1> QED
    BY <1>2, <1>3

LEMMA SplitIs ==
    ASSUME NEW X, NEW s \in Seq(X)
    PROVE  \E f : Folds(f, s, Len(s)) /\ Split(s) = f[Len(s)]
  <1> DEFINE f == CHOOSE f : f = [n \in 0 .. Len(s) |->
                    IF n = 0 THEN [rest |-> <<>>, nums |-> <<>>]
                    ELSE Consume(f[n - 1], s[n])]
  <1>0. Len(s) \in 0 .. Len(s)
    OBVIOUS
  <1>1. Split(s) = f[Len(s)]
    BY DEF Split
  <1>2. PICK g : Folds(g, s, Len(s))
    BY <1>0, FoldExists
  <1> DEFINE h == [n \in 0 .. Len(s) |-> g[n]]
  <1>3. h = [n \in 0 .. Len(s) |->
                    IF n = 0 THEN [rest |-> <<>>, nums |-> <<>>]
                    ELSE Consume(h[n - 1], s[n])]
    BY <1>2 DEF Folds
  <1> HIDE DEF h
  <1>4. f = [n \in 0 .. Len(s) |->
                    IF n = 0 THEN [rest |-> <<>>, nums |-> <<>>]
                    ELSE Consume(f[n - 1], s[n])]
    BY <1>3
  <1> HIDE DEF f
  <1>5. Folds(f, s, Len(s))
    BY <1>4 DEF Folds
  <1> QED
    BY <1>1, <1>5

(* One piece more is consumed on top of the others.                         *)
LEMMA SplitAppend ==
    ASSUME NEW X, NEW s \in Seq(X), NEW p \in X
    PROVE  Split(Append(s, p)) = Consume(Split(s), p)
  <1> DEFINE t == Append(s, p)
  <1>0. /\ t \in Seq(X) /\ Len(t) = Len(s) + 1 /\ t[Len(t)] = p
        /\ \A n \in 1 .. Len(s) : t[n] = s[n]
    OBVIOUS
  <1> HIDE DEF t
  <1>1. PICK f : Folds(f, s, Len(s)) /\ Split(s) = f[Len(s)]
    BY SplitIs
  <1>2. PICK g : Folds(g, t, Len(t)) /\ Split(t) = g[Len(t)]
    BY <1>0, SplitIs
  <1>3. Folds(g, t, Len(s))
    BY <1>0, <1>2 DEF Folds
  <1>4. f[Len(s)] = g[Len(s)]
    <2> DEFINE N == Len(s)
    <2>1. /\ N \in Nat /\ N <= Len(s) /\ N <= Len(t)
          /\ \A n \in 1 .. N : s[n] = t[n]
          /\ Folds(f, s, N) /\ Folds(g, t, N)
      BY <1>0, <1>1, <1>3
    <2> HIDE DEF N
    <2>2. f[N] = g[N]
      BY <1>0, <2>1, FoldUnique
    <2> QED
      BY <2>2 DEF N
  <1>5. g[Len(t)] = Consume(g[Len(s)], p)
    BY <1>0, <1>2 DEF Folds
  <1> QED
    BY <1>1, <1>2, <1>4, <1>5 DEF t

LEMMA SplitEmpty == Split(<<>>) = [rest |-> <<>>, nums |-> <<>>]
  <1>1. <<>> \in Seq({}) /\ Len(<<>>) = 0
    OBVIOUS
  <1>2. PICK f : Folds(f, <<>>, Len(<<>>)) /\ Split(<<>>) = f[Len(<<>>)]
    BY <1>1, SplitIs
  <1>3. f[0] = [rest |-> <<>>, nums |-> <<>>]
    BY <1>1, <1>2 DEF Folds
  <1> QED
    BY <1>1, <1>2, <1>3

-----------------------------------------------------------------------------
(* Where the client stands in the stream of a connection.                  *)

\* d holds the numbers up to k, in order; the first may be missing.
Numbers(d, k) ==
    /\ Len(d) \in {k, k - 1}
    /\ \A i \in 1 .. Len(d) : d[i] = k - Len(d) + i

\* q is no complete line.
Partial(q) == q \in Seq(Pieces) /\ \A i \in 1 .. Len(q) : ~q[i].last

\* w are the pieces of the stream of c after the first p.
Stream(c, p, w) ==
    \A n \in 1 .. MaxEvents :
       /\ 2 * n - 1 - p \in 1 .. Len(w) => w[2 * n - 1 - p] = Begins(c, n)
       /\ 2 * n - p \in 1 .. Len(w) => w[2 * n - p] = Ends(c, n)

\* After p pieces: k whole events, or k and a half.  Only the first line of a
\* connection can be behind the rest of one that an earlier connection left.
Between(k, p, q, d) ==
    /\ p = 2 * k /\ Numbers(d, k)
    /\ k > 0 => q = <<>>
Inside(c, k, p, q, d) ==
    /\ p = 2 * k + 1 /\ Numbers(d, k)
    /\ q # <<>> /\ q[Len(q)] = Begins(c, k + 1)
    /\ k > 0 => Len(q) = 1
At(c, p, q, d) ==
    /\ Partial(q) /\ d \in Seq(Nat)
    /\ \E k \in 0 .. MaxEvents : Between(k, p, q, d) \/ Inside(c, k, p, q, d)

\* The stream is whole, or its last line is torn because the daemon died.
Consumed(p) ==
    /\ \/ p + Len(wire) = 2 * sent[conn]
       \/ eof = TRUE /\ p + Len(wire) = 2 * sent[conn] - 1
    /\ Stream(conn, p, wire)
    /\ At(conn, p, readbuf, dispatched[conn])

SInv ==
    /\ Partial(readbuf) /\ dispatched \in [Conns -> Seq(Nat)]
    /\ \A c \in Conns : \E k \in 0 .. sent[c] : Numbers(dispatched[c], k)
    /\ \A c \in Conns : c > conn => dispatched[c] = <<>> /\ sent[c] = 0
    /\ fd = TRUE => \E p \in 0 .. 2 * sent[conn] : Consumed(p)

LEMMA SInvInit == Init => SInv
  <1> SUFFICES ASSUME Init PROVE SInv
    OBVIOUS
  <1>1. Partial(<<>>)
    BY DEF Partial
  <1>2. Numbers(<<>>, 0)
    BY DEF Numbers
  <1> QED
    BY <1>1, <1>2 DEF Init, SInv

\* A rest that is kept is split into itself.
LEMMA SplitPartial ==
    ASSUME NEW q, Partial(q)
    PROVE  Split(q) = [rest |-> q, nums |-> <<>>]
  <1> DEFINE P(n) == Split(SubSeq(q, 1, n)) = [rest |-> SubSeq(q, 1, n), nums |-> <<>>]
             T == {n \in 0 .. Len(q) : ~P(n)}
  <1>0. q \in Seq(Pieces) /\ \A i \in 1 .. Len(q) : ~q[i].last
    BY DEF Partial
  <1>1. ASSUME T # {} PROVE FALSE
    <2>0. T \subseteq Nat
      OBVIOUS
    <2> HIDE DEF T
    <2>1. PICK n \in T : \A m \in T : n <= m
      BY <1>1, <2>0, NatMin
    <2> USE DEF T
    <2>2. CASE n = 0
      <3>1. SubSeq(q, 1, 0) = <<>>
        OBVIOUS
      <3> QED
        BY <2>1, <2>2, <3>1, SplitEmpty
    <2>3. CASE n # 0
      <3> DEFINE u == SubSeq(q, 1, n - 1)
      <3>0. n \in 1 .. Len(q) /\ n - 1 \in 0 .. Len(q)
        BY <2>1, <2>3
      <3>1. P(n - 1)
        <4>1. n - 1 \notin T
          BY <2>0, <2>1, <3>0
        <4> QED
          BY <3>0, <4>1
      <3>2. /\ u \in Seq(Pieces) /\ q[n] \in Pieces /\ ~q[n].last
            /\ SubSeq(q, 1, n) = Append(u, q[n])
        BY <1>0, <3>0
      <3>3. Split(u) = [rest |-> u, nums |-> <<>>]
        BY <3>1
      <3> HIDE DEF u, P, T
      <3> DEFINE v == [rest |-> u, nums |-> <<>>]
      <3>6. Split(Append(u, q[n])) = Consume(v, q[n])
        BY <3>2, <3>3, SplitAppend
      <3>7. Consume(v, q[n]) = [rest |-> Append(u, q[n]), nums |-> <<>>]
        BY <3>2 DEF Consume
      <3>4. Split(Append(u, q[n])) = [rest |-> Append(u, q[n]), nums |-> <<>>]
        BY <3>6, <3>7
      <3>5. P(n)
        BY <3>2, <3>4 DEF P
      <3> QED
        BY <2>1, <3>5 DEF T
    <2> QED
      BY <2>2, <2>3
  <1>2. P(Len(q))
    <2>1. Len(q) \in 0 .. Len(q)
      BY <1>0
    <2> QED
      BY <1>1, <2>1
  <1>3. SubSeq(q, 1, Len(q)) = q
    BY <1>0
  <1> QED
    BY <1>2, <1>3

(* The next piece of the stream keeps the place.                            *)
LEMMA OnePiece ==
    ASSUME NEW c \in Conns, NEW p \in Nat, NEW q, NEW b \in Seq(Nat),
           NEW ns \in Seq(Nat), At(c, p, q, b \o ns),
           NEW m \in Pieces, p < 2 * MaxEvents,
           \A n \in 1 .. MaxEvents : /\ p = 2 * n - 2 => m = Begins(c, n)
                                     /\ p = 2 * n - 1 => m = Ends(c, n)
    PROVE  LET got == Consume([rest |-> q, nums |-> ns], m)
           IN  got.nums \in Seq(Nat) /\ At(c, p + 1, got.rest, b \o got.nums)
  <1> USE SocketAssumption
  <1> DEFINE d == b \o ns
  <1>0. d \in Seq(Nat)
    OBVIOUS
  <1>1. PICK k \in 0 .. MaxEvents : Between(k, p, q, d) \/ Inside(c, k, p, q, d)
    BY DEF At
  <1>2. q \in Seq(Pieces) /\ Partial(q) /\ d \in Seq(Nat) /\ Len(d) \in Nat
        /\ Len(q) \in Nat
    BY <1>0 DEF At, Partial
  <1> HIDE DEF d
  <1>3. k + 1 \in 1 .. MaxEvents
    BY <1>1 DEF Between, Inside
  <1> DEFINE line == Append(q, m)
  <1>4. /\ line \in Seq(Pieces) /\ line # <<>> /\ Len(line) = Len(q) + 1
        /\ \A i \in 1 .. Len(q) : line[i] = q[i]
        /\ line[Len(q) + 1] = m
    <2>1. q \in Seq(Pieces)
      BY <1>2
    <2> QED
      BY <2>1, AppendProperties, SMTT(60)
  <1>5. CASE Between(k, p, q, d)
    <2>1. m = Begins(c, k + 1)
      BY <1>3, <1>5 DEF Between
    <2>2. m.last = FALSE
      BY <2>1 DEF Begins
    <2>3. Consume([rest |-> q, nums |-> ns], m) = [rest |-> line, nums |-> ns]
      BY <2>2 DEF Consume
    <2> HIDE DEF line
    <2>4. Partial(line)
      <3>1. ASSUME NEW i \in 1 .. Len(line) PROVE ~line[i].last
        <4>1. CASE i = Len(q) + 1
          BY <1>4, <2>2, <4>1
        <4>2. CASE i # Len(q) + 1
          <5>1. i \in 1 .. Len(q)
            BY <1>2, <1>4, <4>2
          <5>2. line[i] = q[i] /\ ~q[i].last
            BY <1>2, <1>4, <5>1 DEF Partial
          <5> QED
            BY <5>2
        <4> QED
          BY <4>1, <4>2
      <3> QED
        BY <1>4, <3>1 DEF Partial
    <2>5. k > 0 => Len(line) = 1
      BY <1>4, <1>5 DEF Between
    <2>6. Inside(c, k, p + 1, line, d)
      BY <1>2, <1>4, <1>5, <2>1, <2>5 DEF Between, Inside
    <2>7. At(c, p + 1, line, d)
      BY <1>2, <2>4, <2>6 DEF At
    <2> QED
      BY <2>3, <2>7 DEF d
  <1>6. CASE Inside(c, k, p, q, d)
    <2>1. m = Ends(c, k + 1)
      BY <1>3, <1>6 DEF Inside
    <2>2. m.last = TRUE /\ m.num = k + 1 /\ m.conn = c
      BY <2>1 DEF Ends
    <2> DEFINE nums == IF Parses(line) THEN Append(ns, k + 1) ELSE ns
               e == IF Parses(line) THEN Append(d, k + 1) ELSE d
    <2>3. Consume([rest |-> q, nums |-> ns], m) = [rest |-> <<>>, nums |-> nums]
      BY <2>2 DEF Consume
    <2> HIDE DEF line
    <2>4. Len(q) = 1 => Parses(line)
      BY <1>4, <1>6, <2>2 DEF Parses, Inside
    <2>5. nums \in Seq(Nat) /\ b \o nums = e
      <3>1. k + 1 \in Nat
        OBVIOUS
      <3>2. b \o Append(ns, k + 1) = Append(b \o ns, k + 1)
        BY <3>1
      <3>3. Append(ns, k + 1) \in Seq(Nat)
        BY <3>1
      <3> QED
        BY <3>2, <3>3 DEF d
    <2>6. e \in Seq(Nat) /\ Numbers(e, k + 1)
      <3>1. CASE Parses(line)
        <4> DEFINE r == Append(d, k + 1)
        <4>1. /\ r \in Seq(Nat) /\ Len(r) = Len(d) + 1 /\ r[Len(d) + 1] = k + 1
              /\ \A i \in 1 .. Len(d) : r[i] = d[i]
          BY <1>2, AppendProperties
        <4> HIDE DEF r
        <4>2. Len(d) \in {k, k - 1} /\ \A i \in 1 .. Len(d) : d[i] = k - Len(d) + i
          BY <1>6 DEF Inside, Numbers
        <4>3. Len(r) \in {k + 1, (k + 1) - 1}
          BY <1>2, <4>1, <4>2
        <4>4. \A i \in 1 .. Len(r) : r[i] = (k + 1) - Len(r) + i
          <5> TAKE i \in 1 .. Len(r)
          <5>1. CASE i = Len(d) + 1
            BY <1>2, <4>1, <5>1
          <5>2. CASE i # Len(d) + 1
            <6>1. i \in 1 .. Len(d)
              BY <1>2, <4>1, <5>2
            <6>2. r[i] = k - Len(d) + i
              BY <4>1, <4>2, <6>1
            <6> QED
              BY <1>2, <4>1, <6>1, <6>2
          <5> QED
            BY <5>1, <5>2
        <4> QED
          BY <3>1, <4>1, <4>3, <4>4 DEF Numbers, r
      <3>2. CASE ~Parses(line)
        <4>1. k = 0
          BY <1>2, <1>6, <2>4, <3>2 DEF Inside
        <4>2. Len(d) = 0
          BY <1>2, <1>6, <4>1 DEF Inside, Numbers
        <4>3. Numbers(d, k + 1)
          BY <4>1, <4>2 DEF Numbers
        <4> QED
          BY <1>2, <3>2, <4>3
      <3> QED
        BY <3>1, <3>2
    <2> HIDE DEF nums, e
    <2>7. Between(k + 1, p + 1, <<>>, e)
      BY <1>6, <2>6 DEF Inside, Between
    <2>8. Partial(<<>>)
      BY DEF Partial
    <2>9. k + 1 \in 0 .. MaxEvents
      BY <1>3
    <2>10. At(c, p + 1, <<>>, e)
      BY <2>6, <2>7, <2>8, <2>9 DEF At
    <2> DEFINE got == Consume([rest |-> q, nums |-> ns], m)
    <2>11. got.rest = <<>> /\ got.nums = nums
      BY <2>3
    <2> HIDE DEF got
    <2>12. got.nums \in Seq(Nat) /\ At(c, p + 1, got.rest, b \o got.nums)
      BY <2>5, <2>10, <2>11, Zenon
    <2> QED
      BY <2>12 DEF got
  <1> QED
    BY <1>1, <1>5, <1>6

(* The wire, piece by piece: wherever a read ends, the client stands at the   *)
(* piece that is next.                                                     *)
LEMMA Reads ==
    ASSUME NEW c \in Conns, NEW p \in Nat, NEW q, NEW b \in Seq(Nat),
           NEW w \in Seq(Pieces), Stream(c, p, w), p + Len(w) <= 2 * MaxEvents,
           At(c, p, q, b)
    PROVE  \A n \in 0 .. Len(w) :
              LET got == Split(q \o SubSeq(w, 1, n))
              IN  got.nums \in Seq(Nat) /\ At(c, p + n, got.rest, b \o got.nums)
  <1> USE SocketAssumption
  <1> DEFINE G(n) == Split(q \o SubSeq(w, 1, n))
             P(n) == /\ G(n) \in [rest : Seq(Pieces), nums : Seq(Nat)]
                     /\ At(c, p + n, G(n).rest, b \o G(n).nums)
             T == {n \in 0 .. Len(w) : ~P(n)}
  <1>0. q \in Seq(Pieces) /\ Partial(q) /\ Len(w) \in Nat
    BY DEF At, Partial
  <1>1. ASSUME T # {} PROVE FALSE
    <2>0. T \subseteq Nat
      OBVIOUS
    <2> HIDE DEF T
    <2>1. PICK n \in T : \A m \in T : n <= m
      BY <1>1, <2>0, NatMin
    <2>2. CASE n = 0
      <3>1. q \o SubSeq(w, 1, 0) = q
        BY <1>0, SubSeqEmpty, ConcatEmptySeq
      <3>2. G(0) = [rest |-> q, nums |-> <<>>]
        BY <1>0, <3>1, SplitPartial
      <3>3. b \o <<>> = b /\ p + 0 = p /\ <<>> \in Seq(Nat)
        BY ConcatEmptySeq
      <3> DEFINE g == [rest |-> q, nums |-> <<>>]
      <3>6. g \in [rest : Seq(Pieces), nums : Seq(Nat)] /\ g.rest = q /\ g.nums = <<>>
        BY <1>0, <3>3
      <3> HIDE DEF G
      <3>4. G(0) \in [rest : Seq(Pieces), nums : Seq(Nat)] /\ G(0).rest = q
            /\ G(0).nums = <<>>
        BY <3>2, <3>6, Zenon
      <3>5. P(0)
        BY <3>3, <3>4
      <3> QED
        BY <2>1, <2>2, <3>5 DEF T
    <2>3. CASE n # 0
      <3>0. n \in 1 .. Len(w) /\ n - 1 \in 0 .. Len(w)
        BY <1>0, <2>1, <2>3 DEF T
      <3>1. P(n - 1)
        <4>1. n - 1 \notin T
          BY <2>0, <2>1, <3>0
        <4> HIDE DEF P
        <4> QED
          BY <3>0, <4>1 DEF T
      <3> DEFINE u == SubSeq(w, 1, n - 1)
                 v == q \o u
                 m == w[n]
                 old == G(n - 1)
      <3>2. u \in Seq(Pieces) /\ m \in Pieces /\ SubSeq(w, 1, n) = Append(u, m)
        BY <3>0
      <3>3. old = Split(v) /\ P(n - 1)
        BY <3>1
      <3> HIDE DEF u, m
      <3>4. q \o Append(u, m) = Append(v, m) /\ v \in Seq(Pieces)
        BY <1>0, <3>2
      <3> HIDE DEF v
      <3>5. G(n) = Consume(old, m)
        <4>1. Split(Append(v, m)) = Consume(Split(v), m)
          BY <3>2, <3>4, SplitAppend
        <4> QED
          BY <3>2, <3>3, <3>4, <4>1
      <3>6. /\ old \in [rest : Seq(Pieces), nums : Seq(Nat)]
            /\ At(c, p + (n - 1), old.rest, b \o old.nums)
        BY <3>3
      <3> HIDE DEF old, G
      <3>7. \A i \in 1 .. MaxEvents : /\ p + (n - 1) = 2 * i - 2 => m = Begins(c, i)
                                      /\ p + (n - 1) = 2 * i - 1 => m = Ends(c, i)
        <4> TAKE i \in 1 .. MaxEvents
        <4>1. p + (n - 1) = 2 * i - 2 => 2 * i - 1 - p = n
          BY <3>0
        <4>2. p + (n - 1) = 2 * i - 1 => 2 * i - p = n
          BY <3>0
        <4> QED
          BY <3>0, <4>1, <4>2 DEF Stream, m
      <3>8. p + (n - 1) \in Nat /\ p + (n - 1) < 2 * MaxEvents /\ (p + (n - 1)) + 1 = p + n
        BY <1>0, <3>0
      <3> DEFINE r == old.rest
                 ns == old.nums
                 got == Consume([rest |-> r, nums |-> ns], m)
      <3>9. old = [rest |-> r, nums |-> ns] /\ ns \in Seq(Nat) /\ r \in Seq(Pieces)
        BY <3>6
      <3> HIDE DEF r, ns
      <3>10. got.nums \in Seq(Nat) /\ At(c, p + n, got.rest, b \o got.nums)
        <4>1. At(c, p + (n - 1), r, b \o ns)
          BY <3>6 DEF r, ns
        <4> QED
          BY <3>2, <3>7, <3>8, <3>9, <4>1, OnePiece
      <3>11. got \in [rest : Seq(Pieces), nums : Seq(Nat)]
        <4>1. got.rest \in Seq(Pieces)
          BY <3>10 DEF At, Partial
        <4>2. got = [rest |-> got.rest, nums |-> got.nums]
          BY DEF Consume
        <4> HIDE DEF got
        <4> QED
          BY <3>10, <4>1, <4>2
      <3>12. G(n) = got
        BY <3>5, <3>9
      <3> HIDE DEF got
      <3>13. P(n)
        BY <3>10, <3>11, <3>12
      <3> HIDE DEF P
      <3> QED
        BY <2>1, <3>13 DEF T
    <2> QED
      BY <2>2, <2>3
  <1> HIDE DEF G
  <1>2. ASSUME NEW n \in 0 .. Len(w)
        PROVE  G(n).nums \in Seq(Nat) /\ At(c, p + n, G(n).rest, b \o G(n).nums)
    BY <1>1
  <1> QED
    BY <1>2 DEF G

-----------------------------------------------------------------------------
(* The events of every connection, step by step.                           *)

\* The events of a connection that is none of the client's business any more.
LEMMA OldEvents ==
    ASSUME NEW c \in Conns, NEW p \in Nat, NEW q, NEW d, At(c, p, q, d),
           NEW s \in Nat, p <= 2 * s
    PROVE  \E k \in 0 .. s : Numbers(d, k)
  <1>1. PICK k \in 0 .. MaxEvents : Between(k, p, q, d) \/ Inside(c, k, p, q, d)
    BY DEF At
  <1>2. Numbers(d, k) /\ k <= s /\ k \in Nat
    BY <1>1, SocketAssumption DEF Between, Inside
  <1> QED
    BY <1>2

LEMMA SInvReadable ==
    ASSUME IInv, TInv, SInv, OnReadable
    PROVE  SInv'
  <1> USE SocketAssumption
  <1>1. PICK n \in 1 .. Len(wire) :
            LET got == Split(readbuf \o SubSeq(wire, 1, n))
            IN  /\ wire' = SubSeq(wire, n + 1, Len(wire))
                /\ readbuf' = got.rest
                /\ dispatched' = [dispatched EXCEPT ![conn] = @ \o got.nums]
    BY DEF OnReadable
  <1> DEFINE got == Split(readbuf \o SubSeq(wire, 1, n))
             d == dispatched[conn]
  <1>2. /\ fd = TRUE /\ conn \in Conns /\ wire \in Seq(Pieces)
        /\ sent \in [Conns -> 0 .. MaxEvents]
    BY DEF OnReadable, IInv, ConnectedOrRetrying, TInv, Peer
  <1>3. PICK p \in 0 .. 2 * sent[conn] : Consumed(p)
    BY <1>2 DEF SInv
  <1>4. /\ \/ p + Len(wire) = 2 * sent[conn]
           \/ eof = TRUE /\ p + Len(wire) = 2 * sent[conn] - 1
        /\ Stream(conn, p, wire) /\ At(conn, p, readbuf, d)
    BY <1>3 DEF Consumed
  <1>5. UNCHANGED <<fd, conn, eof, sent>>
    BY DEF OnReadable
  <1>6. /\ d \in Seq(Nat) /\ p \in Nat /\ sent[conn] \in 0 .. MaxEvents
        /\ Len(wire) \in Nat
    BY <1>2 DEF SInv
  <1>7. got.nums \in Seq(Nat) /\ At(conn, p + n, got.rest, d \o got.nums)
    <2>1. p + Len(wire) <= 2 * MaxEvents
      BY <1>4, <1>6
    <2>2. n \in 0 .. Len(wire)
      OBVIOUS
    <2> HIDE DEF d
    <2>3. \A i \in 0 .. Len(wire) :
              LET g == Split(readbuf \o SubSeq(wire, 1, i))
              IN  g.nums \in Seq(Nat) /\ At(conn, p + i, g.rest, d \o g.nums)
      BY <1>2, <1>4, <1>6, <2>1, Reads
    <2> QED
      BY <2>2, <2>3
  <1>8. wire' = SubSeq(wire, n + 1, Len(wire)) /\ readbuf' = got.rest
        /\ dispatched' = [dispatched EXCEPT ![conn] = d \o got.nums]
    BY <1>1
  <1> HIDE DEF got
  <1>9. dispatched'[conn] = d \o got.nums /\ dispatched' \in [Conns -> Seq(Nat)]
    <2>1. d \o got.nums \in Seq(Nat)
      BY <1>6, <1>7, ConcatProperties
    <2> HIDE DEF d
    <2> QED
      BY <1>2, <1>8, <2>1 DEF SInv
  <1>10. /\ Len(wire') = Len(wire) - n
         /\ \A i \in 1 .. Len(wire) - n : wire'[i] = wire[n + i]
    BY <1>2, <1>8
  <1>18. Len(wire') = Len(wire) - n /\ Len(wire) \in Nat /\ p \in Nat /\ n \in Nat
    BY <1>6, <1>10
  <1>11. Stream(conn, p + n, wire')
    <2> SUFFICES ASSUME NEW i \in 1 .. MaxEvents
                 PROVE  /\ 2 * i - 1 - (p + n) \in 1 .. Len(wire') =>
                              wire'[2 * i - 1 - (p + n)] = Begins(conn, i)
                        /\ 2 * i - (p + n) \in 1 .. Len(wire') =>
                              wire'[2 * i - (p + n)] = Ends(conn, i)
      BY DEF Stream
    <2>1. ASSUME 2 * i - 1 - (p + n) \in 1 .. Len(wire')
          PROVE  wire'[2 * i - 1 - (p + n)] = Begins(conn, i)
      <3>1. n + (2 * i - 1 - (p + n)) = 2 * i - 1 - p /\ 2 * i - 1 - p \in 1 .. Len(wire)
        BY <1>18, <2>1
      <3> QED
        BY <1>4, <1>10, <2>1, <3>1 DEF Stream
    <2>2. ASSUME 2 * i - (p + n) \in 1 .. Len(wire')
          PROVE  wire'[2 * i - (p + n)] = Ends(conn, i)
      <3>1. n + (2 * i - (p + n)) = 2 * i - p /\ 2 * i - p \in 1 .. Len(wire)
        BY <1>18, <2>2
      <3> QED
        BY <1>4, <1>10, <2>2, <3>1 DEF Stream
    <2> QED
      BY <2>1, <2>2
  <1>12. p + n \in 0 .. 2 * sent[conn] /\ p + n \in Nat
    BY <1>4, <1>6
  <1>13. \/ (p + n) + Len(wire') = 2 * sent[conn]
         \/ eof = TRUE /\ (p + n) + Len(wire') = 2 * sent[conn] - 1
    BY <1>4, <1>6, <1>10
  <1>14. Consumed(p + n)'
    <2>1. At(conn, p + n, readbuf', dispatched'[conn])
      BY <1>7, <1>8, <1>9
    <2>2. conn' = conn /\ eof' = eof /\ sent' = sent
      BY <1>5
    <2> QED
      <3>1. \/ (p + n) + Len(wire') = 2 * sent'[conn']
            \/ eof' = TRUE /\ (p + n) + Len(wire') = 2 * sent'[conn'] - 1
        BY <1>13, <2>2, Zenon
      <3>2. Stream(conn', p + n, wire')
        BY <1>11, <2>2
      <3>3. At(conn', p + n, readbuf', dispatched'[conn'])
        BY <2>1, <2>2
      <3> QED
        BY <3>1, <3>2, <3>3 DEF Consumed
  <1>15. Partial(readbuf')
    BY <1>7, <1>8 DEF At
  <1>16. \A c \in Conns : \E k \in 0 .. sent[c] : Numbers(dispatched'[c], k)
    <2> TAKE c \in Conns
    <2>1. CASE c = conn
      <3>1. At(conn, p + n, readbuf', dispatched'[conn])
        BY <1>7, <1>8, <1>9
      <3>2. \E k \in 0 .. sent[conn] : Numbers(dispatched'[conn], k)
        <4> DEFINE old == p + n
                   s == sent[conn]
        <4>1. old \in Nat /\ s \in Nat /\ old <= 2 * s
          BY <1>6, <1>12
        <4>2. At(conn, old, readbuf', dispatched'[conn])
          BY <3>1
        <4> HIDE DEF old, s
        <4>3. \E k \in 0 .. s : Numbers(dispatched'[conn], k)
          BY <1>2, <4>1, <4>2, OldEvents
        <4> QED
          BY <4>3 DEF s
      <3> QED
        BY <2>1, <3>2
    <2>2. CASE c # conn
      BY <1>8, <2>2 DEF SInv
    <2> QED
      BY <2>1, <2>2
  <1>17. \A c \in Conns : c > conn => dispatched'[c] = <<>> /\ sent[c] = 0
    <2> TAKE c \in Conns
    <2>1. c > conn => c # conn
      BY <1>2 DEF Conns
    <2> HIDE DEF d
    <2> QED
      BY <1>8, <2>1 DEF SInv
  <1> QED
    BY <1>2, <1>5, <1>9, <1>12, <1>14, <1>15, <1>16, <1>17 DEF SInv

(* A connection is new: nothing of it has been sent.                       *)
LEMMA SInvOpens ==
    ASSUME TInv, SInv, ConnectOpens
    PROVE  SInv'
  <1> USE SocketAssumption
  <1> DEFINE c == conn + 1
  <1>1. /\ conn' = c /\ c \in Conns /\ wire' = <<>>
        /\ UNCHANGED <<readbuf, dispatched, sent>>
    BY DEF ConnectOpens, TInv, Peer, Conns
  <1>2. c > conn /\ \A b \in Conns : b > c => b > conn
    BY DEF TInv, Peer, Conns
  <1>3. dispatched[c] = <<>> /\ sent[c] = 0
    BY <1>1, <1>2 DEF SInv
  <1> HIDE DEF c
  <1>4. Numbers(<<>>, 0)
    BY DEF Numbers
  <1>5. Stream(c, 0, <<>>) /\ Len(<<>>) = 0
    BY DEF Stream
  <1>6. At(c, 0, readbuf, <<>>)
    BY <1>4 DEF At, Between, SInv
  <1>7. Consumed(0)'
    BY <1>1, <1>3, <1>5, <1>6 DEF Consumed
  <1>8. 0 \in 0 .. 2 * sent'[conn']
    BY <1>1, <1>3
  <1>9. \A b \in Conns : b > conn' => dispatched'[b] = <<>> /\ sent'[b] = 0
    BY <1>1, <1>2 DEF SInv
  <1> QED
    BY <1>1, <1>7, <1>8, <1>9 DEF SInv

\* The daemon puts more on the wire: a whole line, or the half that it managed.
LEMMA SInvSent ==
    ASSUME IInv, TInv, SInv, fd = TRUE, eof = FALSE, sent[conn] < MaxEvents,
           sent' = [sent EXCEPT ![conn] = @ + 1],
           \/ /\ wire' = wire \o <<Begins(conn, sent[conn] + 1), Ends(conn, sent[conn] + 1)>>
           \/ wire' = Append(wire, Begins(conn, sent[conn] + 1)) /\ eof' = TRUE,
           UNCHANGED <<fd, conn, readbuf, dispatched>>
    PROVE  SInv'
  <1> USE SocketAssumption
  <1> DEFINE s == sent[conn]
             b == Begins(conn, s + 1)
             e == Ends(conn, s + 1)
  <1>1. /\ conn \in Conns /\ s \in 0 .. MaxEvents /\ wire \in Seq(Pieces)
        /\ sent \in [Conns -> 0 .. MaxEvents]
    BY DEF TInv, Peer
  <1>2. s + 1 \in 1 .. MaxEvents /\ sent'[conn] = s + 1
    BY <1>1
  <1>3. PICK p \in 0 .. 2 * s : Consumed(p)
    BY DEF SInv
  <1>4. /\ p + Len(wire) = 2 * s /\ Stream(conn, p, wire)
        /\ At(conn, p, readbuf, dispatched[conn]) /\ p \in Nat /\ Len(wire) \in Nat
    BY <1>1, <1>3 DEF Consumed
  <1>5. b \in Pieces /\ e \in Pieces
    BY <1>1, <1>2, PiecesOf
  <1> HIDE DEF b, e
  <1>6. /\ \A i \in 1 .. Len(wire) : wire'[i] = wire[i]
        /\ wire'[Len(wire) + 1] = b
        /\ \/ Len(wire') = Len(wire) + 2 /\ wire'[Len(wire) + 2] = e
           \/ Len(wire') = Len(wire) + 1 /\ eof' = TRUE
    <2>1. CASE wire' = wire \o <<b, e>>
      BY <1>1, <1>5, <2>1
    <2>2. CASE wire' = Append(wire, b) /\ eof' = TRUE
      BY <1>1, <1>5, <2>2
    <2> QED
      BY <2>1, <2>2 DEF b, e
  <1>7. Len(wire') = Len(wire) + 1 \/ Len(wire') = Len(wire) + 2
    BY <1>6
  <1>14. /\ p + Len(wire) = 2 * s /\ p \in Nat /\ s \in Nat /\ Len(wire) \in Nat
         /\ Len(wire') \in Nat
    BY <1>1, <1>4, <1>7
  <1>8. Stream(conn, p, wire')
    <2> SUFFICES ASSUME NEW n \in 1 .. MaxEvents
                 PROVE  /\ 2 * n - 1 - p \in 1 .. Len(wire') =>
                              wire'[2 * n - 1 - p] = Begins(conn, n)
                        /\ 2 * n - p \in 1 .. Len(wire') => wire'[2 * n - p] = Ends(conn, n)
      BY DEF Stream
    <2>1. ASSUME 2 * n - 1 - p \in 1 .. Len(wire')
          PROVE  wire'[2 * n - 1 - p] = Begins(conn, n)
      <3>1. CASE 2 * n - 1 - p \in 1 .. Len(wire)
        BY <1>4, <1>6, <3>1 DEF Stream
      <3>2. CASE 2 * n - 1 - p \notin 1 .. Len(wire)
        <4> HIDE DEF s
        <4>1. 2 * n - 1 - p = Len(wire) + 1 /\ n = s + 1
          BY <1>7, <1>14, <2>1, <3>2
        <4> QED
          BY <1>6, <4>1 DEF b
      <3> QED
        BY <3>1, <3>2
    <2>2. ASSUME 2 * n - p \in 1 .. Len(wire')
          PROVE  wire'[2 * n - p] = Ends(conn, n)
      <3>1. CASE 2 * n - p \in 1 .. Len(wire)
        BY <1>4, <1>6, <3>1 DEF Stream
      <3>2. CASE 2 * n - p \notin 1 .. Len(wire)
        <4>1. 2 * n - p = Len(wire) + 2 /\ n = s + 1 /\ Len(wire') = Len(wire) + 2
          BY <1>1, <1>4, <1>7, <2>2, <3>2
        <4>2. wire'[Len(wire) + 2] = e
          <5>1. Len(wire') # Len(wire) + 1
            BY <1>4, <4>1
          <5> QED
            BY <1>6, <5>1
        <4> QED
          BY <4>1, <4>2 DEF e
      <3> QED
        BY <3>1, <3>2
    <2> QED
      BY <2>1, <2>2
  <1>9. Consumed(p)'
    <2>1. \/ p + Len(wire') = 2 * sent'[conn']
          \/ eof' = TRUE /\ p + Len(wire') = 2 * sent'[conn'] - 1
      <3>1. CASE Len(wire') = Len(wire) + 2
        BY <1>1, <1>2, <1>4, <3>1
      <3>2. CASE Len(wire') = Len(wire) + 1
        <4>1. Len(wire') # Len(wire) + 2
          BY <1>4, <3>2
        <4>2. eof' = TRUE
          BY <1>6, <4>1
        <4>3. p + Len(wire') = 2 * sent'[conn'] - 1
          <5>1. sent'[conn'] = s + 1
            BY <1>2
          <5>2. p + Len(wire') = 2 * (s + 1) - 1
            <6> HIDE DEF s
            <6> QED
              BY <1>14, <3>2, SMTT(60)
          <5> QED
            BY <5>1, <5>2, Zenon
        <4> QED
          BY <4>2, <4>3
      <3> QED
        BY <1>7, <3>1, <3>2
    <2>2. Stream(conn', p, wire') /\ At(conn', p, readbuf', dispatched'[conn'])
      BY <1>4, <1>8
    <2> QED
      BY <2>1, <2>2 DEF Consumed
  <1>10. \A c \in Conns : \E k \in 0 .. sent'[c] : Numbers(dispatched'[c], k)
    <2> TAKE c \in Conns
    <2>1. PICK k \in 0 .. sent[c] : Numbers(dispatched[c], k)
      BY DEF SInv
    <2>2. sent'[c] \in Nat /\ sent[c] \in Nat /\ sent[c] <= sent'[c]
      BY <1>1, <1>2
    <2>3. k \in 0 .. sent'[c]
      BY <2>1, <2>2
    <2> QED
      BY <2>1, <2>3
  <1>11. \A c \in Conns : c > conn' => dispatched'[c] = <<>> /\ sent'[c] = 0
    <2> TAKE c \in Conns
    <2>1. c > conn => c # conn
      BY <1>1 DEF Conns
    <2> QED
      BY <1>1, <2>1 DEF SInv
  <1>12. p \in 0 .. 2 * sent'[conn']
    BY <1>1, <1>2, <1>4
  <1>13. Partial(readbuf') /\ dispatched' \in [Conns -> Seq(Nat)]
    BY DEF SInv
  <1> QED
    BY <1>9, <1>10, <1>11, <1>12, <1>13 DEF SInv

LEMMA SInvStep == IInv /\ TInv /\ SInv /\ [Next]_vars => SInv'
  <1> SUFFICES ASSUME IInv, TInv, SInv, [Next]_vars PROVE SInv'
    OBVIOUS
  <1>1. ASSUME UNCHANGED <<conn, sent, dispatched, readbuf>>, fd' = FALSE
        PROVE  SInv'
    BY <1>1 DEF SInv
  <1>2. ASSUME UNCHANGED <<conn, sent, dispatched, readbuf, wire, fd>>,
               eof' = eof \/ eof' = TRUE
        PROVE  SInv'
    <2>1. ASSUME NEW p, Consumed(p) PROVE Consumed(p)'
      BY <1>2, <2>1 DEF Consumed
    <2> QED
      BY <1>2, <2>1 DEF SInv
  <1>3. CASE PluginInit \/ OnRetryTimer
    <2>1. PICK b : Connect(b)
      BY <1>3 DEF PluginInit, OnRetryTimer
    <2>2. fd = FALSE
      BY <1>3 DEF PluginInit, OnRetryTimer, IInv, ConnectedOrRetrying
    <2>3. CASE ConnectOpens
      BY <2>3, SInvOpens
    <2>4. CASE ConnectFails(b) \/ IdentifyFails(b)
      BY <1>1, <2>2, <2>4 DEF ConnectFails, IdentifyFails
    <2> QED
      BY <2>1, <2>3, <2>4 DEF Connect
  <1>4. CASE OnReadable
    BY <1>4, SInvReadable
  <1>5. CASE OnHangup \/ SendFails \/ PluginExit
    BY <1>1, <1>5 DEF OnHangup, SendFails, PluginExit, HandleDisconnect
  <1>6. CASE DaemonSends
    <2>1. fd = TRUE /\ eof = FALSE /\ conn \in Conns
      BY <1>6 DEF DaemonSends, IInv, TInv, Peer
    <2>2. /\ sent[conn] < MaxEvents
          /\ sent' = [sent EXCEPT ![conn] = @ + 1]
          /\ wire' = wire \o <<Begins(conn, sent[conn] + 1), Ends(conn, sent[conn] + 1)>>
          /\ UNCHANGED <<fd, conn, readbuf, dispatched>>
      BY <1>6 DEF DaemonSends
    <2> QED
      BY <2>1, <2>2, SInvSent
  <1>7. CASE DaemonStops
    <2>1. eof' = TRUE /\ UNCHANGED <<fd, conn, readbuf, dispatched>>
      BY <1>7 DEF DaemonStops
    <2>2. CASE UNCHANGED <<wire, sent>>
      BY <1>2, <2>1, <2>2
    <2>3. CASE /\ fd /\ ~eof /\ sent[conn] < MaxEvents
               /\ wire' = Append(wire, Begins(conn, sent[conn] + 1))
               /\ sent' = [sent EXCEPT ![conn] = @ + 1]
      <3>1. fd = TRUE /\ eof = FALSE
        BY <2>3 DEF IInv, TInv, Peer
      <3> QED
        BY <2>1, <2>3, <3>1, SInvSent
    <2> QED
      BY <1>7, <2>2, <2>3 DEF DaemonStops
  <1>8. CASE DaemonStarts \/ UNCHANGED vars
    BY <1>2, <1>8 DEF DaemonStarts, vars
  <1> QED
    BY <1>3, <1>4, <1>5, <1>6, <1>7, <1>8 DEF Next, Handler

(* However the lines are cut by reads and by daemons dying in the middle of   *)
(* one, the callbacks see the events of a connection in order, none twice   *)
(* and none left out but perhaps the first; and once a client is greeted    *)
(* and all is read, all is dispatched.                                      *)
THEOREM InOrder == Spec => []EventsInOrder
  <1>1. IInv /\ TInv /\ SInv => EventsInOrder
    <2> SUFFICES ASSUME IInv, TInv, SInv PROVE EventsInOrder
      OBVIOUS
    <2> USE SocketAssumption
    <2>0. sent \in [Conns -> 0 .. MaxEvents] /\ dispatched \in [Conns -> Seq(Nat)]
      BY DEF TInv, Peer, SInv
    <2>1. ASSUME NEW c \in Conns
          PROVE  /\ Len(dispatched[c]) <= sent[c]
                 /\ dispatched[c] # <<>> => dispatched[c][1] \in {1, 2}
                 /\ \A i \in 1 .. Len(dispatched[c]) - 1 :
                       dispatched[c][i + 1] = dispatched[c][i] + 1
      <3> DEFINE d == dispatched[c]
      <3>1. PICK k \in 0 .. sent[c] : Numbers(d, k)
        BY DEF SInv
      <3>2. d \in Seq(Nat) /\ sent[c] \in 0 .. MaxEvents
        BY <2>0
      <3> HIDE DEF d
      <3>3. /\ Len(d) \in {k, k - 1} /\ Len(d) \in Nat
            /\ \A i \in 1 .. Len(d) : d[i] = k - Len(d) + i
        BY <3>1, <3>2 DEF Numbers
      <3>4. Len(d) <= sent[c]
        BY <3>2, <3>3
      <3>5. d # <<>> => d[1] \in {1, 2}
        <4>1. d # <<>> => 1 \in 1 .. Len(d)
          BY <3>2, EmptySeq
        <4> QED
          BY <3>3, <4>1
      <3>6. \A i \in 1 .. Len(d) - 1 : d[i + 1] = d[i] + 1
        BY <3>3
      <3> QED
        BY <3>4, <3>5, <3>6 DEF d
    <2>2. ASSUME fd, ~eof, wire = <<>>, sent[conn] > 0
          PROVE  /\ readbuf = <<>>
                 /\ dispatched[conn] # <<>> => Last(dispatched[conn]) = sent[conn]
      <3> DEFINE d == dispatched[conn]
                 s == sent[conn]
      <3>1. fd = TRUE /\ eof = FALSE /\ conn \in Conns
        BY <2>2 DEF IInv, TInv, Peer
      <3>2. PICK p \in 0 .. 2 * s : Consumed(p)
        BY <3>1 DEF SInv
      <3>3. s >= 1 /\ s \in Nat /\ d \in Seq(Nat)
        BY <2>0, <2>2, <3>1
      <3>4. p + Len(wire) = 2 * s /\ Len(wire) = 0 /\ At(conn, p, readbuf, d)
        BY <2>2, <3>1, <3>2 DEF Consumed
      <3> HIDE DEF s, d
      <3>5. p = 2 * s
        BY <3>2, <3>3, <3>4
      <3>6. PICK k \in 0 .. MaxEvents :
                Between(k, p, readbuf, d) \/ Inside(conn, k, p, readbuf, d)
        BY <3>4 DEF At
      <3>7. k = s /\ readbuf = <<>> /\ Numbers(d, k)
        BY <3>3, <3>5, <3>6 DEF Between, Inside
      <3>8. d # <<>> => d[Len(d)] = s
        <4>1. d # <<>> => Len(d) \in 1 .. Len(d) /\ Len(d) \in Nat
          BY <3>3, EmptySeq
        <4> QED
          BY <3>3, <3>7, <4>1 DEF Numbers
      <3> QED
        BY <3>7, <3>8 DEF Last, d, s
    <2> QED
      BY <2>1, <2>2 DEF EventsInOrder
  <1> QED
    BY IInvInit, IInvStep, TInvInit, TInvStep, SInvInit, SInvStep, <1>1, PTL DEF Spec
=============================================================================
