--------------------------- MODULE IpcServerProofs ---------------------------
(***************************************************************************)
(* Every client is sent a run of the announced events and the answers to    *)
(* its own lines, in order, and knows the state once all is sent: proved    *)
(* for any clients, events and lines.  What Only leaves of a growing        *)
(* sequence is proved by induction, as the absence of a least               *)
(* counterexample.                                                         *)
(***************************************************************************)
EXTENDS IpcServer, SequenceTheorems, WellFoundedInduction, TLAPS

-----------------------------------------------------------------------------
(* Only, message by message.                                               *)

(* A set of naturals with an element has a least one.                       *)
LEMMA NatMin ==
    ASSUME NEW T, T \subseteq Nat, T # {}
    PROVE  \E n \in T : \A m \in T : n <= m
  <1>1. IsWellFoundedOn(OpToRel(<, Nat), Nat)
    BY NatLessThanWellFounded
  <1>2. PICK n \in T : \A m \in T : <<m, n>> \notin OpToRel(<, Nat)
    BY <1>1, WFMin
  <1>3. ASSUME NEW m \in T, ~(n <= m) PROVE FALSE
    <2>1. <<m, n>> \in OpToRel(<, Nat)
      BY <1>3 DEF OpToRel
    <2> QED
      BY <1>2, <2>1
  <1> QED
    BY <1>3

\* f[n] is what is left of the first n messages.
Filters(f, s, kinds, N) ==
    \A n \in 0 .. N :
        f[n] = IF n = 0 THEN <<>>
               ELSE IF s[n].kind \in kinds THEN Append(f[n - 1], s[n])
               ELSE f[n - 1]

(* There is such a function, and only one.                                 *)
LEMMA FilterExists ==
    ASSUME NEW X, NEW s \in Seq(X), NEW kinds
    PROVE  \A N \in 0 .. Len(s) : \E f : Filters(f, s, kinds, N)
  <1> DEFINE T == {N \in 0 .. Len(s) : ~ \E f : Filters(f, s, kinds, N)}
  <1> SUFFICES ASSUME T # {} PROVE FALSE
    OBVIOUS
  <1>0. T \subseteq Nat
    OBVIOUS
  <1> HIDE DEF T
  <1>1. PICK N \in T : \A m \in T : N <= m
    BY <1>0, NatMin
  <1> USE DEF T
  <1>2. CASE N = 0
    <2>1. Filters([n \in {0} |-> <<>>], s, kinds, 0)
      BY DEF Filters
    <2> QED
      BY <1>1, <1>2, <2>1
  <1>3. CASE N # 0
    <2>1. PICK f : Filters(f, s, kinds, N - 1)
      BY <1>1, <1>3
    <2> DEFINE g == [n \in 0 .. N |->
                        IF n < N THEN f[n]
                        ELSE IF s[n].kind \in kinds THEN Append(f[n - 1], s[n])
                        ELSE f[n - 1]]
    <2>2. Filters(g, s, kinds, N)
      BY <1>3, <2>1 DEF Filters
    <2> QED
      BY <1>1, <2>2
  <1> QED
    BY <1>2, <1>3

LEMMA FilterUnique ==
    ASSUME NEW X, NEW s \in Seq(X), NEW t \in Seq(X), NEW kinds, NEW f, NEW g,
           NEW N \in Nat, N <= Len(s), N <= Len(t),
           \A n \in 1 .. N : s[n] = t[n],
           Filters(f, s, kinds, N), Filters(g, t, kinds, N)
    PROVE  f[N] = g[N]
  <1> DEFINE T == {n \in 0 .. N : f[n] # g[n]}
  <1> SUFFICES ASSUME T # {} PROVE FALSE
    OBVIOUS
  <1>0. T \subseteq Nat
    OBVIOUS
  <1> HIDE DEF T
  <1>1. PICK n \in T : \A m \in T : n <= m
    BY <1>0, NatMin
  <1> USE DEF T
  <1>2. CASE n = 0
    BY <1>1, <1>2 DEF Filters
  <1>3. CASE n # 0
    <2>1. f[n - 1] = g[n - 1]
      BY <1>1, <1>3
    <2> QED
      BY <1>1, <1>3, <2>1 DEF Filters
  <1> QED
    BY <1>2, <1>3

LEMMA OnlyIs ==
    ASSUME NEW X, NEW s \in Seq(X), NEW kinds
    PROVE  \E f : Filters(f, s, kinds, Len(s)) /\ Only(s, kinds) = f[Len(s)]
  <1> DEFINE f == CHOOSE f : f = [n \in 0 .. Len(s) |->
                    IF n = 0 THEN <<>>
                    ELSE IF s[n].kind \in kinds THEN Append(f[n - 1], s[n])
                    ELSE f[n - 1]]
  <1>1. Only(s, kinds) = f[Len(s)]
    BY DEF Only
  <1>0. Len(s) \in 0 .. Len(s)
    OBVIOUS
  <1>2. PICK g : Filters(g, s, kinds, Len(s))
    BY <1>0, FilterExists
  <1> DEFINE h == [n \in 0 .. Len(s) |-> g[n]]
  <1>3. h = [n \in 0 .. Len(s) |->
                    IF n = 0 THEN <<>>
                    ELSE IF s[n].kind \in kinds THEN Append(h[n - 1], s[n])
                    ELSE h[n - 1]]
    BY <1>2 DEF Filters
  <1> HIDE DEF h
  <1>4. f = [n \in 0 .. Len(s) |->
                    IF n = 0 THEN <<>>
                    ELSE IF s[n].kind \in kinds THEN Append(f[n - 1], s[n])
                    ELSE f[n - 1]]
    BY <1>3
  <1> HIDE DEF f
  <1>5. Filters(f, s, kinds, Len(s))
    BY <1>4 DEF Filters
  <1> QED
    BY <1>1, <1>5

(* A message more is left or dropped; the rest is not disturbed.            *)
LEMMA OnlyType ==
    ASSUME NEW X, NEW s \in Seq(X), NEW kinds
    PROVE  Only(s, kinds) \in Seq(X)
  <1>1. PICK f : Filters(f, s, kinds, Len(s)) /\ Only(s, kinds) = f[Len(s)]
    BY OnlyIs
  <1> DEFINE T == {n \in 0 .. Len(s) : f[n] \notin Seq(X)}
  <1>2. ASSUME T # {} PROVE FALSE
    <2>0. T \subseteq Nat
      OBVIOUS
    <2> HIDE DEF T
    <2>1. PICK n \in T : \A m \in T : n <= m
      BY <1>2, <2>0, NatMin
    <2> USE DEF T
    <2>2. CASE n = 0
      <3>1. f[0] = <<>> /\ <<>> \in Seq(X)
        BY <1>1 DEF Filters
      <3> QED
        BY <2>1, <2>2, <3>1
    <2>3. CASE n # 0
      <3>1. f[n - 1] \in Seq(X) /\ s[n] \in X
        BY <2>1, <2>3
      <3>2. f[n] = IF s[n].kind \in kinds THEN Append(f[n - 1], s[n]) ELSE f[n - 1]
        BY <1>1, <2>1, <2>3 DEF Filters
      <3>3. Append(f[n - 1], s[n]) \in Seq(X)
        BY <3>1
      <3> QED
        BY <2>1, <3>1, <3>2, <3>3
    <2> QED
      BY <2>2, <2>3
  <1> QED
    BY <1>1, <1>2

LEMMA OnlyEmpty == \A kinds : Only(<<>>, kinds) = <<>>
  <1> TAKE kinds
  <1>1. <<>> \in Seq({}) /\ Len(<<>>) = 0
    OBVIOUS
  <1>2. PICK f : Filters(f, <<>>, kinds, Len(<<>>)) /\ Only(<<>>, kinds) = f[Len(<<>>)]
    BY <1>1, OnlyIs
  <1>3. f[0] = <<>>
    BY <1>1, <1>2 DEF Filters
  <1> QED
    BY <1>1, <1>2, <1>3

LEMMA OnlyAppend ==
    ASSUME NEW X, NEW s \in Seq(X), NEW m \in X, NEW kinds
    PROVE  Only(Append(s, m), kinds) =
               IF m.kind \in kinds THEN Append(Only(s, kinds), m)
                                   ELSE Only(s, kinds)
  <1> DEFINE t == Append(s, m)
  <1>0. /\ t \in Seq(X) /\ Len(t) = Len(s) + 1 /\ t[Len(t)] = m
        /\ \A n \in 1 .. Len(s) : t[n] = s[n]
    OBVIOUS
  <1> HIDE DEF t
  <1>1. PICK f : Filters(f, s, kinds, Len(s)) /\ Only(s, kinds) = f[Len(s)]
    BY OnlyIs
  <1>2. PICK g : Filters(g, t, kinds, Len(t)) /\ Only(t, kinds) = g[Len(t)]
    BY <1>0, OnlyIs
  <1>3. Filters(g, t, kinds, Len(s))
    BY <1>0, <1>2 DEF Filters
  <1>4. f[Len(s)] = g[Len(s)]
    BY <1>0, <1>1, <1>3, FilterUnique
  <1>5. g[Len(t)] = IF m.kind \in kinds THEN Append(g[Len(s)], m) ELSE g[Len(s)]
    BY <1>0, <1>2 DEF Filters
  <1> QED
    BY <1>1, <1>2, <1>4, <1>5 DEF t

LEMMA ConcatAppend ==
    ASSUME NEW X, NEW s \in Seq(X), NEW t \in Seq(X), NEW m \in X
    PROVE  s \o Append(t, m) = Append(s \o t, m)
  OBVIOUS

LEMMA OnlyConcat ==
    ASSUME NEW X, NEW s \in Seq(X), NEW t \in Seq(X), NEW kinds
    PROVE  Only(s \o t, kinds) = Only(s, kinds) \o Only(t, kinds)
  <1>0. ASSUME NEW u \in Seq(X), NEW m \in X,
               Only(s \o u, kinds) = Only(s, kinds) \o Only(u, kinds)
        PROVE  Only(s \o Append(u, m), kinds) = Only(s, kinds) \o Only(Append(u, m), kinds)
    <2> DEFINE v == s \o u
               a == Only(s, kinds)
               b == Only(u, kinds)
    <2>1. v \in Seq(X)
      OBVIOUS
    <2>2. a \in Seq(X) /\ b \in Seq(X)
      BY OnlyType
    <2>3. s \o Append(u, m) = Append(v, m)
      BY ConcatAppend
    <2>4. Only(v, kinds) = a \o b
      BY <1>0
    <2>5. Only(Append(u, m), kinds) = IF m.kind \in kinds THEN Append(b, m) ELSE b
      BY OnlyAppend
    <2> HIDE DEF v, a, b
    <2>6. Only(Append(v, m), kinds)
              = IF m.kind \in kinds THEN Append(Only(v, kinds), m) ELSE Only(v, kinds)
      BY <2>1, OnlyAppend
    <2>7. a \o Append(b, m) = Append(a \o b, m)
      BY <2>2, ConcatAppend
    <2>8. Only(Append(v, m), kinds) = a \o Only(Append(u, m), kinds)
      BY <2>4, <2>5, <2>6, <2>7
    <2> QED
      BY <2>3, <2>8 DEF a
  <1> DEFINE P(n) == Only(s \o SubSeq(t, 1, n), kinds)
                         = Only(s, kinds) \o Only(SubSeq(t, 1, n), kinds)
             T == {n \in 0 .. Len(t) : ~P(n)}
  <1>1. ASSUME T # {} PROVE FALSE
    <2>0. T \subseteq Nat
      OBVIOUS
    <2> HIDE DEF T
    <2>1. PICK n \in T : \A m \in T : n <= m
      BY <1>1, <2>0, NatMin
    <2> USE DEF T
    <2>2. CASE n = 0
      <3>1. SubSeq(t, 1, 0) = <<>> /\ s \o <<>> = s
        OBVIOUS
      <3>2. Only(s, kinds) \o <<>> = Only(s, kinds)
        BY OnlyType
      <3> QED
        BY <2>1, <2>2, <3>1, <3>2, OnlyEmpty
    <2>3. CASE n # 0
      <3> DEFINE u == SubSeq(t, 1, n - 1)
      <3>1. n - 1 \in 0 .. Len(t) /\ P(n - 1)
        BY <2>1, <2>3
      <3>2. u \in Seq(X) /\ t[n] \in X /\ SubSeq(t, 1, n) = Append(u, t[n])
        BY <2>1, <2>3
      <3> HIDE DEF u
      <3>3. u \in Seq(X) /\ t[n] \in X
        BY <3>2
      <3>4. Only(s \o u, kinds) = Only(s, kinds) \o Only(u, kinds)
        BY <3>1 DEF u
      <3> HIDE DEF P, T
      <3>5. Only(s \o Append(u, t[n]), kinds) = Only(s, kinds) \o Only(Append(u, t[n]), kinds)
        <4> DEFINE m == t[n]
        <4>1. m \in X
          BY <3>3
        <4> HIDE DEF m, u
        <4>2. Only(s \o Append(u, m), kinds) = Only(s, kinds) \o Only(Append(u, m), kinds)
          BY <1>0, <3>3, <3>4, <4>1
        <4> QED
          BY <4>2 DEF m
      <3>6. Only(s \o SubSeq(t, 1, n), kinds) = Only(s, kinds) \o Only(SubSeq(t, 1, n), kinds)
        BY <3>2, <3>5
      <3> USE DEF P, T
      <3> QED
        BY <2>1, <3>6
    <2> QED
      BY <2>2, <2>3
  <1>2. P(Len(t))
    BY <1>1
  <1>3. SubSeq(t, 1, Len(t)) = t
    OBVIOUS
  <1> QED
    BY <1>2, <1>3

LEMMA OnlyOne ==
    ASSUME NEW X, NEW m \in X, NEW kinds
    PROVE  Only(<<m>>, kinds) = IF m.kind \in kinds THEN <<m>> ELSE <<>>
  <1>1. <<>> \in Seq(X) /\ Append(<<>>, m) = <<m>>
    OBVIOUS
  <1>2. Only(Append(<<>>, m), kinds)
            = IF m.kind \in kinds THEN Append(Only(<<>>, kinds), m) ELSE Only(<<>>, kinds)
    BY <1>1, OnlyAppend, ZenonT(40)
  <1> QED
    BY <1>1, <1>2, OnlyEmpty

-----------------------------------------------------------------------------
(* Types.                                                                  *)

Messages ==
    Broadcasts \union [kind : {"greeting"}, num : 0 .. MaxEvents]
               \union [kind : {"reply"}, num : 0 .. MaxEvents, line : Nat]
               \union [kind : {"error"}, line : Nat]

\* At most the first line is being written.
Boxes ==
    {b \in [out : Seq(Messages), writes : Seq(Messages)] :
        b.writes # <<>> => b.out # <<>> /\ b.writes = <<Head(b.out)>>}

TInv ==
    /\ running \in BOOLEAN
    /\ state \in 0 .. MaxEvents
    /\ announced \in Seq(Broadcasts) /\ posted \in Seq(Broadcasts)
    /\ members \subseteq Conns
    /\ peer \in [Conns -> {"none", "open", "closed"}]
    /\ accepted \in [Conns -> BOOLEAN] /\ reading \in [Conns -> BOOLEAN]
    /\ box \in [Conns -> Boxes]
    /\ written \in [Conns -> Seq(Lines)]
    /\ taken \in [Conns -> Nat] /\ from \in [Conns -> Int]
    /\ got \in [Conns -> Seq(Messages)]

LEMMA Said ==
    /\ Broadcasts \subseteq Messages
    /\ \A n \in Nat : /\ Refusal(n) \in Messages /\ Refusal(n).kind = "error"
                      /\ Refusal(n).line = n
    /\ state \in 0 .. MaxEvents =>
          /\ Greeting \in Messages /\ Greeting.kind = "greeting" /\ Greeting.num = state
          /\ \A n \in Nat : /\ Reply(n) \in Messages /\ Reply(n).kind = "reply"
                            /\ Reply(n).num = state /\ Reply(n).line = n
    /\ \A m \in Broadcasts : m.kind = "state"
    /\ \A m \in Messages : m.kind = "state" => m \in Broadcasts
    /\ \A m \in Messages : m.kind \in {"state", "greeting", "reply", "error"}
  BY DEF Broadcasts, Greeting, Reply, Refusal, Messages

LEMMA AppendFacts ==
    ASSUME NEW X, NEW q \in Seq(X), NEW m \in X
    PROVE  /\ Append(q, m) \in Seq(X) /\ Append(q, m) # <<>>
           /\ q = <<>> => Head(Append(q, m)) = m
           /\ q # <<>> => Head(Append(q, m)) = Head(q)
  <1>1. Append(q, m) \in Seq(X)
    OBVIOUS
  <1>2. Append(q, m) # <<>>
    BY AppendProperties
  <1>3. q = <<>> => Head(Append(q, m)) = m
    OBVIOUS
  <1>4. q # <<>> => Head(Append(q, m)) = Head(q)
    OBVIOUS
  <1> QED
    BY <1>1, <1>2, <1>3, <1>4

LEMMA OneFacts ==
    ASSUME NEW m
    PROVE  /\ Head(<<m>>) = m /\ Tail(<<m>>) = <<>> /\ <<m>> # <<>>
           /\ \A X : m \in X => <<m>> \in Seq(X)
  OBVIOUS

LEMMA HeadFacts ==
    ASSUME NEW X, NEW q \in Seq(X), q # <<>>
    PROVE  /\ Head(q) \in X /\ Tail(q) \in Seq(X)
           /\ <<>> \o SubSeq(q, 1, 1) = <<Head(q)>>
           /\ q = <<Head(q)>> \o Tail(q)
  <1>1. Head(q) \in X /\ Tail(q) \in Seq(X)
    OBVIOUS
  <1>2. q = <<Head(q)>> \o Tail(q)
    OBVIOUS
  <1> DEFINE a == <<>> \o SubSeq(q, 1, 1)
             b == <<q[1]>>
  <1>3. Len(q) >= 1 /\ Head(q) = q[1] /\ q[1] \in X
    OBVIOUS
  <1>4. a \in Seq(X) /\ Len(a) = 1 /\ a[1] = q[1]
    BY <1>3
  <1>5. b \in Seq(X) /\ Len(b) = 1 /\ b[1] = q[1]
    BY <1>3
  <1> HIDE DEF a, b
  <1>6. a = b
    BY <1>4, <1>5, SeqEqual
  <1> QED
    BY <1>1, <1>2, <1>3, <1>6 DEF a, b

LEMMA Queues ==
    ASSUME NEW b \in Boxes, NEW m \in Messages
    PROVE  /\ Queue(b, m) \in Boxes
           /\ Queue(b, m).out = Append(b.out, m)
           /\ Queue(b, m).writes = IF b.out = <<>> THEN <<m>> ELSE b.writes
  <1>1. /\ b.out \in Seq(Messages) /\ b.writes \in Seq(Messages)
        /\ b.out = <<>> => b.writes = <<>>
    BY DEF Boxes
  <1> DEFINE out == Append(b.out, m)
             writes == IF b.out = <<>> THEN <<m>> ELSE b.writes
  <1>2. /\ out \in Seq(Messages) /\ out # <<>>
        /\ Head(out) = IF b.out = <<>> THEN m ELSE Head(b.out)
        /\ <<m>> \in Seq(Messages)
    BY <1>1, AppendFacts, OneFacts
  <1>3. writes \in Seq(Messages) /\ (writes # <<>> => writes = <<Head(out)>>)
    <2>1. CASE b.out = <<>>
      BY <1>2, <2>1
    <2>2. CASE b.out # <<>>
      BY <1>1, <1>2, <2>2 DEF Boxes
    <2> QED
      BY <2>1, <2>2
  <1>4. Queue(b, m) = [out |-> out, writes |-> writes]
    BY DEF Queue
  <1> HIDE DEF out, writes
  <1>5. Queue(b, m) \in Boxes
    <2> DEFINE r == [out |-> out, writes |-> writes]
    <2>1. /\ r \in [out : Seq(Messages), writes : Seq(Messages)]
          /\ r.out = out /\ r.writes = writes
      BY <1>2, <1>3
    <2> HIDE DEF r
    <2>2. r \in Boxes
      BY <1>2, <1>3, <2>1 DEF Boxes
    <2> QED
      BY <1>4, <2>2 DEF r
  <1> QED
    BY <1>4, <1>5 DEF out, writes

LEMMA BoxOf ==
    ASSUME NEW b \in Boxes
    PROVE  /\ \A live : Drop(b, live) \in Boxes
           /\ [out |-> b.out, writes |-> <<>>] \in Boxes
           /\ b.out \in Seq(Messages) /\ b.writes \in Seq(Messages)
           /\ b.writes # <<>> =>
                 /\ b.out # <<>> /\ Head(b.out) \in Messages
                 /\ Tail(b.out) \in Seq(Messages)
                 /\ b.writes = <<Head(b.out)>> /\ Tail(b.writes) = <<>>
                 /\ Head(b.writes) = Head(b.out)
  <1>1. /\ b.out \in Seq(Messages) /\ b.writes \in Seq(Messages)
        /\ b.writes # <<>> => b.out # <<>> /\ b.writes = <<Head(b.out)>>
    BY DEF Boxes
  <1>2. <<>> \in Seq(Messages)
    OBVIOUS
  <1>3. \A live : Drop(b, live) \in Boxes
    BY <1>2 DEF Drop, Boxes
  <1>4. [out |-> b.out, writes |-> <<>>] \in Boxes
    BY <1>1, <1>2 DEF Boxes
  <1>5. b.writes # <<>> =>
           /\ b.out # <<>> /\ Head(b.out) \in Messages
           /\ Tail(b.out) \in Seq(Messages)
           /\ b.writes = <<Head(b.out)>> /\ Tail(b.writes) = <<>>
           /\ Head(b.writes) = Head(b.out)
    <2> SUFFICES ASSUME b.writes # <<>>
                 PROVE  /\ Head(b.out) \in Messages /\ Tail(b.out) \in Seq(Messages)
                        /\ Tail(b.writes) = <<>> /\ Head(b.writes) = Head(b.out)
      BY <1>1
    <2>1. Head(b.out) \in Messages /\ Tail(b.out) \in Seq(Messages)
      BY <1>1, HeadFacts
    <2>2. b.writes = <<Head(b.out)>>
      BY <1>1
    <2> QED
      BY <2>1, <2>2, OneFacts
  <1> QED
    BY <1>1, <1>3, <1>4, <1>5, Zenon

(* What WriteDone leaves of a box: the next line, if any, is being written. *)
Popped(b) ==
    LET rest == Tail(b.out)
    IN  [out    |-> rest,
         writes |-> Tail(b.writes) \o SubSeq(rest, 1, IF rest = <<>> THEN 0 ELSE 1)]

LEMMA Pops ==
    ASSUME NEW b \in Boxes, b.writes # <<>>
    PROVE  /\ Popped(b) \in Boxes /\ Popped(b).out = Tail(b.out)
           /\ Popped(b).writes = IF Tail(b.out) = <<>> THEN <<>>
                                 ELSE <<Head(Tail(b.out))>>
  <1> DEFINE rest == Tail(b.out)
  <1>1. rest \in Seq(Messages) /\ Tail(b.writes) = <<>>
    BY BoxOf
  <1> HIDE DEF rest
  <1>2. <<>> \o SubSeq(rest, 1, IF rest = <<>> THEN 0 ELSE 1)
            = IF rest = <<>> THEN <<>> ELSE <<Head(rest)>>
    <2>1. CASE rest = <<>>
      BY <2>1
    <2>2. CASE rest # <<>>
      <3>1. <<>> \o SubSeq(rest, 1, 1) = <<Head(rest)>>
        BY <1>1, <2>2, HeadFacts
      <3> QED
        BY <2>2, <3>1
    <2> QED
      BY <2>1, <2>2
  <1>3. /\ <<>> \in Seq(Messages)
        /\ rest # <<>> => <<Head(rest)>> \in Seq(Messages)
    BY <1>1, HeadFacts, OneFacts
  <1>4. Popped(b) = [out    |-> rest,
                     writes |-> IF rest = <<>> THEN <<>> ELSE <<Head(rest)>>]
    BY <1>1, <1>2 DEF Popped, rest
  <1>5. Popped(b) \in Boxes
    BY <1>1, <1>3, <1>4 DEF Boxes
  <1>6. /\ Popped(b).out = rest
        /\ Popped(b).writes = IF rest = <<>> THEN <<>> ELSE <<Head(rest)>>
    BY <1>4
  <1> QED
    BY <1>5, <1>6 DEF rest

LEMMA TInvInit == Init => TInv
  <1> SUFFICES ASSUME Init PROVE TInv
    OBVIOUS
  <1>1. [out |-> <<>>, writes |-> <<>>] \in Boxes
    BY DEF Boxes
  <1> QED
    BY <1>1, IpcAssumption DEF Init, TInv

LEMMA TInvStep == TInv /\ [Next]_vars => TInv'
  <1> SUFFICES ASSUME TInv, [Next]_vars PROVE TInv'
    OBVIOUS
  <1> USE IpcAssumption DEF TInv, session, server, clients
  <1>1. CASE SetState
    <2>1. [kind |-> "state", num |-> state'] \in Broadcasts
      BY <1>1 DEF SetState, Broadcasts
    <2> QED
      BY <1>1, <2>1 DEF SetState
  <1>2. CASE RunBroadcast
    <2>1. Head(posted) \in Messages /\ Tail(posted) \in Seq(Broadcasts)
      BY <1>2, Said DEF RunBroadcast
    <2>2. box' \in [Conns -> Boxes]
      BY <1>2, <2>1, Queues DEF RunBroadcast
    <2> QED
      BY <1>2, <2>1, <2>2 DEF RunBroadcast
  <1>3. CASE Stop
    <2>1. box' \in [Conns -> Boxes]
      BY <1>3, BoxOf DEF Stop
    <2>2. accepted' \in [Conns -> BOOLEAN] /\ reading' \in [Conns -> BOOLEAN]
      BY <1>3 DEF Stop
    <2>3. taken' \in [Conns -> Nat] /\ from' \in [Conns -> Int]
      BY <1>3 DEF Stop
    <2>4. running' \in BOOLEAN /\ members' = {} /\ posted' = <<>>
      BY <1>3 DEF Stop
    <2>5. UNCHANGED <<state, announced, peer, written, got>>
      BY <1>3 DEF Stop
    <2> QED
      BY <2>1, <2>2, <2>3, <2>4, <2>5
  <1>4. ASSUME NEW c \in Conns, Accept(c) PROVE TInv'
    <2>1. Queue(box[c], Greeting) \in Boxes
      BY Queues, Said
    <2>2. box' \in [Conns -> Boxes]
      BY <1>4, <2>1 DEF Accept
    <2>3. accepted' \in [Conns -> BOOLEAN] /\ reading' \in [Conns -> BOOLEAN]
      BY <1>4 DEF Accept
    <2>4. from' \in [Conns -> Int] /\ members' \subseteq Conns
      BY <1>4 DEF Accept
    <2>5. UNCHANGED <<running, posted, state, announced, peer, written, got, taken>>
      BY <1>4 DEF Accept
    <2> QED
      BY <2>2, <2>3, <2>4, <2>5
  <1>5. ASSUME NEW c \in Conns, OnLine(c) PROVE TInv'
    <2>3. taken' \in [Conns -> Nat] /\ taken'[c] \in Nat
      BY <1>5 DEF OnLine
    <2>1. Queue(box[c], Reply(taken'[c])) \in Boxes
          /\ Queue(box[c], Refusal(taken'[c])) \in Boxes
      BY <2>3, Queues, Said
    <2>2. box' \in [Conns -> Boxes]
      BY <1>5, <2>1 DEF OnLine
    <2>4. UNCHANGED <<running, members, posted, state, announced, peer, written,
                      got, from, accepted, reading>>
      BY <1>5 DEF OnLine
    <2> QED
      BY <2>2, <2>3, <2>4
  <1>6. ASSUME NEW c \in Conns, ReadEnds(c) PROVE TInv'
    <2>1. box' \in [Conns -> Boxes]
      BY <1>6, BoxOf DEF ReadEnds
    <2>2. reading' \in [Conns -> BOOLEAN] /\ members' \subseteq Conns
      BY <1>6 DEF ReadEnds
    <2>3. UNCHANGED <<running, posted, state, announced, peer, written,
                      got, from, accepted, taken>>
      BY <1>6 DEF ReadEnds
    <2> QED
      BY <2>1, <2>2, <2>3
  <1>7. ASSUME NEW c \in Conns, WriteFails(c) PROVE TInv'
    <2>1. box[c] \in Boxes /\ Tail(box[c].writes) = <<>>
      BY <1>7, BoxOf DEF WriteFails
    <2>2. Drop([out |-> box[c].out, writes |-> <<>>], reading[c]) \in Boxes
      BY <2>1, BoxOf
    <2>3. box' = [box EXCEPT ![c] = Drop([out |-> box[c].out, writes |-> <<>>], reading[c])]
      BY <1>7, <2>1 DEF WriteFails
    <2>4. UNCHANGED <<running, posted, state, announced, peer, written,
                      got, from, accepted, taken, reading>>
          /\ members' \subseteq Conns
      BY <1>7 DEF WriteFails
    <2> QED
      BY <2>2, <2>3, <2>4
  <1>8. ASSUME NEW c \in Conns, WriteDone(c) PROVE TInv'
    <2>1. box[c] \in Boxes /\ Popped(box[c]) \in Boxes /\ Head(box[c].writes) \in Messages
      BY <1>8, Pops, BoxOf DEF WriteDone
    <2>2. box' = [box EXCEPT ![c] = Popped(box[c])]
      BY <1>8 DEF WriteDone, Popped
    <2>3. got' \in [Conns -> Seq(Messages)]
      BY <1>8, <2>1 DEF WriteDone
    <2>4. UNCHANGED <<running, posted, members, state, announced, peer, written,
                      from, accepted, taken, reading>>
      BY <1>8 DEF WriteDone
    <2> QED
      BY <2>1, <2>2, <2>3, <2>4
  <1>9. ASSUME NEW c \in Conns,
               ClientConnects(c) \/ ClientCloses(c) \/ (c \in Tools /\ PrintStatus(c))
        PROVE  TInv'
    <2>1. peer' \in [Conns -> {"none", "open", "closed"}]
      BY <1>9 DEF ClientConnects, ClientCloses, PrintStatus
    <2>2. got' \in [Conns -> Seq(Messages)]
      <3>1. <<>> \in Seq(Messages)
        OBVIOUS
      <3>2. got' \in {got, [got EXCEPT ![c] = <<>>]}
        BY <1>9 DEF ClientConnects, ClientCloses, PrintStatus
      <3> QED
        BY <3>1, <3>2
    <2>3. UNCHANGED <<session, server, written>>
      BY <1>9 DEF ClientConnects, ClientCloses, PrintStatus
    <2> QED
      BY <2>1, <2>2, <2>3
  <1>11. ASSUME NEW c \in Conns, NEW line \in Lines, ClientWrites(c, line) PROVE TInv'
    <2>1. written' \in [Conns -> Seq(Lines)]
      BY <1>11 DEF ClientWrites
    <2>2. UNCHANGED <<session, server, peer, got>>
      BY <1>11 DEF ClientWrites
    <2> QED
      BY <2>1, <2>2
  <1>10. CASE UNCHANGED vars
    BY <1>10 DEF vars
  <1>12. CASE Exited
    BY <1>12 DEF Exited, vars
  <1>13. Tools \subseteq Conns
    BY DEF Conns
  <1>14. CASE AcceptFails
    BY <1>14 DEF AcceptFails
  <1> HIDE DEF TInv
  <1> QED
    BY <1>1, <1>2, <1>3, <1>4, <1>5, <1>6, <1>7, <1>8, <1>9, <1>10, <1>11,
       <1>12, <1>13, <1>14, Zenon DEF Next, Serve, Client
-----------------------------------------------------------------------------
(* What a client has been sent or is about to be.                          *)

Sent(c) == got[c] \o box[c].out

\* How many of the announced events have been broadcast.
Told == Len(announced) - Len(posted)

\* What is posted is the end of the log; the number of the last change is the
\* state, whether the daemon still runs or not.
LogInv ==
    /\ Len(announced) = state
    /\ \A i \in 1 .. Len(announced) : announced[i].num = i
    /\ Len(posted) <= Len(announced)
    /\ \A i \in 1 .. Len(posted) : posted[i] = announced[Told + i]
    /\ ~running => posted = <<>>

\* Nothing is there of a connection before it is accepted.
Fresh(c) ==
    /\ peer[c] = "none" => ~accepted[c]
    /\ ~accepted[c] =>
          /\ taken[c] = 0 /\ box[c].out = <<>> /\ box[c].writes = <<>>
          /\ running => got[c] = <<>>
          /\ ~reading[c] /\ c \notin members

\* The lines q hold the log from the one position to the other,
Tells(q, log, first, last) ==
    /\ first \in 0 .. last
    /\ Only(q, {"state"}) = SubSeq(log, first + 1, last)

\* the answers to the first n lines, in their order,
Answered(a, lines, n) ==
    /\ \A i \in 1 .. Len(a) : a[i].line \in 1 .. n /\ a[i].kind = AnswersTo(lines[a[i].line])
    /\ \A i, j \in 1 .. Len(a) : i < j => a[i].line < a[j].line
    /\ \A k \in 1 .. n : lines[k] # "command" => \E i \in 1 .. Len(a) : a[i].line = k
Answers(q, lines, n) ==
    n \in 0 .. Len(lines) /\ Answered(Only(q, {"reply", "error"}), lines, n)

\* and the states a client learns of, of which the last is the present one if
\* no newer one is posted.
Learned(q) == Only(q, {"greeting", "reply", "state"})
Knows(q, quiet, now) ==
    /\ Learned(q) # <<>>
    /\ quiet => Learned(q)[Len(Learned(q))].num = now

Order(c) == Present(c) =>
    /\ c \in members
    /\ Tells(Sent(c), announced, from[c], Told)
    /\ Answers(Sent(c), written[c], taken[c])
    /\ Knows(Sent(c), posted = <<>>, state)

IInv == TInv /\ LogInv /\ \A c \in Conns : Fresh(c) /\ Order(c)

-----------------------------------------------------------------------------
(* One line more.                                                          *)

LEMMA TellsMore ==
    ASSUME NEW q \in Seq(Messages), NEW m \in Messages,
           NEW log \in Seq(Broadcasts), NEW first \in Int, NEW last \in Nat,
           Tells(q, log, first, last)
    PROVE  /\ m.kind # "state" => Tells(Append(q, m), log, first, last)
           /\ last < Len(log) /\ m = log[last + 1] =>
                 Tells(Append(q, m), log, first, last + 1)
  <1>1. Only(Append(q, m), {"state"}) = IF m.kind \in {"state"}
                                        THEN Append(Only(q, {"state"}), m)
                                        ELSE Only(q, {"state"})
    BY OnlyAppend
  <1>2. CASE m.kind # "state"
    <2>1. ~(last < Len(log) /\ m = log[last + 1])
      BY <1>2, Said
    <2> QED
      BY <1>1, <1>2, <2>1 DEF Tells
  <1>3. CASE m.kind = "state"
    <2> SUFFICES ASSUME last < Len(log), m = log[last + 1]
                 PROVE  Tells(Append(q, m), log, first, last + 1)
      BY <1>3
    <2>1. first \in 0 .. last
      BY DEF Tells
    <2>2. SubSeq(log, first + 1, last + 1)
              = SubSeq(log, first + 1, last) \o <<log[last + 1]>>
      <3>1. first + 1 \in 1 .. Len(log) /\ last + 1 \in (first + 1) .. Len(log)
        BY <2>1
      <3>2. (last + 1) - 1 = last
        OBVIOUS
      <3> QED
        BY <3>1, <3>2, SubSeqRecursiveSecond
    <2>3. Only(q, {"state"}) \in Seq(Messages)
      BY OnlyType
    <2>4. Append(Only(q, {"state"}), m) = Only(q, {"state"}) \o <<m>>
      BY <2>3, AppendIsConcat
    <2>5. Only(Append(q, m), {"state"}) = SubSeq(log, first + 1, last + 1)
      <3>1. Only(q, {"state"}) = SubSeq(log, first + 1, last)
        BY DEF Tells
      <3>2. Only(Append(q, m), {"state"}) = Append(Only(q, {"state"}), m)
        BY <1>1, <1>3
      <3> QED
        BY <2>2, <2>4, <3>1, <3>2, Zenon
    <2>6. first \in 0 .. last + 1
      BY <2>1
    <2> QED
      BY <2>5, <2>6, Zenon DEF Tells
  <1> QED
    BY <1>2, <1>3

LEMMA AnswersMore ==
    ASSUME NEW q \in Seq(Messages), NEW lines \in Seq(Lines), NEW n \in Nat,
           Answers(q, lines, n)
    PROVE  /\ \A m \in Messages : m.kind \notin {"reply", "error"} =>
                 Answers(Append(q, m), lines, n)
           /\ n < Len(lines) /\ lines[n + 1] = "command" => Answers(q, lines, n + 1)
           /\ \A m \in Messages :
                 n < Len(lines) /\ m.line = n + 1 /\ m.kind = AnswersTo(lines[n + 1]) =>
                    Answers(Append(q, m), lines, n + 1)
  <1> DEFINE a == Only(q, {"reply", "error"})
  <1>1. a \in Seq(Messages) /\ Len(a) \in Nat
    BY OnlyType
  <1>2. n \in 0 .. Len(lines) /\ Answered(a, lines, n) /\ Len(lines) \in Nat
    BY DEF Answers
  <1>3. ASSUME NEW m \in Messages, m.kind \notin {"reply", "error"}
        PROVE  Answers(Append(q, m), lines, n)
    BY <1>2, <1>3, OnlyAppend DEF Answers
  <1>4. ASSUME n < Len(lines), lines[n + 1] = "command"
        PROVE  Answers(q, lines, n + 1)
    <2> HIDE DEF a
    <2>1. Answered(a, lines, n + 1)
      <3>1. \A i \in 1 .. Len(a) : a[i].line \in 1 .. n + 1 /\ a[i].kind = AnswersTo(lines[a[i].line])
        BY <1>2 DEF Answered
      <3>2. \A k \in 1 .. n + 1 : lines[k] # "command" => k \in 1 .. n
        BY <1>4
      <3> QED
        BY <1>2, <3>1, <3>2 DEF Answered
    <2>2. n + 1 \in 0 .. Len(lines)
      BY <1>2, <1>4
    <2> QED
      BY <2>1, <2>2 DEF Answers, a
  <1>5. ASSUME NEW m \in Messages, n < Len(lines), m.line = n + 1,
               m.kind = AnswersTo(lines[n + 1])
        PROVE  Answers(Append(q, m), lines, n + 1)
    <2> DEFINE b == Only(Append(q, m), {"reply", "error"})
    <2>1. b = Append(a, m)
      <3>1. m.kind \in {"reply", "error"}
        BY <1>5 DEF AnswersTo
      <3> QED
        BY <3>1, OnlyAppend
    <2> HIDE DEF a, b
    <2>2. /\ Len(b) = Len(a) + 1 /\ b[Len(a) + 1] = m
          /\ \A i \in 1 .. Len(a) : b[i] = a[i]
      BY <1>1, <2>1, AppendProperties
    <2>3. \A i \in 1 .. Len(b) : b[i].line \in 1 .. n + 1 /\ b[i].kind = AnswersTo(lines[b[i].line])
      <3> TAKE i \in 1 .. Len(b)
      <3>1. CASE i = Len(a) + 1
        BY <1>5, <2>2, <3>1
      <3>2. CASE i \in 1 .. Len(a)
        BY <1>2, <2>2, <3>2 DEF Answered
      <3> QED
        BY <1>1, <2>2, <3>1, <3>2
    <2>4. \A i, j \in 1 .. Len(b) : i < j => b[i].line < b[j].line
      <3> TAKE i, j \in 1 .. Len(b)
      <3> HAVE i < j
      <3>1. CASE j = Len(a) + 1
        <4>1. i \in 1 .. Len(a) /\ b[j].line = n + 1
          BY <1>1, <1>5, <2>2, <3>1
        <4>2. a[i].line \in 1 .. n
          BY <1>2, <4>1 DEF Answered
        <4> QED
          BY <2>2, <4>1, <4>2
      <3>2. CASE j \in 1 .. Len(a)
        <4>1. i \in 1 .. Len(a)
          BY <1>1, <3>2
        <4> QED
          BY <1>2, <2>2, <3>2, <4>1 DEF Answered
      <3> QED
        BY <1>1, <2>2, <3>1, <3>2
    <2>5. \A k \in 1 .. n + 1 : lines[k] # "command" => \E i \in 1 .. Len(b) : b[i].line = k
      <3> TAKE k \in 1 .. n + 1
      <3> HAVE lines[k] # "command"
      <3>1. CASE k = n + 1
        <4>1. Len(a) + 1 \in 1 .. Len(b)
          BY <1>1, <2>2
        <4> QED
          BY <1>5, <2>2, <3>1, <4>1
      <3>2. CASE k # n + 1
        <4>1. PICK i \in 1 .. Len(a) : a[i].line = k
          BY <1>2, <3>2 DEF Answered
        <4>2. i \in 1 .. Len(b) /\ b[i].line = k
          BY <1>1, <2>2, <4>1
        <4> QED
          BY <4>2
      <3> QED
        BY <3>1, <3>2
    <2>6. Answered(b, lines, n + 1)
      BY <2>3, <2>4, <2>5 DEF Answered
    <2>7. n + 1 \in 0 .. Len(lines)
      BY <1>2, <1>5
    <2> QED
      BY <2>6, <2>7 DEF Answers, b
  <1> QED
    BY <1>3, <1>4, <1>5

LEMMA KnowsMore ==
    ASSUME NEW q \in Seq(Messages), NEW m \in Messages
    PROVE  /\ m.kind = "error" => Learned(Append(q, m)) = Learned(q)
           /\ m.kind # "error" =>
                 \A quiet, now : (quiet => m.num = now) => Knows(Append(q, m), quiet, now)
  <1> DEFINE s == Learned(q)
             t == Learned(Append(q, m))
             K == {"greeting", "reply", "state"}
  <1>1. t = IF m.kind \in K THEN Append(s, m) ELSE s
    BY OnlyAppend DEF Learned
  <1>2. s \in Seq(Messages)
    BY OnlyType DEF Learned
  <1>3. m.kind \in K \union {"error"}
    BY Said
  <1>4. ASSUME m.kind # "error", NEW quiet, NEW now, quiet => m.num = now
        PROVE  Knows(Append(q, m), quiet, now)
    <2>1. t = Append(s, m)
      BY <1>1, <1>3, <1>4
    <2> HIDE DEF s, t
    <2>2. t # <<>> /\ Len(t) = Len(s) + 1 /\ t[Len(s) + 1] = m
      BY <1>2, <2>1, AppendProperties
    <2>3. t # <<>> /\ t[Len(t)] = m
      BY <2>2
    <2> QED
      BY <1>4, <2>3 DEF Knows, t
  <1> QED
    BY <1>1, <1>4

(* A new connection is told the present state and nothing else.             *)
LEMMA Greeted ==
    ASSUME NEW m \in Messages, m.kind = "greeting", NEW log, NEW last \in Nat,
           NEW lines \in Seq(Lines), NEW quiet
    PROVE  /\ Tells(<<m>>, log, last, last) /\ Answers(<<m>>, lines, 0)
           /\ Knows(<<m>>, quiet, m.num)
  <1>1. /\ Only(<<m>>, {"state"}) = <<>>
        /\ Only(<<m>>, {"reply", "error"}) = <<>>
    BY OnlyOne
  <1>2. Learned(<<m>>) = <<m>>
    BY OnlyOne DEF Learned
  <1>3. SubSeq(log, last + 1, last) = <<>>
    BY SubSeqEmpty
  <1>4. <<m>> # <<>> /\ Len(<<m>>) = 1 /\ <<m>>[1] = m /\ Len(<<>>) = 0
    OBVIOUS
  <1>5. Tells(<<m>>, log, last, last)
    BY <1>1, <1>3 DEF Tells
  <1>6. Answers(<<m>>, lines, 0)
    BY <1>1, <1>4 DEF Answers, Answered
  <1>7. Knows(<<m>>, quiet, m.num)
    BY <1>2, <1>4, Zenon DEF Knows
  <1> QED
    BY <1>5, <1>6, <1>7

-----------------------------------------------------------------------------
(* The invariant holds initially.                                          *)

LEMMA IInvInit == Init => IInv
  <1> SUFFICES ASSUME Init PROVE IInv
    OBVIOUS
  <1>1. TInv
    BY TInvInit
  <1>2. LogInv
    BY DEF Init, LogInv, Told
  <1>3. ASSUME NEW c \in Conns PROVE Fresh(c)
    BY DEF Init, Fresh
  <1>4. ASSUME NEW c \in Conns PROVE Order(c)
    BY DEF Init, Order, Present
  <1> QED
    BY <1>1, <1>2, <1>3, <1>4 DEF IInv

(* A step that leaves a connection alone, and what is told and known.       *)
LEMMA Untouched ==
    ASSUME IInv, NEW c \in Conns, [Next]_vars,
           UNCHANGED <<session, running, posted>>,
           UNCHANGED <<peer[c], accepted[c], reading[c], box[c], written[c],
                       taken[c], got[c], from[c]>>,
           c \in members <=> c \in members'
    PROVE  Fresh(c)' /\ Order(c)'
  <1>1. Fresh(c) /\ Order(c)
    BY DEF IInv
  <1>2. Fresh(c)'
    BY <1>1 DEF Fresh
  <1>3. Told' = Told /\ Sent(c)' = Sent(c)
    BY DEF session, Told, Sent
  <1>4. Present(c)' = Present(c)
    BY DEF Present
  <1>5. Order(c)'
    BY <1>1, <1>3, <1>4 DEF Order, session
  <1> QED
    BY <1>2, <1>5

LEMMA LogStep == IInv /\ [Next]_vars => LogInv'
  <1> SUFFICES ASSUME IInv, [Next]_vars PROVE LogInv'
    OBVIOUS
  <1> USE DEF session, server, clients, vars
  <1>0. TInv /\ LogInv
    BY DEF IInv
  <1>1. CASE SetState
    <2> DEFINE m == [kind |-> "state", num |-> state']
    <2>1. /\ announced' = Append(announced, m) /\ state' = state + 1
          /\ posted' = IF running THEN Append(posted, m) ELSE posted
          /\ running' = running
      BY <1>1 DEF SetState
    <2>2. m \in Broadcasts /\ m.num = state + 1
      BY <1>0, <2>1, <1>1, IpcAssumption DEF SetState, TInv, Broadcasts
    <2> HIDE DEF m
    <2>3. /\ Len(announced') = Len(announced) + 1
          /\ announced'[Len(announced) + 1] = m
          /\ \A i \in 1 .. Len(announced) : announced'[i] = announced[i]
      BY <1>0, <2>1, <2>2, AppendProperties DEF TInv
    <2>4. Len(announced) \in Nat /\ Len(posted) \in Nat
      BY <1>0 DEF TInv
    <2>5. /\ Len(announced') = state'
          /\ \A i \in 1 .. Len(announced') : announced'[i].num = i
      BY <1>0, <2>1, <2>2, <2>3, <2>4 DEF LogInv
    <2>6. CASE running
      <3>1. /\ Len(posted') = Len(posted) + 1
            /\ posted'[Len(posted) + 1] = m
            /\ \A i \in 1 .. Len(posted) : posted'[i] = posted[i]
        BY <1>0, <2>1, <2>2, <2>6, AppendProperties DEF TInv
      <3>2. Told' = Told
        BY <2>3, <2>4, <3>1 DEF Told
      <3>3. Len(posted') <= Len(announced')
        BY <1>0, <2>3, <2>4, <3>1 DEF LogInv
      <3>4. \A i \in 1 .. Len(posted') : posted'[i] = announced'[Told' + i]
        <4> TAKE i \in 1 .. Len(posted')
        <4>1. CASE i = Len(posted) + 1
          <5>1. Told + i = Len(announced) + 1
            BY <2>4, <4>1 DEF Told
          <5> QED
            BY <2>3, <3>1, <3>2, <4>1, <5>1
        <4>2. CASE i # Len(posted) + 1
          <5>1. i \in 1 .. Len(posted)
            BY <2>4, <3>1, <4>2
          <5>2. posted[i] = announced[Told + i] /\ Told + i \in 1 .. Len(announced)
            BY <1>0, <2>4, <5>1 DEF LogInv, Told
          <5> QED
            BY <2>3, <3>1, <3>2, <5>1, <5>2
        <4> QED
          BY <4>1, <4>2
      <3>5. running'
        BY <2>1, <2>6
      <3> QED
        BY <2>5, <3>3, <3>4, <3>5 DEF LogInv
    <2>7. CASE ~running
      <3>1. posted' = <<>>
        BY <1>0, <2>1, <2>7 DEF LogInv
      <3>2. Len(posted') <= Len(announced')
        BY <2>3, <2>4, <3>1
      <3>3. \A i \in 1 .. Len(posted') : posted'[i] = announced'[Told' + i]
        BY <3>1
      <3> QED
        BY <2>5, <3>1, <3>2, <3>3 DEF LogInv
    <2> QED
      BY <2>6, <2>7
  <1>2. CASE RunBroadcast
    <2>1. posted # <<>> /\ posted' = Tail(posted) /\ running
          /\ running' = running
      BY <1>2 DEF RunBroadcast
    <2>0. state' = state /\ announced' = announced
      BY <1>2 DEF RunBroadcast
    <2>2. /\ Len(posted') = Len(posted) - 1 /\ Len(posted) \in Nat
          /\ Len(announced) \in Nat
          /\ \A i \in 1 .. Len(posted') : posted'[i] = posted[i + 1]
      BY <1>0, <2>1, HeadTailProperties, EmptySeq DEF TInv
    <2>3. Told' = Told + 1
      BY <2>0, <2>2 DEF Told
    <2>4. \A i \in 1 .. Len(posted') : posted'[i] = announced'[Told' + i]
      <3> TAKE i \in 1 .. Len(posted')
      <3>1. i + 1 \in 1 .. Len(posted) /\ Told \in Int
        BY <2>2 DEF Told
      <3>2. posted[i + 1] = announced[Told + (i + 1)]
        BY <1>0, <3>1 DEF LogInv
      <3>3. Told + (i + 1) = Told' + i
        BY <2>3, <3>1
      <3> QED
        BY <2>0, <2>2, <3>2, <3>3
    <2>5. Len(posted') <= Len(announced')
      <3>1. Len(posted) <= Len(announced)
        BY <1>0 DEF LogInv
      <3> QED
        BY <2>0, <2>2, <3>1
    <2> QED
      BY <1>0, <2>0, <2>1, <2>4, <2>5 DEF LogInv
  <1>3. CASE Stop
    <2>1. posted' = <<>> /\ UNCHANGED <<state, announced>>
      BY <1>3 DEF Stop
    <2>2. Len(announced) \in Nat /\ Len(posted') = 0
      BY <1>0, <2>1 DEF TInv
    <2>3. Len(posted') <= Len(announced')
      BY <2>1, <2>2
    <2>4. \A i \in 1 .. Len(posted') : posted'[i] = announced'[Told' + i]
      BY <2>2
    <2> QED
      BY <1>0, <2>1, <2>3, <2>4 DEF LogInv
  <1>4. CASE UNCHANGED <<session, running, posted>>
    BY <1>0, <1>4 DEF LogInv, Told
  <1>5. ASSUME NEW c \in Conns, Serve(c) \/ WriteDone(c) PROVE LogInv'
    BY <1>4, <1>5 DEF Serve, Accept, OnLine, ReadEnds, WriteFails, WriteDone
  <1>6. ASSUME NEW c \in Conns, Client(c) \/ PrintStatus(c) PROVE LogInv'
    BY <1>4, <1>6 DEF Client, ClientConnects, ClientCloses, ClientWrites, PrintStatus
  <1>7. CASE Exited
    BY <1>4, <1>7 DEF Exited
  <1>8. Tools \subseteq Conns
    BY DEF Conns
  <1>9. CASE AcceptFails
    BY <1>4, <1>9 DEF AcceptFails
  <1> QED
    BY <1>1, <1>2, <1>3, <1>4, <1>5, <1>6, <1>7, <1>8, <1>9, Zenon DEF Next

\* A step of or for a connection leaves the log and the other connections alone.
Step(c) == Serve(c) \/ WriteDone(c) \/ Client(c) \/ (c \in Tools /\ PrintStatus(c))

LEMMA Others ==
    ASSUME TInv, NEW c \in Conns, NEW d \in Conns, c # d, Step(c)
    PROVE  /\ UNCHANGED <<session, running, posted>>
           /\ UNCHANGED <<peer[d], accepted[d], reading[d], box[d], written[d],
                          taken[d], got[d], from[d]>>
           /\ d \in members <=> d \in members'
  <1> USE DEF Step, Serve, Client, session, server, clients
  <1>1. UNCHANGED <<session, running, posted>>
    BY Zenon DEF Accept, OnLine, ReadEnds, WriteFails, WriteDone, ClientConnects,
                 ClientWrites, ClientCloses, PrintStatus
  <1>2. /\ DOMAIN peer = Conns /\ DOMAIN accepted = Conns /\ DOMAIN reading = Conns
        /\ DOMAIN box = Conns /\ DOMAIN written = Conns /\ DOMAIN taken = Conns
        /\ DOMAIN got = Conns /\ DOMAIN from = Conns
    BY DEF TInv
  <1>4. peer'[d] = peer[d] /\ written'[d] = written[d] /\ got'[d] = got[d]
    BY <1>2, Zenon DEF Accept, OnLine, ReadEnds, WriteFails, WriteDone, ClientConnects,
                 ClientWrites, ClientCloses, PrintStatus
  <1>5. accepted'[d] = accepted[d] /\ reading'[d] = reading[d] /\ from'[d] = from[d]
    BY <1>2, Zenon DEF Accept, OnLine, ReadEnds, WriteFails, WriteDone, ClientConnects,
                 ClientWrites, ClientCloses, PrintStatus
  <1>6. taken'[d] = taken[d]
    BY <1>2, Zenon DEF Accept, OnLine, ReadEnds, WriteFails, WriteDone, ClientConnects,
                 ClientWrites, ClientCloses, PrintStatus
  <1>7. box'[d] = box[d]
    BY <1>2, Zenon DEF Accept, OnLine, ReadEnds, WriteFails, WriteDone, ClientConnects,
                 ClientWrites, ClientCloses, PrintStatus
  <1>8. d \in members <=> d \in members'
    BY Zenon DEF Accept, OnLine, ReadEnds, WriteFails, WriteDone, ClientConnects,
                 ClientWrites, ClientCloses, PrintStatus
  <1> QED
    BY <1>1, <1>4, <1>5, <1>6, <1>7, <1>8

LEMMA FreshStep == IInv /\ [Next]_vars => \A d \in Conns : Fresh(d)'
  <1> SUFFICES ASSUME IInv, [Next]_vars, NEW d \in Conns PROVE Fresh(d)'
    OBVIOUS
  <1>0. TInv /\ Fresh(d)
    BY DEF IInv
  <1> USE DEF session, server, clients
  <1>1. CASE SetState
    BY <1>0, <1>1 DEF SetState, Fresh
  <1>2. CASE RunBroadcast
    <2>1. d \notin members => box'[d] = box[d]
      BY <1>2 DEF RunBroadcast
    <2>2. UNCHANGED <<running, members, accepted, reading, taken, peer, got>>
      BY <1>2 DEF RunBroadcast
    <2> QED
      BY <1>0, <2>1, <2>2 DEF Fresh
  <1>3. CASE Stop
    <2>1. /\ running' = FALSE /\ members' = {} /\ accepted'[d] = FALSE
          /\ reading'[d] = FALSE /\ taken'[d] = 0
          /\ box'[d] = [out |-> <<>>, writes |-> <<>>]
      BY <1>3 DEF Stop, Drop
    <2> QED
      BY <2>1 DEF Fresh
  <1>4. ASSUME NEW c \in Conns, c # d, Step(c) PROVE Fresh(d)'
    <2>1. /\ UNCHANGED <<session, running, posted>>
          /\ UNCHANGED <<peer[d], accepted[d], reading[d], box[d], written[d],
                         taken[d], got[d], from[d]>>
          /\ d \in members <=> d \in members'
      BY <1>0, <1>4, Others
    <2> QED
      BY <2>1, Untouched
  <1>5. ASSUME Step(d) PROVE Fresh(d)'
    <2>1. CASE Accept(d)
      <3>1. accepted'[d] = TRUE /\ peer'[d] # "none"
        BY <1>0, <2>1 DEF Accept, TInv
      <3> QED
        BY <3>1 DEF Fresh
    <2>2. CASE OnLine(d) \/ ReadEnds(d) \/ WriteFails(d) \/ WriteDone(d)
      <3>1. accepted[d] = TRUE
        BY <1>0, <2>2 DEF OnLine, ReadEnds, WriteFails, WriteDone, Fresh, TInv
      <3>2. accepted' = accepted /\ peer' = peer
        BY <2>2 DEF OnLine, ReadEnds, WriteFails, WriteDone
      <3> QED
        BY <1>0, <3>1, <3>2 DEF Fresh
    <2>3. CASE Client(d) \/ PrintStatus(d)
      <3>1. UNCHANGED <<session, server>>
        BY <2>3 DEF Client, ClientConnects, ClientWrites, ClientCloses, PrintStatus
      <3>2. got'[d] \in {got[d], <<>>}
        BY <1>0, <2>3 DEF TInv, Client, ClientConnects, ClientWrites, ClientCloses,
           PrintStatus
      <3>3. peer'[d] = "none" => peer[d] = "none"
        BY <1>0, <2>3 DEF TInv, Client, ClientConnects, ClientWrites, ClientCloses,
           PrintStatus
      <3> QED
        BY <1>0, <3>1, <3>2, <3>3 DEF Fresh
    <2> QED
      BY <1>5, <2>1, <2>2, <2>3 DEF Step, Serve
  <1>6. CASE Exited \/ UNCHANGED vars
    BY <1>0, <1>6 DEF Exited, vars, Fresh
  <1>7. Tools \subseteq Conns
    BY DEF Conns
  <1>8. CASE AcceptFails
    BY <1>0, <1>8 DEF AcceptFails, Fresh
  <1> QED
    BY <1>1, <1>2, <1>3, <1>4, <1>5, <1>6, <1>7, <1>8, Zenon DEF Next, Step

-----------------------------------------------------------------------------
(* What is sent, step by step.                                             *)

\* The next line of the outbox arrives: nothing is sent that was not.
LEMMA Delivered ==
    ASSUME NEW g \in Seq(Messages), NEW out \in Seq(Messages), out # <<>>
    PROVE  Append(g, Head(out)) \o Tail(out) = g \o out
  <1>1. out = <<Head(out)>> \o Tail(out) /\ Head(out) \in Messages
        /\ Tail(out) \in Seq(Messages) /\ <<Head(out)>> \in Seq(Messages)
    BY HeadFacts, OneFacts
  <1>2. Append(g, Head(out)) = g \o <<Head(out)>>
    BY <1>1, AppendIsConcat
  <1>3. (g \o <<Head(out)>>) \o Tail(out) = g \o (<<Head(out)>> \o Tail(out))
    BY <1>1, ConcatAssociative
  <1> QED
    BY <1>1, <1>2, <1>3, Zenon

\* A line queued for c is the last that c has been sent.
LEMMA SentMore ==
    ASSUME TInv, NEW c \in Conns, NEW m \in Messages,
           box'[c] = Queue(box[c], m), got'[c] = got[c]
    PROVE  Sent(c)' = Append(Sent(c), m) /\ Sent(c) \in Seq(Messages)
  <1>1. box[c] \in Boxes /\ got[c] \in Seq(Messages) /\ box[c].out \in Seq(Messages)
    BY BoxOf DEF TInv
  <1>2. box'[c].out = Append(box[c].out, m)
    BY <1>1, Queues
  <1>3. got[c] \o Append(box[c].out, m) = Append(got[c] \o box[c].out, m)
    <2> DEFINE g == got[c]
               out == box[c].out
    <2>1. g \in Seq(Messages) /\ out \in Seq(Messages)
      BY <1>1
    <2> HIDE DEF g, out
    <2>2. g \o Append(out, m) = Append(g \o out, m)
      BY <2>1, ConcatAppend
    <2> QED
      BY <2>2 DEF g, out
  <1>4. got[c] \o box[c].out \in Seq(Messages)
    BY <1>1, ConcatProperties
  <1> QED
    BY <1>2, <1>3, <1>4 DEF Sent

\* A longer log has the same front.
LEMMA SameFront ==
    ASSUME NEW X, NEW s \in Seq(X), NEW t \in Seq(X), Len(t) = Len(s) + 1,
           \A i \in 1 .. Len(s) : t[i] = s[i],
           NEW n \in 0 .. Len(s), NEW m \in 0 .. n
    PROVE  SubSeq(t, m + 1, n) = SubSeq(s, m + 1, n)
  <1> DEFINE a == SubSeq(t, m + 1, n)
             b == SubSeq(s, m + 1, n)
  <1>1. \A i \in m + 1 .. n : t[i] \in X /\ s[i] \in X
    OBVIOUS
  <1>2. m + 1 \in Int /\ n \in Int /\ n - (m + 1) + 1 = n - m
    OBVIOUS
  <1>3. /\ a \in Seq(X) /\ Len(a) = IF m + 1 <= n THEN n - (m + 1) + 1 ELSE 0
        /\ \A i \in 1 .. n - (m + 1) + 1 : a[i] = t[(m + 1) + i - 1]
    BY <1>1, <1>2, SubSeqProperties
  <1>4. /\ b \in Seq(X) /\ Len(b) = IF m + 1 <= n THEN n - (m + 1) + 1 ELSE 0
        /\ \A i \in 1 .. n - (m + 1) + 1 : b[i] = s[(m + 1) + i - 1]
    BY <1>1, <1>2, SubSeqProperties
  <1> HIDE DEF a, b
  <1>5. Len(a) = n - m /\ Len(b) = n - m
    BY <1>2, <1>3, <1>4
  <1>6. \A i \in 1 .. Len(a) : a[i] = b[i]
    <2> TAKE i \in 1 .. Len(a)
    <2>1. a[i] = t[(m + 1) + i - 1] /\ b[i] = s[(m + 1) + i - 1]
      BY <1>2, <1>3, <1>4, <1>5
    <2>2. (m + 1) + i - 1 \in 1 .. Len(s)
      BY <1>5
    <2> QED
      BY <2>1, <2>2
  <1>7. a = b
    BY <1>3, <1>4, <1>5, <1>6, SeqEqual
  <1> QED
    BY <1>7 DEF a, b

LEMMA OrderSetState ==
    ASSUME IInv, SetState, NEW d \in Conns
    PROVE  Order(d)'
  <1> SUFFICES ASSUME Present(d)' PROVE Order(d)'
    BY DEF Order
  <1> DEFINE m == [kind |-> "state", num |-> state']
  <1>1. /\ announced' = Append(announced, m) /\ state' = state + 1
        /\ posted' = IF running THEN Append(posted, m) ELSE posted
        /\ UNCHANGED <<running, members, accepted, box, taken, from, peer, written, got>>
    BY DEF SetState, clients
  <1>2. m \in Broadcasts
    BY <1>1, IpcAssumption DEF SetState, IInv, TInv, Broadcasts
  <1>3. running /\ Present(d)
    BY <1>1 DEF Present
  <1>4. /\ d \in members /\ Tells(Sent(d), announced, from[d], Told)
        /\ Answers(Sent(d), written[d], taken[d])
        /\ Knows(Sent(d), posted = <<>>, state)
    BY <1>3 DEF Order, IInv
  <1>5. Sent(d)' = Sent(d)
    BY <1>1 DEF Sent
  <1> HIDE DEF m
  <1>6. /\ Len(announced') = Len(announced) + 1 /\ Len(announced) \in Nat
        /\ Len(posted') = Len(posted) + 1 /\ Len(posted) \in Nat /\ posted' # <<>>
        /\ \A i \in 1 .. Len(announced) : announced'[i] = announced[i]
    BY <1>1, <1>2, <1>3, AppendProperties, LenProperties DEF IInv, TInv
  <1>7. Told' = Told /\ Told <= Len(announced) /\ Told \in Int
    BY <1>6 DEF Told
  <1>8. SubSeq(announced', from[d] + 1, Told) = SubSeq(announced, from[d] + 1, Told)
    <2>1. from[d] \in 0 .. Told
      BY <1>4 DEF Tells
    <2>2. announced \in Seq(Broadcasts) /\ announced' \in Seq(Broadcasts)
      BY <1>1, <1>2, AppendProperties DEF IInv, TInv
    <2>3. Told \in 0 .. Len(announced)
      BY <1>7, <2>1
    <2> QED
      BY <1>6, <2>1, <2>2, <2>3, SameFront
  <1>9. Tells(Sent(d)', announced', from'[d], Told')
    BY <1>1, <1>4, <1>5, <1>7, <1>8 DEF Tells
  <1>10. Knows(Sent(d)', posted' = <<>>, state')
    BY <1>4, <1>5, <1>6 DEF Knows
  <1> QED
    BY <1>1, <1>4, <1>5, <1>9, <1>10 DEF Order

LEMMA OrderRunBroadcast ==
    ASSUME IInv, RunBroadcast, NEW d \in Conns
    PROVE  Order(d)'
  <1> SUFFICES ASSUME Present(d)' PROVE Order(d)'
    BY DEF Order
  <1> DEFINE m == Head(posted)
             q == Sent(d)
  <1>1. /\ posted # <<>> /\ posted' = Tail(posted)
        /\ d \in members => box'[d] = Queue(box[d], m)
        /\ UNCHANGED <<running, members, accepted, taken, from>>
    BY DEF RunBroadcast
  <1>2. UNCHANGED <<peer, written, got, state, announced>>
    BY DEF RunBroadcast, session, clients
  <1>3. Present(d)
    BY <1>1, <1>2 DEF Present
  <1>4. /\ d \in members /\ Tells(q, announced, from[d], Told)
        /\ Answers(q, written[d], taken[d])
        /\ Knows(q, posted = <<>>, state)
    BY <1>3 DEF Order, IInv
  <1>5. /\ m \in Broadcasts /\ m = posted[1] /\ Len(posted) \in Nat \ {0}
        /\ Len(posted') = Len(posted) - 1 /\ posted' \in Seq(Broadcasts)
    BY <1>1, HeadTailProperties, EmptySeq DEF IInv, TInv
  <1>6. m \in Messages /\ m.kind = "state"
    BY <1>5, Said
  <1>7. TInv /\ LogInv /\ announced \in Seq(Broadcasts) /\ Len(announced) \in Nat
    BY DEF IInv, TInv
  <1> HIDE DEF m, q
  <1>8. Sent(d)' = Append(q, m) /\ q \in Seq(Messages)
    <2>1. box'[d] = Queue(box[d], m) /\ got'[d] = got[d]
      BY <1>1, <1>2, <1>4
    <2> QED
      BY <1>6, <1>7, <2>1, SentMore DEF q
  <1>9. /\ m = announced[Told + 1] /\ Told \in Nat /\ Told < Len(announced)
        /\ Told' = Told + 1
    <2>1. 1 \in 1 .. Len(posted) /\ Len(posted) <= Len(announced)
      BY <1>5, <1>7 DEF LogInv
    <2>2. m = announced[Told + 1]
      BY <1>5, <1>7, <2>1 DEF LogInv
    <2>3. Told \in Nat /\ Told < Len(announced)
      BY <1>5, <1>7, <2>1 DEF Told
    <2>4. Told' = Told + 1
      BY <1>2, <1>5, <1>7 DEF Told
    <2> QED
      BY <2>2, <2>3, <2>4
  <1>10. from[d] \in Int /\ taken[d] \in Nat /\ written[d] \in Seq(Lines)
    BY <1>7 DEF TInv
  <1>11. Tells(Append(q, m), announced, from[d], Told + 1)
    BY <1>4, <1>6, <1>7, <1>8, <1>9, <1>10, TellsMore
  <1>12. Answers(Append(q, m), written[d], taken[d])
    BY <1>4, <1>6, <1>8, <1>10, AnswersMore
  <1>13. Knows(Append(q, m), posted' = <<>>, state)
    <2>1. posted' = <<>> => m.num = state
      <3> SUFFICES ASSUME posted' = <<>> PROVE m.num = state
        OBVIOUS
      <3>1. Len(posted) = 1
        BY <1>5
      <3>2. Told + 1 = Len(announced)
        BY <1>7, <3>1 DEF Told
      <3>3. Told + 1 \in 1 .. Len(announced)
        BY <1>9
      <3>4. m.num = Told + 1
        BY <1>7, <1>9, <3>3 DEF LogInv
      <3> QED
        BY <1>7, <3>2, <3>4 DEF LogInv
    <2> QED
      BY <1>6, <1>8, <2>1, KnowsMore
  <1> QED
    BY <1>1, <1>2, <1>4, <1>8, <1>9, <1>11, <1>12, <1>13 DEF Order

LEMMA OrderAccept ==
    ASSUME IInv, NEW c \in Conns, Accept(c)
    PROVE  Order(c)'
  <1> DEFINE m == Greeting
  <1>1. TInv /\ LogInv /\ Fresh(c)
    BY DEF IInv
  <1>2. /\ running /\ ~accepted[c] /\ posted' = posted /\ taken' = taken
        /\ members' = members \union {c}
        /\ UNCHANGED <<state, announced, peer, written, got>>
    BY DEF Accept, session, clients
  <1>3. /\ box'[c] = Queue(box[c], m) /\ from'[c] = Told
    BY <1>1 DEF Accept, TInv, Told
  <1>4. m \in Messages /\ m.kind = "greeting" /\ m.num = state
    BY <1>1, Said DEF TInv
  <1> HIDE DEF m
  <1>5. got[c] = <<>> /\ box[c].out = <<>> /\ taken[c] = 0
    BY <1>1, <1>2 DEF Fresh
  <1>6. Sent(c)' = <<m>>
    <2>1. Sent(c)' = Append(Sent(c), m)
      BY <1>1, <1>2, <1>3, <1>4, SentMore
    <2>2. Sent(c) = <<>>
      BY <1>5 DEF Sent
    <2>3. Append(<<>>, m) = <<m>>
      OBVIOUS
    <2> QED
      BY <2>1, <2>2, <2>3
  <1>7. Told \in Nat /\ Told' = Told
    <2>1. Len(announced) \in Nat /\ Len(posted) \in Nat /\ Len(posted) <= Len(announced)
      BY <1>1 DEF TInv, LogInv
    <2> QED
      BY <1>2, <2>1 DEF Told
  <1>8. written[c] \in Seq(Lines)
    BY <1>1 DEF TInv
  <1>9. /\ Tells(<<m>>, announced, Told, Told) /\ Answers(<<m>>, written[c], 0)
        /\ Knows(<<m>>, posted = <<>>, state)
    BY <1>4, <1>7, <1>8, Greeted
  <1> QED
    BY <1>2, <1>3, <1>5, <1>6, <1>7, <1>9 DEF Order

LEMMA OrderOnLine ==
    ASSUME IInv, NEW c \in Conns, OnLine(c)
    PROVE  Order(c)'
  <1> SUFFICES ASSUME Present(c)' PROVE Order(c)'
    BY DEF Order
  <1> DEFINE n == taken[c]
             q == Sent(c)
  <1>1. TInv
    BY DEF IInv
  <1>2. /\ n < Len(written[c])
        /\ UNCHANGED <<running, posted, members, accepted, from>>
    BY DEF OnLine
  <1>3. UNCHANGED <<state, announced, peer, written, got>>
    BY DEF OnLine, session, clients
  <1>4. n \in Nat /\ written[c] \in Seq(Lines) /\ from[c] \in Int
    BY <1>1 DEF TInv
  <1>5. taken'[c] = n + 1
    BY <1>1 DEF OnLine, TInv
  <1>6. \/ written[c][n + 1] = "command" /\ box' = box
        \/ \E m \in Messages :
              /\ m.kind = AnswersTo(written[c][n + 1]) /\ m.line = n + 1
              /\ m.kind # "error" => m.num = state
              /\ box'[c] = Queue(box[c], m)
    <2>1. DOMAIN box = Conns /\ n + 1 \in Nat /\ state \in 0 .. MaxEvents
      BY <1>1, <1>4 DEF TInv
    <2>2. \/ written[c][n + 1] = "status" /\ box'[c] = Queue(box[c], Reply(n + 1))
          \/ written[c][n + 1] \in {"bad", "command"} /\ box'[c] = Queue(box[c], Refusal(n + 1))
          \/ written[c][n + 1] = "command" /\ box' = box
      BY <1>5, <2>1 DEF OnLine
    <2> QED
      BY <2>1, <2>2, Said DEF AnswersTo
  <1>8. Present(c)
    BY <1>2, <1>3 DEF Present
  <1>9. /\ c \in members /\ Tells(q, announced, from[c], Told)
        /\ Answers(q, written[c], n) /\ Knows(q, posted = <<>>, state)
    BY <1>8 DEF Order, IInv
  <1>10. Told' = Told /\ Told \in Nat
    <2>1. Len(announced) \in Nat /\ Len(posted) \in Nat /\ Len(posted) <= Len(announced)
      BY DEF IInv, TInv, LogInv
    <2> QED
      BY <1>2, <1>3, <2>1 DEF Told
  <1>a. q \in Seq(Messages)
    <2>1. got[c] \in Seq(Messages) /\ box[c].out \in Seq(Messages)
      BY <1>1, BoxOf DEF TInv
    <2> QED
      BY <2>1, ConcatProperties DEF Sent
  <1> HIDE DEF q
  <1>11. CASE written[c][n + 1] = "command" /\ box' = box
    <2>1. Sent(c)' = q
      BY <1>3, <1>11 DEF Sent, q
    <2>2. Answers(q, written[c], n + 1)
      BY <1>2, <1>4, <1>9, <1>11, <1>a, AnswersMore
    <2> QED
      BY <1>2, <1>3, <1>5, <1>9, <1>10, <2>1, <2>2 DEF Order
  <1>12. ASSUME NEW m \in Messages, m.line = n + 1,
                m.kind = AnswersTo(written[c][n + 1]),
                m.kind # "error" => m.num = state,
                box'[c] = Queue(box[c], m)
         PROVE  Order(c)'
    <2>1. Sent(c)' = Append(q, m)
      BY <1>1, <1>3, <1>12, SentMore DEF q
    <2>2. Tells(Append(q, m), announced, from[c], Told)
      <3>1. m.kind # "state" /\ announced \in Seq(Broadcasts)
        BY <1>1, <1>12 DEF TInv, AnswersTo
      <3> QED
        BY <1>4, <1>9, <1>10, <1>a, <3>1, TellsMore
    <2>3. Answers(Append(q, m), written[c], n + 1)
      BY <1>2, <1>4, <1>9, <1>12, <1>a, AnswersMore
    <2>4. Knows(Append(q, m), posted = <<>>, state)
      <3>1. CASE m.kind = "error"
        BY <1>9, <1>a, <3>1, KnowsMore DEF Knows
      <3>2. CASE m.kind # "error"
        BY <1>12, <1>a, <3>2, KnowsMore
      <3> QED
        BY <3>1, <3>2
    <2> QED
      BY <1>2, <1>3, <1>5, <1>9, <1>10, <2>1, <2>2, <2>3, <2>4 DEF Order
  <1> QED
    BY <1>6, <1>11, <1>12

LEMMA OrderWriteDone ==
    ASSUME IInv, NEW c \in Conns, WriteDone(c)
    PROVE  /\ Order(c)'
           /\ got'[c] = Append(got[c], Head(box[c].out))
           /\ box[c].out = <<Head(box[c].out)>> \o Tail(box[c].out)
           /\ box'[c].out = Tail(box[c].out)
           /\ Head(box[c].out) \in Messages /\ Tail(box[c].out) \in Seq(Messages)
           /\ UNCHANGED <<running, posted, announced, accepted, peer, from>>
  <1>1. TInv
    BY DEF IInv
  <1>2. UNCHANGED <<running, posted, members, accepted, taken, from>>
    BY DEF WriteDone
  <1>3. UNCHANGED <<state, announced, peer, written>>
    BY DEF WriteDone, session
  <1>4. /\ box[c] \in Boxes /\ box[c].writes # <<>> /\ got[c] \in Seq(Messages)
        /\ box[c].out \in Seq(Messages) /\ box[c].out # <<>>
        /\ Head(box[c].writes) = Head(box[c].out)
        /\ Head(box[c].out) \in Messages /\ Tail(box[c].out) \in Seq(Messages)
    BY <1>1, BoxOf DEF TInv, WriteDone
  <1>5. box'[c] = Popped(box[c]) /\ got'[c] = Append(got[c], Head(box[c].out))
    BY <1>1, <1>4 DEF WriteDone, Popped, TInv
  <1>6. box'[c].out = Tail(box[c].out)
    BY <1>4, <1>5, Pops
  <1>7. box[c].out = <<Head(box[c].out)>> \o Tail(box[c].out)
    BY <1>4, HeadFacts
  <1>8. Sent(c)' = Sent(c)
    <2> DEFINE g == got[c]
               out == box[c].out
    <2>1. g \in Seq(Messages) /\ out \in Seq(Messages) /\ out # <<>>
      BY <1>4
    <2>2. Sent(c)' = Append(g, Head(out)) \o Tail(out)
      BY <1>5, <1>6 DEF Sent
    <2>3. Sent(c) = g \o out
      BY DEF Sent
    <2> HIDE DEF g, out
    <2> QED
      BY <2>1, <2>2, <2>3, Delivered
  <1>9. Told' = Told /\ Present(c)' = Present(c)
    BY <1>2, <1>3 DEF Told, Present
  <1>10. Order(c)
    BY DEF IInv
  <1>11. Order(c)'
    BY <1>2, <1>3, <1>8, <1>9, <1>10 DEF Order
  <1> QED
    BY <1>2, <1>3, <1>4, <1>5, <1>6, <1>7, <1>11

LEMMA OrderWrites ==
    ASSUME IInv, NEW c \in Conns, NEW line \in Lines, ClientWrites(c, line)
    PROVE  Order(c)'
  <1> SUFFICES ASSUME Present(c)' PROVE Order(c)'
    BY DEF Order
  <1>1. TInv
    BY DEF IInv
  <1>2. UNCHANGED <<session, server, peer, got>>
    BY DEF ClientWrites
  <1>3. /\ written'[c] = Append(written[c], line) /\ written[c] \in Seq(Lines)
        /\ taken[c] \in Nat
    BY <1>1 DEF ClientWrites, TInv
  <1>4. Present(c)
    BY <1>2 DEF Present, server
  <1>5. /\ c \in members /\ Tells(Sent(c), announced, from[c], Told)
        /\ Answers(Sent(c), written[c], taken[c]) /\ Knows(Sent(c), posted = <<>>, state)
    BY <1>4 DEF Order, IInv
  <1>6. Answers(Sent(c), Append(written[c], line), taken[c])
    <2>1. /\ Len(Append(written[c], line)) = Len(written[c]) + 1
          /\ Len(written[c]) \in Nat
          /\ \A i \in 1 .. Len(written[c]) : Append(written[c], line)[i] = written[c][i]
      BY <1>3, AppendProperties
    <2>2. taken[c] \in 0 .. Len(written[c])
      BY <1>5 DEF Answers
    <2>3. \A i \in 1 .. taken[c] : Append(written[c], line)[i] = written[c][i]
      BY <2>1, <2>2
    <2>4. taken[c] \in 0 .. Len(Append(written[c], line))
      BY <2>1, <2>2
    <2> DEFINE a == Only(Sent(c), {"reply", "error"})
               more == Append(written[c], line)
    <2>5. Answered(a, written[c], taken[c])
      BY <1>5 DEF Answers
    <2> HIDE DEF a, more
    <2>6. \A i \in 1 .. taken[c] : more[i] = written[c][i]
      BY <2>3 DEF more
    <2>7. Answered(a, more, taken[c])
      BY <2>5, <2>6 DEF Answered
    <2> QED
      BY <2>4, <2>7 DEF Answers, a, more
  <1>7. Sent(c)' = Sent(c) /\ Told' = Told
    BY <1>2 DEF Sent, Told, session, server
  <1> QED
    BY <1>2, <1>3, <1>5, <1>6, <1>7 DEF Order, session, server

LEMMA OrderStep == IInv /\ [Next]_vars => \A d \in Conns : Order(d)'
  <1> SUFFICES ASSUME IInv, [Next]_vars, NEW d \in Conns PROVE Order(d)'
    OBVIOUS
  <1>0. TInv /\ Fresh(d) /\ Order(d)
    BY DEF IInv
  <1>1. CASE SetState \/ RunBroadcast
    BY <1>1, OrderSetState, OrderRunBroadcast
  <1>2. CASE Stop
    BY <1>2 DEF Stop, Order, Present
  <1>3. ASSUME NEW c \in Conns, c # d, Step(c) PROVE Order(d)'
    <2>1. /\ UNCHANGED <<session, running, posted>>
          /\ UNCHANGED <<peer[d], accepted[d], reading[d], box[d], written[d],
                         taken[d], got[d], from[d]>>
          /\ d \in members <=> d \in members'
      BY <1>0, <1>3, Others
    <2> QED
      BY <2>1, Untouched
  <1>4. ASSUME Step(d) PROVE Order(d)'
    <2>1. CASE Accept(d) \/ OnLine(d) \/ WriteDone(d)
      BY <2>1, OrderAccept, OrderOnLine, OrderWriteDone
    <2>2. CASE ReadEnds(d) \/ WriteFails(d) \/ ClientCloses(d) \/ PrintStatus(d)
      <3>1. peer'[d] = "closed"
        BY <1>0, <2>2 DEF TInv, ReadEnds, WriteFails, ClientCloses, PrintStatus, clients
      <3> QED
        BY <3>1 DEF Order, Present
    <2>3. CASE ClientConnects(d)
      <3>1. ~accepted[d] /\ accepted' = accepted
        BY <1>0, <2>3 DEF ClientConnects, Fresh, server
      <3> QED
        BY <3>1 DEF Order, Present
    <2>4. CASE \E line \in Lines : ClientWrites(d, line)
      BY <2>4, OrderWrites
    <2> QED
      BY <1>4, <2>1, <2>2, <2>3, <2>4 DEF Step, Serve, Client
  <1>5. CASE Exited \/ UNCHANGED vars
    <2>1. UNCHANGED vars
      BY <1>5 DEF Exited
    <2>2. Sent(d)' = Sent(d) /\ Told' = Told /\ Present(d)' = Present(d)
      BY <2>1 DEF vars, session, server, clients, Sent, Told, Present
    <2> QED
      BY <1>0, <2>1, <2>2 DEF vars, session, server, clients, Order
  <1>6. Tools \subseteq Conns
    BY DEF Conns
  <1>7. CASE AcceptFails
    <2>1. UNCHANGED <<session, clients, running, posted, members, accepted,
                      reading, box, taken, from>>
      BY <1>7 DEF AcceptFails
    <2>2. Sent(d)' = Sent(d) /\ Told' = Told /\ Present(d)' = Present(d)
      BY <2>1 DEF session, clients, Sent, Told, Present
    <2> QED
      BY <1>0, <2>1, <2>2 DEF session, clients, Order
  <1> QED
    BY <1>1, <1>2, <1>3, <1>4, <1>5, <1>6, <1>7, Zenon DEF Next, Step

LEMMA IInvStep == IInv /\ [Next]_vars => IInv'
  <1> SUFFICES ASSUME IInv, [Next]_vars PROVE IInv'
    OBVIOUS
  <1>1. TInv'
    BY TInvStep DEF IInv
  <1> QED
    BY <1>1, LogStep, FreshStep, OrderStep DEF IInv

-----------------------------------------------------------------------------
(* Theorems.                                                               *)

(* Whatever lines the clients write, each that wants an answer has exactly   *)
(* one of its kind, a command one at most, in the order of the lines,        *)
(* whatever is broadcast between them; no write is begun while another is    *)
(* outstanding.                                                            *)
THEOREM EachAnswered == Spec => []AnsweredInOrder
  <1>1. IInv => AnsweredInOrder
    <2> SUFFICES ASSUME IInv, NEW c \in Conns, Present(c)
                 PROVE  /\ Len(box[c].writes) <= 1
                        /\ Answered(Only(Sent(c), {"reply", "error"}), written[c], taken[c])
      BY DEF AnsweredInOrder, Sent, Answered
    <2>1. Answers(Sent(c), written[c], taken[c])
      BY DEF IInv, Order
    <2>2. Len(box[c].writes) <= 1
      <3>1. box[c] \in Boxes
        BY DEF IInv, TInv
      <3>2. box[c].writes = <<>> \/ box[c].writes = <<Head(box[c].out)>>
        BY <3>1 DEF Boxes
      <3>3. Len(<<>>) <= 1 /\ Len(<<Head(box[c].out)>>) <= 1
        OBVIOUS
      <3> QED
        BY <3>2, <3>3, Zenon
    <2> QED
      BY <2>1, <2>2 DEF Answers
  <1> QED
    BY IInvInit, IInvStep, <1>1, PTL DEF Spec

(* A client that has been sent everything knows the state, although          *)
(* greetings and replies overtake the broadcasts that are posted.            *)
THEOREM MirrorsAgree == Spec => []MirrorConverges
  <1>1. IInv => MirrorConverges
    <2> SUFFICES ASSUME IInv, NEW c \in Conns, Present(c), posted = <<>>,
                        box[c].out = <<>>
                 PROVE  /\ Learned(got[c]) # <<>>
                        /\ Learned(got[c])[Len(Learned(got[c]))].num = state
      BY DEF MirrorConverges, Learned
    <2>1. Knows(Sent(c), posted = <<>>, state)
      BY DEF IInv, Order
    <2>2. got[c] \in Seq(Messages)
      BY DEF IInv, TInv
    <2>3. Sent(c) = got[c]
      BY <2>2, ConcatEmptySeq DEF Sent
    <2> QED
      BY <2>1, <2>3 DEF Knows
  <1> QED
    BY IInvInit, IInvStep, <1>1, PTL DEF Spec

-----------------------------------------------------------------------------
(* Feed.                                                                   *)

\* Where a client stands in the log, as Feed has it.
Place(c) == IF Present(c) THEN "present"
            ELSE IF ~running \/ peer[c] = "closed" THEN "gone" ELSE "away"
Skipped(c) == IF Present(c) THEN from[c] ELSE 0
Seen(c) == IF Present(c) THEN Only(got[c], {"state"}) ELSE <<>>

place == [c \in Conns |-> Place(c)]
skipped == [c \in Conns |-> Skipped(c)]
seen == [c \in Conns |-> Seen(c)]

(* Feed's steps in these words.                                            *)
LEMMA FeedSteps ==
    /\ F!vars = <<announced, place, skipped, seen>>
    /\ F!vars' = <<announced, place, skipped, seen>>'
    /\ F!Announce <=> /\ \E e \in Broadcasts : announced' = Append(announced, e)
                      /\ UNCHANGED <<place, skipped, seen>>
    /\ \A c \in Conns : F!Subscribe(c) <=>
          /\ place[c] = "away"
          /\ place' = [place EXCEPT ![c] = "present"]
          /\ \E n \in 0 .. Len(announced) : skipped' = [skipped EXCEPT ![c] = n]
          /\ UNCHANGED <<announced, seen>>
    /\ \A c \in Conns : F!See(c) <=>
          /\ place[c] = "present" /\ skipped[c] + Len(seen[c]) < Len(announced)
          /\ seen' = [seen EXCEPT ![c] = Append(seen[c],
                                     announced[skipped[c] + Len(seen[c]) + 1])]
          /\ UNCHANGED <<announced, place, skipped>>
    /\ \A cs : F!Leave(cs) <=>
          /\ \A c \in cs : place[c] # "gone"
          /\ place' = [c \in Conns |-> IF c \in cs THEN "gone" ELSE place[c]]
          /\ skipped' = [c \in Conns |-> IF c \in cs THEN 0 ELSE skipped[c]]
          /\ seen' = [c \in Conns |-> IF c \in cs THEN <<>> ELSE seen[c]]
          /\ UNCHANGED announced
    /\ F!Next <=> \/ F!Announce
                  \/ \E c \in Conns : F!Subscribe(c) \/ F!See(c)
                  \/ \E cs \in SUBSET Conns : F!Leave(cs)
  BY DEF F!vars, F!Announce, F!Subscribe, F!See, F!Behind, F!Leave, F!Next,
         place, skipped, seen, Place, Skipped, Seen

LEMMA FeedInit == Init => F!Init
  <1> SUFFICES ASSUME Init PROVE F!Init
    OBVIOUS
  <1>1. \A c \in Conns : Place(c) = "away" /\ Skipped(c) = 0 /\ Seen(c) = <<>>
    BY DEF Init, Place, Skipped, Seen, Present
  <1>2. /\ announced = <<>> /\ place = [c \in Conns |-> "away"]
        /\ skipped = [c \in Conns |-> 0] /\ seen = [c \in Conns |-> <<>>]
    BY <1>1 DEF Init, place, skipped, seen
  <1> QED
    BY <1>2 DEF F!Init, place, skipped, seen, Place, Skipped, Seen

\* Where it is not the client's step, nothing moves.
LEMMA FeedOthers ==
    ASSUME IInv, NEW c \in Conns, Step(c)
    PROVE  /\ announced' = announced /\ running' = running
           /\ \A d \in Conns : d # c =>
                 Place(d)' = Place(d) /\ Skipped(d)' = Skipped(d) /\ Seen(d)' = Seen(d)
  <1>1. ASSUME NEW d \in Conns, d # c
        PROVE  Place(d)' = Place(d) /\ Skipped(d)' = Skipped(d) /\ Seen(d)' = Seen(d)
    <2>1. running' = running /\ peer'[d] = peer[d] /\ accepted'[d] = accepted[d]
          /\ got'[d] = got[d] /\ from'[d] = from[d]
      BY <1>1, Others DEF IInv
    <2>2. Present(d)' = Present(d)
      BY <2>1 DEF Present
    <2> QED
      BY <2>1, <2>2 DEF Place, Skipped, Seen
  <1>2. announced' = announced /\ running' = running
    BY Zenon DEF Step, Serve, Client, session, server, Accept, OnLine, ReadEnds,
       WriteFails, WriteDone, ClientConnects, ClientWrites, ClientCloses, PrintStatus
  <1> QED
    BY <1>1, <1>2

LEMMA FeedStays ==
    ASSUME announced' = announced,
           \A d \in Conns : Place(d)' = Place(d) /\ Skipped(d)' = Skipped(d)
                            /\ Seen(d)' = Seen(d)
    PROVE  UNCHANGED F!vars
  <1>1. UNCHANGED <<place, skipped, seen>>
    BY DEF place, skipped, seen
  <1> QED
    BY <1>1, FeedSteps

LEMMA FeedLeaves ==
    ASSUME NEW cs \in SUBSET Conns, announced' = announced,
           \A c \in cs : Place(c) # "gone" /\ Place(c)' = "gone" /\ Skipped(c)' = 0
                         /\ Seen(c)' = <<>>,
           \A d \in Conns \ cs : Place(d)' = Place(d) /\ Skipped(d)' = Skipped(d)
                                 /\ Seen(d)' = Seen(d)
    PROVE  F!Next
  <1>1. /\ \A c \in cs : place[c] # "gone"
        /\ place' = [c \in Conns |-> IF c \in cs THEN "gone" ELSE place[c]]
        /\ skipped' = [c \in Conns |-> IF c \in cs THEN 0 ELSE skipped[c]]
        /\ seen' = [c \in Conns |-> IF c \in cs THEN <<>> ELSE seen[c]]
        /\ UNCHANGED announced
    BY DEF place, skipped, seen
  <1>2. F!Leave(cs)
    BY <1>1, FeedSteps, Zenon
  <1> QED
    BY <1>2, FeedSteps

LEMMA FeedSubscribe ==
    ASSUME IInv, NEW c \in Conns, Accept(c)
    PROVE  F!Next \/ UNCHANGED F!vars
  <1>1. Step(c)
    BY DEF Step, Serve
  <1>2. /\ announced' = announced
        /\ \A d \in Conns : d # c =>
              Place(d)' = Place(d) /\ Skipped(d)' = Skipped(d) /\ Seen(d)' = Seen(d)
    BY <1>1, FeedOthers
  <1>3. TInv /\ LogInv /\ Fresh(c)
    BY DEF IInv
  <1>4. /\ running /\ running' = running /\ ~accepted[c] /\ peer[c] # "none"
        /\ peer' = peer /\ got' = got
    BY DEF Accept, clients
  <1>5. accepted'[c] = TRUE /\ from'[c] = Told
    BY <1>3 DEF Accept, TInv, Told
  <1>6. got[c] = <<>> /\ ~Present(c) /\ Skipped(c) = 0 /\ Seen(c) = <<>>
    BY <1>3, <1>4 DEF Fresh, Present, Skipped, Seen
  <1>7. Seen(c)' = Seen(c)
    BY <1>4, <1>6, OnlyEmpty DEF Seen
  <1>8. CASE peer[c] = "open"
    <2>1. Place(c) = "away" /\ Place(c)' = "present" /\ Skipped(c)' = Told
      BY <1>4, <1>5, <1>6, <1>8 DEF Place, Skipped, Present
    <2>2. Told \in 0 .. Len(announced)
      <3>1. Len(announced) \in Nat /\ Len(posted) \in Nat /\ Len(posted) <= Len(announced)
        BY <1>3 DEF TInv, LogInv
      <3> QED
        BY <3>1 DEF Told
    <2>3. /\ place[c] = "away" /\ place' = [place EXCEPT ![c] = "present"]
          /\ skipped' = [skipped EXCEPT ![c] = Told] /\ seen' = seen
      BY <1>2, <1>7, <2>1 DEF place, skipped, seen
    <2>4. F!Subscribe(c)
      BY <1>2, <2>2, <2>3, FeedSteps
    <2> QED
      BY <2>4, FeedSteps
  <1>9. CASE peer[c] # "open"
    <2>1. peer[c] = "closed"
      BY <1>3, <1>4, <1>9 DEF TInv
    <2>2. Place(c)' = Place(c) /\ Skipped(c)' = Skipped(c)
      BY <1>4, <1>6, <2>1 DEF Place, Skipped, Present
    <2> QED
      BY <1>2, <1>7, <2>2, FeedStays
  <1> QED
    BY <1>8, <1>9

LEMMA FeedSee ==
    ASSUME IInv, NEW c \in Conns, WriteDone(c)
    PROVE  F!Next \/ UNCHANGED F!vars
  <1> DEFINE m == Head(box[c].out)
             rest == Tail(box[c].out)
             g == got[c]
             old == Only(g, {"state"})
  <1>1. /\ g' = Append(g, m) /\ box[c].out = <<m>> \o rest
        /\ m \in Messages /\ rest \in Seq(Messages)
        /\ UNCHANGED <<running, announced, accepted, peer, from>>
    BY OrderWriteDone
  <1>2. /\ announced' = announced
        /\ \A d \in Conns : d # c =>
              Place(d)' = Place(d) /\ Skipped(d)' = Skipped(d) /\ Seen(d)' = Seen(d)
    BY FeedOthers DEF Step
  <1>3. TInv /\ LogInv /\ Fresh(c) /\ Order(c)
    BY DEF IInv
  <1>4. g \in Seq(Messages) /\ old \in Seq(Messages)
    BY <1>3, OnlyType DEF TInv
  <1>5. Present(c)
    BY <1>3 DEF Present, WriteDone, Fresh
  <1>6. Present(c)' /\ Place(c)' = Place(c) /\ Skipped(c)' = Skipped(c)
    BY <1>1, <1>5 DEF Present, Place, Skipped
  <1>7. /\ Place(c) = "present" /\ Skipped(c) = from[c] /\ Seen(c) = old
        /\ Seen(c)' = Only(g', {"state"})
    BY <1>5, <1>6 DEF Place, Skipped, Seen
  <1> HIDE DEF m, rest, g
  <1>8. Only(g', {"state"}) = IF m.kind = "state" THEN Append(old, m) ELSE old
    BY <1>1, <1>4, OnlyAppend
  <1>9. CASE m.kind # "state"
    BY <1>2, <1>6, <1>7, <1>8, <1>9, FeedStays
  <1>10. CASE m.kind = "state"
    <2>1. Tells(g \o (<<m>> \o rest), announced, from[c], Told)
      BY <1>1, <1>3, <1>5 DEF Order, Sent, g
    <2> DEFINE after == Only(rest, {"state"})
               all == SubSeq(announced, from[c] + 1, Told)
    <2>2. all = old \o (<<m>> \o after)
      <3> DEFINE one == <<m>>
                 tail == one \o rest
      <3>1. one \in Seq(Messages)
        BY <1>1, OneFacts
      <3>2. Only(one, {"state"}) = <<m>>
        BY <1>1, <1>10, OnlyOne
      <3> HIDE DEF one
      <3>3. tail \in Seq(Messages) /\ Only(tail, {"state"}) = Only(one, {"state"}) \o after
        BY <1>1, <3>1, ConcatProperties, OnlyConcat
      <3>4. Only(g \o tail, {"state"}) = all
        BY <2>1 DEF Tells, tail, one
      <3> HIDE DEF tail, old, after, all
      <3>5. Only(g \o tail, {"state"}) = Only(g, {"state"}) \o Only(tail, {"state"})
        BY <1>4, <3>3, OnlyConcat
      <3> QED
        BY <3>2, <3>3, <3>4, <3>5 DEF old
    <2>3. after \in Seq(Messages)
      BY <1>1, OnlyType
    <2> HIDE DEF after, old
    <2>4. /\ Len(old \o (<<m>> \o after)) = Len(old) + 1 + Len(after)
          /\ (old \o (<<m>> \o after))[Len(old) + 1] = m
          /\ Len(old) \in Nat /\ Len(after) \in Nat
      <3>1. /\ <<m>> \o after \in Seq(Messages) /\ Len(<<m>> \o after) = 1 + Len(after)
            /\ (<<m>> \o after)[1] = m
        BY <1>1, <2>3
      <3> DEFINE b == <<m>> \o after
      <3>2. b \in Seq(Messages) /\ Len(b) = 1 + Len(after) /\ b[1] = m
        BY <3>1
      <3> HIDE DEF b
      <3>3. Len(old) \in Nat /\ Len(after) \in Nat /\ old \in Seq(Messages)
        BY <1>4, <2>3
      <3>4. Len(old \o b) = Len(old) + 1 + Len(after) /\ (old \o b)[Len(old) + 1] = m
        BY <3>2, <3>3
      <3> QED
        BY <3>3, <3>4 DEF b
    <2>5. /\ from[c] \in 0 .. Told /\ Told <= Len(announced) /\ Told \in Nat
          /\ announced \in Seq(Broadcasts)
      <3>1. from[c] \in 0 .. Told
        BY <2>1 DEF Tells
      <3>2. Len(announced) \in Nat /\ Len(posted) \in Nat /\ Len(posted) <= Len(announced)
            /\ announced \in Seq(Broadcasts)
        BY <1>3 DEF TInv, LogInv
      <3> QED
        BY <3>1, <3>2 DEF Told
    <2>6. /\ Len(all) = Told - from[c]
          /\ \A i \in 1 .. Told - from[c] : all[i] = announced[from[c] + i]
      BY <2>5
    <2> HIDE DEF all
    <2>7. /\ from[c] + Len(old) < Len(announced)
          /\ m = announced[from[c] + Len(old) + 1]
      <3>1. Len(all) = Len(old) + 1 + Len(after) /\ all[Len(old) + 1] = m
        BY <2>2, <2>4
      <3>2. Len(old) + 1 \in 1 .. Told - from[c] /\ from[c] \in Int /\ Told \in Int
        BY <2>4, <2>5, <2>6, <3>1
      <3>3. m = announced[from[c] + (Len(old) + 1)]
        BY <2>6, <3>1, <3>2
      <3>4. from[c] + (Len(old) + 1) = from[c] + Len(old) + 1
        BY <2>4, <3>2
      <3>5. from[c] + Len(old) < Len(announced)
        BY <2>4, <2>5, <3>2
      <3> QED
        BY <3>3, <3>4, <3>5
    <2>8. Seen(c)' = Append(old, m)
      BY <1>7, <1>8, <1>10
    <2>9. /\ place[c] = "present" /\ skipped[c] = from[c] /\ seen[c] = old
          /\ UNCHANGED <<announced, place, skipped>>
      BY <1>2, <1>6, <1>7 DEF place, skipped, seen, old
    <2>10. seen' = [seen EXCEPT ![c] = Append(old, m)]
      BY <1>2, <2>8 DEF seen
    <2>11. F!See(c)
      BY <2>7, <2>9, <2>10, FeedSteps
    <2> QED
      BY <2>11, FeedSteps
  <1> QED
    BY <1>9, <1>10

LEMMA FeedStep == IInv /\ [Next]_vars => [F!Next]_(F!vars)
  <1> SUFFICES ASSUME IInv, [Next]_vars PROVE F!Next \/ UNCHANGED F!vars
    OBVIOUS
  <1>0. TInv
    BY DEF IInv
  <1>1. CASE SetState
    <2>1. [kind |-> "state", num |-> state'] \in Broadcasts
      BY <1>0, <1>1, IpcAssumption DEF SetState, TInv, Broadcasts
    <2>2. /\ announced' = Append(announced, [kind |-> "state", num |-> state'])
          /\ UNCHANGED <<running, accepted, from, peer, got>>
      BY <1>1 DEF SetState, clients
    <2>3. UNCHANGED <<place, skipped, seen>>
      BY <2>2 DEF place, skipped, seen, Place, Skipped, Seen, Present
    <2>4. F!Announce
      BY <2>1, <2>2, <2>3, FeedSteps
    <2> QED
      BY <2>4, FeedSteps
  <1>2. CASE RunBroadcast \/ AcceptFails \/ Exited \/ UNCHANGED vars
    <2>1. UNCHANGED <<announced, running, accepted, from, peer, got>>
      BY <1>2 DEF RunBroadcast, AcceptFails, Exited, vars, session, server, clients
    <2>2. \A d \in Conns : Place(d)' = Place(d) /\ Skipped(d)' = Skipped(d)
                           /\ Seen(d)' = Seen(d)
      BY <2>1 DEF Place, Skipped, Seen, Present
    <2> QED
      BY <2>1, <2>2, FeedStays
  <1>3. CASE Stop
    <2> DEFINE cs == {d \in Conns : Place(d) # "gone"}
    <2>1. running' = FALSE /\ announced' = announced
      BY <1>3 DEF Stop, session
    <2>2. \A d \in Conns : Place(d)' = "gone" /\ Skipped(d)' = 0 /\ Seen(d)' = <<>>
      BY <2>1 DEF Place, Skipped, Seen, Present
    <2>3. \A d \in Conns : Place(d) = "gone" => Skipped(d) = 0 /\ Seen(d) = <<>>
      BY DEF Place, Skipped, Seen
    <2>4. \A d \in Conns \ cs : Place(d)' = Place(d) /\ Skipped(d)' = Skipped(d)
                                /\ Seen(d)' = Seen(d)
      BY <2>2, <2>3
    <2>5. cs \in SUBSET Conns /\ \A d \in cs : Place(d) # "gone"
      OBVIOUS
    <2> HIDE DEF cs
    <2> QED
      BY <2>1, <2>2, <2>4, <2>5, FeedLeaves
  <1>4. ASSUME NEW c \in Conns, Step(c) PROVE F!Next \/ UNCHANGED F!vars
    <2>0. /\ announced' = announced /\ running' = running
          /\ \A d \in Conns : d # c =>
                Place(d)' = Place(d) /\ Skipped(d)' = Skipped(d) /\ Seen(d)' = Seen(d)
      BY <1>4, FeedOthers
    <2>1. CASE Accept(c) \/ WriteDone(c)
      BY <2>1, FeedSubscribe, FeedSee
    <2>2. CASE OnLine(c) \/ ReadEnds(c) \/ WriteFails(c) \/ ClientConnects(c)
               \/ \E line \in Lines : ClientWrites(c, line)
      <3>1. UNCHANGED <<accepted, from, got>>
        BY <2>2 DEF OnLine, ReadEnds, WriteFails, ClientConnects, ClientWrites, clients,
           server
      <3>2. \/ peer' = peer
            \/ running /\ ~accepted[c] /\ peer[c] = "none" /\ peer'[c] = "open"
        <4>1. CASE ClientConnects(c)
          <5>1. running /\ peer[c] = "none" /\ peer'[c] = "open"
            BY <1>0, <4>1 DEF ClientConnects, TInv
          <5>2. ~accepted[c]
            BY <5>1 DEF IInv, Fresh
          <5> QED
            BY <5>1, <5>2
        <4>2. CASE ~ClientConnects(c)
          BY <2>2, <4>2 DEF OnLine, ReadEnds, WriteFails, ClientWrites, clients
        <4> QED
          BY <4>1, <4>2
      <3>3. Place(c)' = Place(c) /\ Skipped(c)' = Skipped(c) /\ Seen(c)' = Seen(c)
        BY <2>0, <3>1, <3>2 DEF Place, Skipped, Seen, Present
      <3> QED
        BY <2>0, <3>3, FeedStays
    <2>3. CASE ClientCloses(c) \/ (c \in Tools /\ PrintStatus(c))
      <3>1. peer[c] = "open" /\ peer'[c] = "closed"
        BY <1>0, <2>3 DEF ClientCloses, PrintStatus, TInv
      <3>2. ~Present(c)'
        BY <3>1 DEF Present
      <3>3. Place(c)' = "gone" /\ Skipped(c)' = 0 /\ Seen(c)' = <<>>
        BY <3>1, <3>2 DEF Place, Skipped, Seen
      <3>4. CASE running
        <4>1. Place(c) # "gone"
          BY <3>1, <3>4 DEF Place
        <4>2. /\ {c} \in SUBSET Conns
              /\ \A d \in {c} : Place(d) # "gone" /\ Place(d)' = "gone" /\ Skipped(d)' = 0
                                /\ Seen(d)' = <<>>
              /\ \A d \in Conns \ {c} : Place(d)' = Place(d) /\ Skipped(d)' = Skipped(d)
                                        /\ Seen(d)' = Seen(d)
          BY <2>0, <3>3, <4>1
        <4> QED
          BY <2>0, <4>2, FeedLeaves
      <3>5. CASE ~running
        <4>1. Place(c) = "gone" /\ Skipped(c) = 0 /\ Seen(c) = <<>>
          BY <3>5 DEF Place, Skipped, Seen, Present
        <4> QED
          BY <2>0, <3>3, <4>1, FeedStays
      <3> QED
        BY <3>4, <3>5
    <2> QED
      BY <1>4, <2>1, <2>2, <2>3 DEF Step, Serve, Client
  <1>5. Tools \subseteq Conns
    BY DEF Conns
  <1> QED
    BY <1>1, <1>2, <1>3, <1>4, <1>5, Zenon DEF Next, Step

(* Events fan out to every open connection (ipc.hpp): whoever comes and      *)
(* goes, whoever's write fails or is slow, each client is sent a run of the *)
(* announced events, in order, without a gap and without a repetition.      *)
THEOREM ImplementsFeed == Spec => RefinesFeed
  <1>1. Init => F!Init
    BY FeedInit
  <1>2. IInv /\ [Next]_vars => [F!Next]_(F!vars)
    BY FeedStep
  <1> QED
    BY <1>1, <1>2, IInvInit, IInvStep, PTL DEF Spec, RefinesFeed, F!Spec
=============================================================================
