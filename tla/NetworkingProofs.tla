-------------------------- MODULE NetworkingProofs --------------------------
(***************************************************************************)
(* Theorems about the connection handshake: its types, and that the two    *)
(* machines take different sides over a line that damages nothing.         *)
(***************************************************************************)
EXTENDS Networking, SequenceTheorems, TLAPS

(***************************************************************************)
(* How far a machine is: 0..5 bytes into the password, 10..15 for 0..5     *)
(* bytes into the response, or one of the following.                       *)
(***************************************************************************)
Linking == 0..5
Linked == 10..15
Second == 20         \* connected, as player 2,
First == 21          \* as player 1
Joining == 30        \* in the multiplayer menu, about to send its request
Away == 31           \* anywhere else

Hears(a) == a \in Linking \/ a \in Linked

\* The bytes that p has yet to read.  What reaches a machine that is not
\* listening is drained before it listens again.
Listening(p) == nstate[p] \in {"WAITING", "LINKED"}
Got(p) == IF Listening(p) THEN in_fifo[p] ELSE <<>>
To(p) == Got(p) \o (wire[Other(p)] \o out_fifo[Other(p)])

Stage(ns, ix, pl) ==
    CASE ns = "WAITING" -> ix
      [] ns = "LINKED" -> 10 + ix
      [] ns = "CONNECTED" -> IF pl = 2 THEN Second ELSE First
      [] ns = "CLEANUP" -> Joining
      [] OTHER -> Away

StageOf(p) == IF screen[p] = "menu" THEN Away ELSE Stage(nstate[p], idx[p], player[p])

(***************************************************************************)
(* A user who opens the multiplayer menu finds nothing under way but,      *)
(* perhaps, the request of the other one: a byte takes 0.1 ms, a machine   *)
(* reads one at each tick, and the user took several clicks.               *)
(***************************************************************************)
Settled(p) == To(Other(p)) = <<>> /\ To(p) \in {<<>>, <<"J">>}

-----------------------------------------------------------------------------
(***************************************************************************)
(* What the two machines know of each other, for one at stage a that has   *)
(* yet to read x and the other one at stage b that has yet to read y.      *)
(***************************************************************************)
\* The one at a is about to read c, and has the turn.
Turn(a, c, b) ==
    \/ c = "J" /\ b = 0 /\ Hears(a)
    \/ c = "O" /\ a \in 0..4 /\ b = a
    \/ a \in 0..4 /\ c = UART_SYNC_PASSWORD[a + 1] /\ b = a + 1
    \/ c = "O" /\ a = 5 /\ b = 10
    \/ c = "P" /\ a = 10 /\ b = 10
    \/ a \in 10..14 /\ c = UART_SYNC_RESPONSE[a - 9] /\ b = a + 1
    \/ c = "O" /\ a \in 11..14 /\ b = a
    \/ c = "S" /\ a = 1 /\ b = 1

\* Both sent their request before they read the other's.
Twice(a, x, b, y) ==
    \/ a = 0 /\ b = 0 /\ x = <<"J">> /\ y = <<"J">>
    \/ a = 0 /\ b = 0 /\ x = <<"J", "O">> /\ y = <<>>
    \/ a = 0 /\ b = 0 /\ x = <<"O">> /\ y = <<"O">>
    \/ a = 0 /\ b = 1 /\ x = <<"O", "S">> /\ y = <<>>
    \/ a = 1 /\ b = 1 /\ x = <<"S">> /\ y = <<"S">>

Silent(a, x, b, y) ==
    x = <<>> /\ y = <<>> /\ ((a = 1 /\ b = 1) \/ (a \in Linked /\ b = 0))

Half(a, x, b, y) ==
    \/ y = <<>> /\ Len(x) = 1 /\ Turn(a, x[1], b)
    \/ Twice(a, x, b, y)
    \/ Silent(a, x, b, y)

Requested(y) == \E i \in 1..Len(y) : y[i] = "J"

\* The other one has gone: what it sent before is soon read.
Left(a, x, y) ==
    /\ Hears(a) => /\ x = <<>> \/ Len(x) = 1 \/ (a = 0 /\ Len(x) = 2)
                   /\ (a = 15 /\ x # <<>>) => x[1] # "O"
    /\ (Hears(a) /\ Requested(y)) => (a = 0 /\ (x = <<>> \/ x = <<"J">>))
    /\ a = Second => ~Requested(y)
    /\ a # First

\* The other one is about to send its request.
Rejoins(a, x, y) ==
    /\ x = <<>> /\ a # First
    /\ a = Joining => y = <<>>
    /\ y = <<>> \/ (y = <<"J">> /\ (a = 0 \/ a = Away))

\* The other one has connected, as player 2.
Plays(a, x) ==
    \/ a = 15 /\ (x = <<>> \/ x = <<"O">>)
    \/ (a = 0 \/ a = Joining) /\ x = <<>>
    \/ a = Away /\ ~Requested(x)
    \/ a = First

Agree(a, x, b, y) ==
    /\ (Hears(a) /\ Hears(b)) => (Half(a, x, b, y) \/ Half(b, y, a, x))
    /\ b = Away => Left(a, x, y)
    /\ a = Away => Left(b, y, x)
    /\ b = Joining => Rejoins(a, x, y)
    /\ a = Joining => Rejoins(b, y, x)
    /\ b = Second => Plays(a, x)
    /\ a = Second => Plays(b, y)
    /\ a = First => b = Second
    /\ b = First => a = Second

\* Over a line that damages nothing.
HandshakeInv ==
    \A p \in Peer : Agree(StageOf(p), To(p), StageOf(Other(p)), To(Other(p)))

-----------------------------------------------------------------------------
(* Steps of that relation.                                                 *)

At == Linking \cup Linked \cup {Second, First, Joining, Away}

LEMMA Apart ==
    /\ ~Hears(Second) /\ ~Hears(First) /\ ~Hears(Joining) /\ ~Hears(Away)
    /\ Second # First /\ Second # Joining /\ Second # Away
    /\ First # Joining /\ First # Away /\ Joining # Away
    /\ Second # 0 /\ First # 0 /\ Joining # 0 /\ Away # 0
    /\ Second # 15 /\ First # 15 /\ Joining # 15 /\ Away # 15
    /\ Hears(0) /\ Hears(1) /\ Hears(10) /\ Hears(11) /\ Hears(15) /\ \A i \in 0..5 : Hears(i)
BY DEF Hears, Linking, Linked, Second, First, Joining, Away

\* Short sequences.
LEMMA Short ==
    ASSUME NEW S, NEW x \in Seq(S), x # <<>>
    PROVE  /\ Head(x) = x[1] /\ Tail(x) \in Seq(S) /\ Len(Tail(x)) = Len(x) - 1
           /\ Len(x) \in Nat \ {0} /\ x[1] \in S
           /\ Len(x) = 1 => x = <<x[1]>> /\ Tail(x) = <<>>
           /\ Len(x) = 2 => Tail(x) = <<x[2]>>
<1>1. /\ Head(x) = x[1] /\ Tail(x) \in Seq(S) /\ Len(Tail(x)) = Len(x) - 1
      /\ Len(x) \in Nat \ {0} /\ x[1] \in S
      /\ \A i \in 1..Len(Tail(x)) : Tail(x)[i] = x[i + 1]
  BY HeadTailProperties, EmptySeq, ElementOfSeq
<1>2. ASSUME NEW s \in Seq(S), Len(s) = 1 PROVE s = <<s[1]>>
  <2>1. s[1] \in S
    <3>1. 1 \in 1..Len(s)
      BY <1>2
    <3> QED
      BY <3>1, ElementOfSeq
  <2>2. <<s[1]>> \in Seq(S) /\ Len(<<s[1]>>) = 1 /\ <<s[1]>>[1] = s[1]
    BY <2>1
  <2> QED
    BY <1>2, <2>2, SeqEqual
<1>3. ASSUME NEW s \in Seq(S), Len(s) = 0 PROVE s = <<>>
  BY <1>3, EmptySeq
<1>4. Len(x) = 1 => x = <<x[1]>> /\ Tail(x) = <<>>
  <2>1. Len(x) = 1 => Len(Tail(x)) = 0
    BY <1>1
  <2> QED
    BY <1>1, <1>2, <1>3, <2>1
<1>5. Len(x) = 2 => Tail(x) = <<x[2]>>
  <2>1. Len(x) = 2 => Len(Tail(x)) = 1 /\ Tail(x)[1] = x[2]
    BY <1>1
  <2> QED
    BY <1>1, <1>2, <2>1
<1> QED
  BY <1>1, <1>4, <1>5

LEMMA Tuples ==
    ASSUME NEW c, NEW e
    PROVE  /\ Tail(<<c>>) = <<>> /\ Tail(<<c, e>>) = <<e>>
           /\ <<c>>[1] = c /\ <<c, e>>[1] = c /\ Len(<<c>>) = 1
           /\ Append(<<>>, e) = <<e>> /\ Append(<<c>>, e) = <<c, e>>
<1> DEFINE S == {c, e}
<1>1. <<>> \in Seq(S) /\ <<c>> \in Seq(S) /\ <<e>> \in Seq(S) /\ <<c, e>> \in Seq(S)
  OBVIOUS
<1>2. /\ Len(<<>>) = 0 /\ Len(<<c>>) = 1 /\ Len(<<e>>) = 1 /\ Len(<<c, e>>) = 2
      /\ <<c>>[1] = c /\ <<e>>[1] = e /\ <<c, e>>[1] = c /\ <<c, e>>[2] = e
      /\ <<c>> # <<>> /\ <<c, e>> # <<>>
  OBVIOUS
<1>3. Tail(<<c>>) = <<>> /\ Tail(<<c, e>>) = <<e>>
  BY <1>1, <1>2, Short
<1>4. ASSUME NEW s \in Seq(S), NEW t \in Seq(S), Len(t) = Len(s) + 1, t[Len(s) + 1] = e,
             \A i \in 1..Len(s) : t[i] = s[i]
      PROVE  Append(s, e) = t
  <2>1. /\ Append(s, e) \in Seq(S) /\ Len(Append(s, e)) = Len(s) + 1 /\ Len(s) \in Nat
        /\ \A i \in 1..Len(s) : Append(s, e)[i] = s[i]
        /\ Append(s, e)[Len(s) + 1] = e
    BY AppendProperties, LenProperties
  <2>2. \A i \in 1..Len(s) + 1 : Append(s, e)[i] = t[i]
    BY <1>4, <2>1
  <2> QED
    BY <1>4, <2>1, <2>2, SeqEqual
<1>5. Append(<<>>, e) = <<e>>
  BY <1>1, <1>2, <1>4
<1>6. Append(<<c>>, e) = <<c, e>>
  <2>1. \A i \in 1..Len(<<c>>) : <<c, e>>[i] = <<c>>[i]
    BY <1>2
  <2>2. Len(<<c, e>>) = Len(<<c>>) + 1 /\ <<c, e>>[Len(<<c>>) + 1] = e
    BY <1>2
  <2> QED
    BY <1>1, <1>4, <2>1, <2>2
<1> QED
  BY <1>2, <1>3, <1>5, <1>6

LEMMA RequestedTail ==
    ASSUME NEW S, NEW x \in Seq(S), x # <<>>, Requested(Tail(x))
    PROVE  Requested(x)
BY HeadTailProperties, LenProperties DEF Requested

LEMMA RequestedAppend ==
    ASSUME NEW S, NEW y \in Seq(S), NEW e \in S, e # "J", Requested(Append(y, e))
    PROVE  Requested(y)
BY AppendProperties, LenProperties DEF Requested

LEMMA RequestedMore ==
    ASSUME NEW S, NEW v \in Seq(S), NEW y \in Seq(S)
    PROVE  /\ Requested(v) => Requested(v \o y)
           /\ Requested(y) => Requested(v \o y)
<1>1. Requested(v) => Requested(v \o y)
  BY ConcatProperties, LenProperties DEF Requested
<1>2. ASSUME Requested(y) PROVE Requested(v \o y)
  <2>1. PICK i \in 1..Len(y) : y[i] = "J"
    BY <1>2 DEF Requested
  <2>2. Len(v) + i \in 1..Len(v \o y) /\ (v \o y)[Len(v) + i] = "J"
    BY <2>1, ConcatProperties, LenProperties
  <2> QED
    BY <2>2 DEF Requested
<1> QED
  BY <1>1, <1>2

\* Of two listening machines the one that has something to read has the turn,
\* or both have joined at once.
LEMMA TurnIs ==
    ASSUME NEW a, NEW b, NEW x, NEW y, Hears(a), Hears(b), x # <<>>, Agree(a, x, b, y)
    PROVE  (y = <<>> /\ Len(x) = 1 /\ Turn(a, x[1], b)) \/ Twice(a, x, b, y)
<1>1. Half(a, x, b, y) \/ Half(b, y, a, x)
  BY DEF Agree
<1>2. CASE Half(a, x, b, y)
  BY <1>2 DEF Half, Silent
<1>3. CASE Half(b, y, a, x)
  BY <1>3 DEF Half, Silent, Twice
<1> QED
  BY <1>1, <1>2, <1>3

\* p opens the multiplayer menu.
LEMMA JoinAgrees ==
    ASSUME NEW b \in At, NEW x, Agree(Away, x, b, <<>>), x = <<>> \/ x = <<"J">>
    PROVE  Agree(Joining, x, b, <<>>)
<1>1. x = <<"J">> => Requested(x)
  BY DEF Requested
<1>2. b # First /\ (b = Joining => x = <<>>) /\ (b = Second => x = <<>>)
  BY <1>1, Apart DEF Agree, Rejoins, Plays
<1>3. Rejoins(b, <<>>, x)
  BY <1>1, <1>2, Apart DEF Agree, Rejoins, Left, At, Hears
<1> QED
  BY <1>2, <1>3, Apart DEF Agree, Left, Rejoins, Plays

\* Its first tick there sends the request.
LEMMA CleanupAgrees ==
    ASSUME NEW b, NEW x, NEW y, Agree(Joining, x, b, y)
    PROVE  y = <<>> /\ Agree(0, x, b, <<"J">>)
<1>1. y = <<>> /\ b # First /\ (x = <<>> \/ (x = <<"J">> /\ (b = 0 \/ b = Away)))
  BY DEF Agree, Rejoins
<1>2. b = Joining => x = <<>>
  BY DEF Agree, Rejoins
<1>3. Hears(0)
  BY Apart
<1>4. Hears(b) => Half(0, x, b, <<"J">>) \/ Half(b, <<"J">>, 0, x)
  BY <1>1, <1>3 DEF Half, Turn, Twice, Hears, Linking, Linked, Away
<1>5. b = Away => Left(0, x, <<"J">>)
  <2>1. (x = <<>> \/ Len(x) = 1) /\ 0 # 15
    BY <1>1
  <2> QED
    BY <1>1, <2>1, Apart DEF Left
<1> QED
  BY <1>1, <1>2, <1>3, <1>4, <1>5, Apart DEF Agree, Rejoins, Plays

\* p leaves it, or gives up.
LEMMA AwayAgrees ==
    ASSUME NEW S, NEW a, NEW b, NEW x, NEW y \in Seq(S), NEW x2, Agree(a, x, b, y),
           Hears(a) \/ a = Joining, x = <<>> => x2 = <<>>, Requested(x2) => Requested(x)
    PROVE  Agree(Away, x2, b, y)
<1>1. b # First
  BY Apart DEF Agree
<1>2. b = Away => Left(Away, x2, y)
  BY Apart DEF Left
<1>3. b = Joining => Rejoins(Away, x2, y)
  BY Apart DEF Agree, Rejoins
<1>4. b = Second => ~Requested(x2)
  <2>1. ~Requested(<<>>) /\ ~Requested(<<"O">>)
    BY DEF Requested
  <2> QED
    BY <2>1, Apart DEF Agree, Plays
<1>5. Left(b, y, x2)
  <2>1. CASE Hears(b) /\ Hears(a)
    <3>1. y = <<>> \/ Len(y) = 1 \/ (b = 0 /\ Len(y) = 2)
      BY <2>1 DEF Agree, Half, Twice, Silent
    <3>2. (b = 15 /\ y # <<>>) => y[1] # "O"
      BY <2>1 DEF Agree, Half, Twice, Silent, Turn
    <3>3. Requested(x) => b = 0 /\ (y = <<>> \/ y = <<"J">>)
      <4>1. SUFFICES ASSUME Requested(x) PROVE b = 0 /\ (y = <<>> \/ y = <<"J">>)
        OBVIOUS
      <4>2. x # <<>>
        BY <4>1 DEF Requested
      <4>3. (y = <<>> /\ Len(x) = 1 /\ Turn(a, x[1], b)) \/ Twice(a, x, b, y)
        BY <2>1, <4>2, TurnIs
      <4>4. Len(x) = 1 => x[1] = "J"
        BY <4>1 DEF Requested
      <4>5. Twice(a, x, b, y) => b = 0 /\ (y = <<>> \/ y = <<"J">>)
        BY <4>1 DEF Twice, Requested
      <4>6. Turn(a, "J", b) => b = 0
        BY DEF Turn, UART_SYNC_PASSWORD, UART_SYNC_RESPONSE
      <4> QED
        BY <4>3, <4>4, <4>5, <4>6
    <3> QED
      BY <3>1, <3>2, <3>3, <2>1, Apart DEF Left
  <2>2. CASE Hears(b) /\ a = Joining
    <3>1. y = <<>> /\ (x = <<>> \/ (x = <<"J">> /\ b = 0))
      BY <2>2, Apart DEF Agree, Rejoins
    <3>2. ~Requested(<<>>) /\ Len(<<>>) = 0
      BY DEF Requested
    <3> QED
      BY <3>1, <3>2, <2>2, Apart DEF Left
  <2>3. CASE ~Hears(b)
    BY <2>3, <1>1, <1>4 DEF Left
  <2> QED
    BY <2>1, <2>2, <2>3
<1> QED
  BY <1>1, <1>2, <1>3, <1>4, <1>5, Apart DEF Agree, Plays

\* A byte reaches a machine that is not listening, which will drain it.
LEMMA DrainAgrees ==
    ASSUME NEW S, NEW a, NEW b, NEW x \in Seq(S), NEW y, Agree(a, x, b, y),
           ~Hears(a), x # <<>>
    PROVE  Agree(a, Tail(x), b, y)
<1>1. Requested(Tail(x)) => Requested(x)
  BY RequestedTail
<1>2. x = <<"J">> => Tail(x) = <<>>
  BY Short
<1>3. a = Away => Left(b, y, Tail(x))
  BY <1>1 DEF Agree, Left
<1>4. a = Joining => Rejoins(b, y, Tail(x))
  BY <1>2 DEF Agree, Rejoins
<1>5. b = Away => Left(a, Tail(x), y)
  BY DEF Agree, Left
<1>6. b # Joining
  BY DEF Agree, Rejoins
<1>7. b = Second => Plays(a, Tail(x))
  BY <1>1, Apart DEF Agree, Plays
<1> QED
  BY <1>3, <1>4, <1>5, <1>6, <1>7 DEF Agree

\* A listening machine reads the next byte, moves to stage a2 and leaves y2 to
\* be read.  Only what it does to a listening partner depends on the byte.
LEMMA ReadAgrees ==
    ASSUME NEW S, NEW a, NEW b \in At, NEW x \in Seq(S), NEW y, Agree(a, x, b, y),
           Hears(a), x # <<>>,
           NEW a2, NEW x2, NEW y2, Hears(a2) \/ a2 = Second \/ a2 = First,
           Hears(a2) => x2 = Tail(x), Requested(y2) => Requested(y),
           (a = 0 /\ x[1] = "J") => a2 = 0, a = 0 => Hears(a2) /\ a2 # 15,
           a2 = First => a = 15 /\ x[1] = "O",
           (a = 15 /\ x[1] = "O") => a2 = First,
           Hears(b) => Agree(a2, x2, b, y2)
    PROVE  Agree(a2, x2, b, y2)
<1>1. b # Joining /\ b # First
  BY Apart DEF Agree, Rejoins
<1>2. b = Second => a2 = First
  <2>1. SUFFICES ASSUME b = Second PROVE a2 = First
    OBVIOUS
  <2>2. a = 15 /\ x = <<"O">>
    BY <2>1, Apart DEF Agree, Plays
  <2> QED
    BY <2>2
<1>3. b = Away => Left(a2, x2, y2)
  <2>1. SUFFICES ASSUME b = Away PROVE Left(a2, x2, y2)
    OBVIOUS
  <2>2. /\ Len(x) = 1 \/ (a = 0 /\ Len(x) = 2)
        /\ a = 15 => x[1] # "O"
        /\ Requested(y) => (a = 0 /\ x = <<"J">>)
    BY <2>1 DEF Agree, Left
  <2>3. a2 # First
    BY <2>2
  <2>4. Requested(y2) => a2 = 0 /\ Hears(a2) /\ x2 = <<>>
    <3>1. <<"J">>[1] = "J" /\ Tail(<<"J">>) = <<>>
      OBVIOUS
    <3> QED
      BY <2>2, <3>1
  <2>5. Hears(a2) => x2 = <<>> \/ (Len(x2) = 1 /\ a2 # 15)
    BY <2>2, Short
  <2> QED
    BY <2>3, <2>4, <2>5, Apart DEF Left
<1> QED
  <2>1. CASE Hears(b)
    BY <2>1
  <2>2. CASE b = Away
    BY <2>2, <1>3, Apart DEF Agree, Left, Plays
  <2>3. CASE b = Second
    BY <2>3, <1>2, Apart DEF Agree, Plays
  <2> QED
    BY <1>1, <2>1, <2>2, <2>3 DEF At, Hears

\* The reads of uart_sync_link between two listening machines.
LEMMA LinkReads ==
    ASSUME NEW S, NEW a \in Linking, NEW b, NEW x \in Seq(S), NEW y, Agree(a, x, b, y),
           Hears(b), x # <<>>
    PROVE  /\ (x[1] = "O" /\ a = 5) => Agree(10, Tail(x), b, Append(y, "P"))
           /\ (x[1] = "O" /\ a # 5) =>
                Agree(a + 1, Tail(x), b, Append(y, UART_SYNC_PASSWORD[a + 1]))
           /\ x[1] = "J" => /\ Agree(0, Tail(x), b, Append(y, "O"))
                            /\ Agree(0, Tail(x), b, <<"O">>)
                            /\ y = <<>> \/ y = <<"J">>
           /\ (x[1] \notin {"O", "J"} /\ a # 5 /\ x[1] = UART_SYNC_PASSWORD[a + 1]) =>
                Agree(IF a = 4 THEN 10 ELSE a + 1, Tail(x), b, Append(y, "O"))
           /\ (x[1] \notin {"O", "J"} /\ (a # 5 => x[1] # UART_SYNC_PASSWORD[a + 1])) =>
                Agree(a, Tail(x), b, y)
<1>1. Hears(a) /\ a \in 0..5
  BY DEF Hears, Linking
<1>2. (y = <<>> /\ Len(x) = 1 /\ Turn(a, x[1], b)) \/ Twice(a, x, b, y)
  BY <1>1, TurnIs
<1>3. \A c, e : Tail(<<c>>) = <<>> /\ Tail(<<c, e>>) = <<e>> /\ <<c>>[1] = c /\ <<c, e>>[1] = c
                /\ Append(<<>>, e) = <<e>> /\ Append(<<c>>, e) = <<c, e>> /\ Len(<<c>>) = 1
  BY Tuples
<1>4. ASSUME NEW a2, NEW x2, NEW y2, Hears(a2), Half(a2, x2, b, y2) \/ Half(b, y2, a2, x2)
      PROVE  Agree(a2, x2, b, y2)
  BY <1>4, Apart DEF Agree
<1>5. /\ UART_SYNC_PASSWORD[1] = "S" /\ UART_SYNC_PASSWORD[2] = "T" /\ UART_SYNC_PASSWORD[3] = "A"
      /\ UART_SYNC_PASSWORD[4] = "R" /\ UART_SYNC_PASSWORD[5] = "T"
      /\ UART_SYNC_RESPONSE[1] = "B" /\ UART_SYNC_RESPONSE[2] = "E" /\ UART_SYNC_RESPONSE[3] = "G"
      /\ UART_SYNC_RESPONSE[4] = "I" /\ UART_SYNC_RESPONSE[5] = "N"
  BY DEF UART_SYNC_PASSWORD, UART_SYNC_RESPONSE
<1>6. CASE y = <<>> /\ Len(x) = 1 /\ Turn(a, x[1], b)
  <2>1. x = <<x[1]>> /\ Tail(x) = <<>> /\ \A e : Append(y, e) = <<e>>
    BY <1>3, <1>6, Short
  <2>2. CASE x[1] = "O" /\ a = 5
    <3>1. b = 10
      BY <2>2, <1>6, <1>5 DEF Turn
    <3>2. Half(b, <<"P">>, 10, <<>>)
      BY <3>1 DEF Half, Turn
    <3> QED
      BY <2>1, <2>2, <3>2, <1>4, Apart
  <2>3. CASE x[1] = "O" /\ a # 5
    <3>1. b = a /\ a \in 0..4
      BY <2>3, <1>1, <1>6, <1>5 DEF Turn
    <3>2. Half(b, <<UART_SYNC_PASSWORD[a + 1]>>, a + 1, <<>>)
      BY <3>1 DEF Half, Turn
    <3>3. Hears(a + 1)
      BY <3>1, Apart
    <3> QED
      BY <2>1, <2>3, <3>2, <3>3, <1>4
  <2>4. CASE x[1] = "J"
    <3>1. b = 0
      BY <2>4, <1>1, <1>6, <1>5 DEF Turn
    <3>2. Half(b, <<"O">>, 0, <<>>)
      BY <3>1 DEF Half, Turn
    <3> QED
      BY <1>6, <2>1, <2>4, <3>2, <1>4, Apart
  <2>5. CASE x[1] \notin {"O", "J"} /\ a # 5 /\ x[1] = UART_SYNC_PASSWORD[a + 1]
    <3>1. a \in 0..4 /\ (b = a + 1 \/ (x[1] = "S" /\ a = 1))
      BY <2>5, <1>1, <1>6, <1>5 DEF Turn
    <3>2. b = a + 1
      BY <3>1, <2>5, <1>5
    <3>3. Half(b, <<"O">>, IF a = 4 THEN 10 ELSE a + 1, <<>>)
      BY <3>1, <3>2 DEF Half, Turn
    <3>4. Hears(IF a = 4 THEN 10 ELSE a + 1)
      BY <3>1 DEF Hears, Linking, Linked
    <3> QED
      BY <2>1, <2>5, <3>3, <3>4, <1>4
  <2>6. CASE x[1] \notin {"O", "J"} /\ (a # 5 => x[1] # UART_SYNC_PASSWORD[a + 1])
    <3>1. a = 1 /\ b = 1
      BY <2>6, <1>1, <1>6 DEF Turn
    <3>2. Half(a, <<>>, b, <<>>)
      BY <3>1 DEF Half, Silent
    <3> QED
      BY <1>1, <1>6, <2>1, <2>6, <3>2, <1>4
  <2> QED
    BY <2>2, <2>3, <2>4, <2>5, <2>6
<1>7. CASE Twice(a, x, b, y)
  <2>1. CASE a = 0 /\ b = 0 /\ x = <<"J">> /\ y = <<"J">>
    <3>1. Half(b, <<"O">>, 0, <<>>) /\ Half(b, <<"J", "O">>, 0, <<>>)
      BY <2>1 DEF Half, Turn, Twice
    <3>2. x[1] = "J" /\ Tail(x) = <<>> /\ Append(y, "O") = <<"J", "O">>
      BY <2>1, <1>3
    <3>3. Agree(0, <<>>, b, <<"O">>) /\ Agree(0, <<>>, b, <<"J", "O">>)
      BY <3>1, <1>4, Apart
    <3> QED
      BY <2>1, <3>2, <3>3
  <2>2. CASE a = 0 /\ b = 0 /\ x = <<"J", "O">> /\ y = <<>>
    <3>1. Half(0, <<"O">>, b, <<"O">>)
      BY <2>2 DEF Half, Twice
    <3> QED
      BY <2>2, <3>1, <1>3, <1>4, Apart
  <2>3. CASE a = 0 /\ b = 0 /\ x = <<"O">> /\ y = <<"O">>
    <3>1. Half(b, <<"O", "S">>, 1, <<>>)
      BY <2>3 DEF Half, Twice
    <3>2. Hears(1) /\ a + 1 = 1 /\ 0 # 5
      BY <2>3, Apart
    <3>3. x[1] = "O" /\ Tail(x) = <<>> /\ Append(y, "S") = <<"O", "S">>
      BY <2>3, <1>3
    <3>4. Agree(1, <<>>, b, <<"O", "S">>)
      BY <3>1, <3>2, <1>4
    <3> QED
      BY <2>3, <3>2, <3>3, <3>4, <1>5
  <2>4. CASE a = 0 /\ b = 1 /\ x = <<"O", "S">> /\ y = <<>>
    <3>1. Half(1, <<"S">>, b, <<"S">>)
      BY <2>4 DEF Half, Twice
    <3>2. Hears(1) /\ a + 1 = 1 /\ 0 # 5
      BY <2>4, Apart
    <3> QED
      BY <2>4, <3>1, <3>2, <1>3, <1>4, <1>5
  <2>5. CASE a = 1 /\ b = 1 /\ x = <<"S">> /\ y = <<"S">>
    <3>1. Half(b, <<"S">>, 1, <<>>)
      BY <2>5 DEF Half, Turn
    <3>2. Hears(1) /\ a + 1 = 2 /\ 1 # 5
      BY <2>5, Apart
    <3> QED
      BY <2>5, <3>1, <3>2, <1>3, <1>4, <1>5
  <2> QED
    BY <1>7, <2>1, <2>2, <2>3, <2>4, <2>5 DEF Twice
<1> QED
  BY <1>2, <1>6, <1>7

\* The reads of uart_sync_connect.
LEMMA ConnectReads ==
    ASSUME NEW S, NEW a \in Linked, NEW b, NEW x \in Seq(S), NEW y, Agree(a, x, b, y),
           Hears(b), x # <<>>
    PROVE  /\ y = <<>> /\ Tail(x) = <<>>
           /\ x[1] = "O" => a # 15 /\ Agree(a + 1, <<>>, b, <<UART_SYNC_RESPONSE[a - 9]>>)
           /\ x[1] = "P" => Agree(11, <<>>, b, <<"B">>)
           /\ (x[1] \notin {"O", "P"} /\ a < 14 /\ x[1] = UART_SYNC_RESPONSE[a - 9]) =>
                Agree(a + 1, <<>>, b, <<"O">>)
           /\ (x[1] \notin {"O", "P"} /\ a = 14 /\ x[1] = UART_SYNC_RESPONSE[a - 9]) =>
                \A x2 : Agree(Second, x2, b, <<"O">>) /\ Agree(Second, x2, b, <<>>)
           /\ (x[1] \notin {"O", "P"} /\ (a < 15 => x[1] # UART_SYNC_RESPONSE[a - 9])) =>
                Agree(a, <<>>, b, <<>>)
<1>1. Hears(a) /\ a \in 10..15
  BY DEF Hears, Linked
<1>2. ~Twice(a, x, b, y)
  BY <1>1 DEF Twice
<1>3. y = <<>> /\ Len(x) = 1 /\ Turn(a, x[1], b)
  BY <1>1, <1>2, TurnIs
<1>4. Tail(x) = <<>>
  BY <1>3, Short
<1>5. ASSUME NEW a2, NEW x2, NEW y2, Hears(a2), Half(a2, x2, b, y2) \/ Half(b, y2, a2, x2)
      PROVE  Agree(a2, x2, b, y2)
  BY <1>5, Apart DEF Agree
<1>6. /\ UART_SYNC_RESPONSE[1] = "B" /\ UART_SYNC_RESPONSE[2] = "E" /\ UART_SYNC_RESPONSE[3] = "G"
      /\ UART_SYNC_RESPONSE[4] = "I" /\ UART_SYNC_RESPONSE[5] = "N"
  BY DEF UART_SYNC_RESPONSE
<1>7. \/ x[1] = "J" /\ b = 0
      \/ x[1] = "P" /\ a = 10 /\ b = 10
      \/ a \in 10..14 /\ x[1] = UART_SYNC_RESPONSE[a - 9] /\ b = a + 1
      \/ x[1] = "O" /\ a \in 11..14 /\ b = a
  BY <1>1, <1>3 DEF Turn
<1>8. CASE x[1] = "O"
  <2>1. a \in 11..14 /\ b = a
    BY <1>6, <1>7, <1>8
  <2>2. Half(b, <<UART_SYNC_RESPONSE[a - 9]>>, a + 1, <<>>)
    BY <2>1 DEF Half, Turn
  <2>3. Hears(a + 1)
    BY <2>1 DEF Hears, Linked
  <2> QED
    BY <1>3, <1>4, <1>8, <2>1, <2>2, <2>3, <1>5
<1>9. CASE x[1] = "P"
  <2>1. a = 10 /\ b = 10
    BY <1>6, <1>7, <1>9
  <2>2. Half(b, <<"B">>, 11, <<>>)
    BY <2>1, <1>6 DEF Half, Turn
  <2>3. Hears(11)
    BY DEF Hears, Linked
  <2> QED
    BY <1>3, <1>4, <1>6, <1>9, <2>1, <2>2, <2>3, <1>5
<1>10. CASE x[1] = "J"
  <2>1. b = 0
    BY <1>6, <1>7, <1>10
  <2>2. Half(a, <<>>, b, <<>>)
    BY <1>1, <2>1 DEF Half, Silent, Linked
  <2>3. a < 15 => x[1] # UART_SYNC_RESPONSE[a - 9]
    BY <1>1, <1>6, <1>10
  <2> QED
    BY <1>1, <1>3, <1>4, <1>10, <2>2, <2>3, <1>5
<1>11. CASE x[1] \notin {"O", "P", "J"}
  <2>1. a \in 10..14 /\ x[1] = UART_SYNC_RESPONSE[a - 9] /\ b = a + 1
    BY <1>7, <1>11
  <2>2. a < 14 => Half(b, <<"O">>, a + 1, <<>>) /\ Hears(a + 1)
    BY <2>1 DEF Half, Turn, Hears, Linked
  <2>3. a = 14 => Plays(b, <<"O">>) /\ Plays(b, <<>>) /\ b = 15
    BY <2>1 DEF Plays
  <2>4. a = 14 => \A x2 : Agree(Second, x2, b, <<"O">>) /\ Agree(Second, x2, b, <<>>)
    BY <2>3, Apart DEF Agree
  <2> QED
    BY <1>3, <1>4, <1>11, <2>1, <2>2, <2>4, <1>5
<1> QED
  BY <1>8, <1>9, <1>10, <1>11

-----------------------------------------------------------------------------
(* What one machine does with its share of the state, whatever the other   *)
(* one is doing.  A byte sent is not the NUL behind a string; B are the    *)
(* bytes it may find in its in_fifo, C what its can_send may be.           *)

Sent == Byte \ {"NUL", "beyond"}

Index == 0..5
Side == 0..2

LocalSet(B, C) == [ns : NetworkState, ix : Index, tr : 0..SyncTries, pl : Side, can : C,
                   out : Seq(Sent), in : Seq(B), sent : Seq(Sent)]

\* Bytes wait in out_fifo only behind one that is being sent.
InOrder(l) == l.can => l.out = <<>>

\* What the machine has sent in this tick and before, and is not on the wire.
Flow(l) == l.sent \o l.out

\* l and m differ in the bytes they send at most.
SameButFlow(l, m) == m.ns = l.ns /\ m.ix = l.ix /\ m.tr = l.tr /\ m.pl = l.pl /\ m.in = l.in

LEMMA AppendLater ==
    ASSUME NEW S, NEW s \in Seq(S), NEW t \in Seq(S), NEW e \in S
    PROVE  s \o Append(t, e) = Append(s \o t, e)
<1>1. Append(t, e) = t \o <<e>> /\ Append(s \o t, e) = (s \o t) \o <<e>>
  BY AppendIsConcat, ConcatProperties
<1>2. <<e>> \in Seq(S)
  OBVIOUS
<1> QED
  BY <1>1, <1>2, ConcatAssociative

LEMMA Transmits ==
    ASSUME NEW B, NEW C, NEW l \in LocalSet(B, C), InOrder(l), NEW b \in Sent
    PROVE  /\ uart_safe_transmit(l, b) \in LocalSet(B, C)
           /\ InOrder(uart_safe_transmit(l, b))
           /\ SameButFlow(l, uart_safe_transmit(l, b))
           /\ Flow(uart_safe_transmit(l, b)) = Append(Flow(l), b)
           /\ \/ uart_safe_transmit(l, b).sent = Append(Flow(l), b)
              \/ uart_safe_transmit(l, b).sent = l.sent
<1>0. PICK m : m = uart_safe_transmit(l, b)
  OBVIOUS
<1>1. l.sent \in Seq(Sent) /\ l.out \in Seq(Sent)
  BY DEF LocalSet
<1>2. Append(l.sent, b) \in Seq(Sent) /\ Append(l.out, b) \in Seq(Sent)
  BY <1>1
<1>3. CASE l.can
  <2>1. m = [l EXCEPT !.sent = Append(l.sent, b)]
    BY <1>0, <1>3, Zenon DEF uart_safe_transmit
  <2>2. m \in LocalSet(B, C) /\ m.out = l.out /\ m.sent = Append(l.sent, b) /\ SameButFlow(l, m)
    BY <1>2, <2>1 DEF LocalSet, SameButFlow
  <2>3. m.can = l.can
    BY <2>1, Zenon DEF LocalSet
  <2>4. l.out = <<>>
    BY <1>3 DEF InOrder
  <2>5. Flow(l) = l.sent /\ Flow(m) = m.sent
    BY <1>1, <1>2, <2>2, <2>4, ConcatEmptySeq DEF Flow
  <2> QED
    BY <1>0, <2>2, <2>4, <2>5, Zenon DEF InOrder
<1>4. CASE ~l.can
  <2>1. m = [l EXCEPT !.out = Append(l.out, b)]
    BY <1>0, <1>4, Zenon DEF uart_safe_transmit
  <2>2. m \in LocalSet(B, C) /\ m.sent = l.sent /\ m.out = Append(l.out, b) /\ SameButFlow(l, m)
    BY <1>2, <2>1 DEF LocalSet, SameButFlow
  <2>3. m.can = l.can
    BY <2>1, Zenon DEF LocalSet
  <2>4. l.sent \o Append(l.out, b) = Append(l.sent \o l.out, b)
    <3>1. PICK s \in Seq(Sent), t \in Seq(Sent) : s = l.sent /\ t = l.out
      BY <1>1
    <3>2. s \o Append(t, b) = Append(s \o t, b)
      BY AppendLater
    <3> QED
      BY <3>1, <3>2, Zenon
  <2> QED
    BY <1>0, <1>4, <2>2, <2>3, <2>4, Zenon DEF Flow, InOrder
<1> QED
  BY <1>0, <1>3, <1>4, Zenon

LEMMA Empties ==
    ASSUME NEW B, NEW C, NEW l \in LocalSet(B, C)
    PROVE  /\ empty_transmit_queue(l) \in LocalSet(B, C) /\ InOrder(empty_transmit_queue(l))
           /\ SameButFlow(l, empty_transmit_queue(l))
           /\ Flow(empty_transmit_queue(l)) = l.sent /\ empty_transmit_queue(l).sent = l.sent
<1>0. PICK m : m = empty_transmit_queue(l)
  OBVIOUS
<1>1. l.sent \in Seq(Sent) /\ <<>> \in Seq(Sent)
  BY DEF LocalSet
<1>2. m = [l EXCEPT !.out = <<>>]
  BY <1>0 DEF empty_transmit_queue
<1>3. m \in LocalSet(B, C) /\ m.out = <<>> /\ m.sent = l.sent /\ SameButFlow(l, m)
  BY <1>1, <1>2 DEF LocalSet, SameButFlow
<1>4. InOrder(m) /\ Flow(m) = l.sent
  BY <1>1, <1>3, ConcatEmptySeq DEF InOrder, Flow
<1> QED
  BY <1>0, <1>3, <1>4, Zenon

\* The byte at the head of in_fifo is taken.
LEMMA Takes ==
    ASSUME NEW B, NEW C, NEW l \in LocalSet(B, C), l.in # <<>>, NEW m, m = [l EXCEPT !.in = Tail(@)]
    PROVE  /\ m \in LocalSet(B, C) /\ (InOrder(l) => InOrder(m)) /\ Flow(m) = Flow(l)
           /\ m.ns = l.ns /\ m.ix = l.ix /\ m.tr = l.tr /\ m.pl = l.pl /\ m.in = Tail(l.in)
           /\ m.sent = l.sent
<1>1. Tail(l.in) \in Seq(B)
  BY HeadTailProperties DEF LocalSet
<1>2. /\ m \in LocalSet(B, C) /\ m.out = l.out /\ m.sent = l.sent
      /\ m.ns = l.ns /\ m.ix = l.ix /\ m.tr = l.tr /\ m.pl = l.pl /\ m.in = Tail(l.in)
  BY <1>1 DEF LocalSet
<1>3. m.can = l.can
  BY Zenon DEF LocalSet
<1> QED
  BY <1>2, <1>3 DEF Flow, InOrder

\* The machine moves on to another state of the handshake.
Moved(l, ns, ix, pl) == [l EXCEPT !.ns = ns, !.ix = ix, !.pl = pl]

LEMMA Moves ==
    ASSUME NEW B, NEW C, NEW l \in LocalSet(B, C), InOrder(l), NEW ns \in NetworkState, NEW ix \in Index,
           NEW pl \in Side
    PROVE  /\ Moved(l, ns, ix, pl) \in LocalSet(B, C) /\ InOrder(Moved(l, ns, ix, pl))
           /\ Flow(Moved(l, ns, ix, pl)) = Flow(l) /\ Moved(l, ns, ix, pl).sent = l.sent
           /\ Moved(l, ns, ix, pl).ns = ns /\ Moved(l, ns, ix, pl).ix = ix
           /\ Moved(l, ns, ix, pl).pl = pl /\ Moved(l, ns, ix, pl).tr = l.tr
           /\ Moved(l, ns, ix, pl).in = l.in
<1>1. PICK m : m = Moved(l, ns, ix, pl)
  OBVIOUS
<1>2. m = [l EXCEPT !.ns = ns, !.ix = ix, !.pl = pl]
  BY <1>1 DEF Moved
<1>3. /\ m \in LocalSet(B, C) /\ m.out = l.out /\ m.sent = l.sent
      /\ m.ns = ns /\ m.ix = ix /\ m.tr = l.tr /\ m.pl = pl /\ m.in = l.in
  BY <1>2 DEF LocalSet
<1>4. m.can = l.can
  BY <1>2, Zenon DEF LocalSet
<1>5. InOrder(m) /\ Flow(m) = Flow(l)
  BY <1>3, <1>4 DEF Flow, InOrder
<1> QED
  BY <1>1, <1>3, <1>5, Zenon

LEMMA Strings ==
    /\ \A i \in 0..4 : /\ CharAt(UART_SYNC_PASSWORD, i) = UART_SYNC_PASSWORD[i + 1]
                       /\ UART_SYNC_PASSWORD[i + 1] \in Sent \ {"O", "J", "P"}
                       /\ CharAt(UART_SYNC_RESPONSE, i) = UART_SYNC_RESPONSE[i + 1]
                       /\ UART_SYNC_RESPONSE[i + 1] \in Sent \ {"O", "J", "P"}
    /\ CharAt(UART_SYNC_PASSWORD, 5) = "NUL" /\ CharAt(UART_SYNC_RESPONSE, 5) = "NUL"
    /\ UART_PASSWORD_SIZE = 5 /\ UART_SYNC_RESPONSE[1] = "B"
    /\ {"O", "J", "P", "B"} \subseteq Sent /\ Sent \subseteq Byte /\ UART_ERROR_CODE \notin Byte
<1>1. Len(UART_SYNC_PASSWORD) = 5 /\ Len(UART_SYNC_RESPONSE) = 5
  BY DEF UART_SYNC_PASSWORD, UART_SYNC_RESPONSE
<1>2. /\ UART_SYNC_PASSWORD[1] = "S" /\ UART_SYNC_PASSWORD[2] = "T" /\ UART_SYNC_PASSWORD[3] = "A"
      /\ UART_SYNC_PASSWORD[4] = "R" /\ UART_SYNC_PASSWORD[5] = "T"
      /\ UART_SYNC_RESPONSE[1] = "B" /\ UART_SYNC_RESPONSE[2] = "E" /\ UART_SYNC_RESPONSE[3] = "G"
      /\ UART_SYNC_RESPONSE[4] = "I" /\ UART_SYNC_RESPONSE[5] = "N"
  BY DEF UART_SYNC_PASSWORD, UART_SYNC_RESPONSE
<1>3. Byte = {"J", "O", "P", "NUL", "beyond", "other", "S", "T", "A", "R", "B", "E", "G", "I", "N"}
  BY <1>1, <1>2 DEF Byte
<1>4. Sent = {"J", "O", "P", "other", "S", "T", "A", "R", "B", "E", "G", "I", "N"}
  BY <1>3 DEF Sent
<1>5. \A i \in 0..4 : /\ UART_SYNC_PASSWORD[i + 1] \in Sent \ {"O", "J", "P"}
                      /\ UART_SYNC_RESPONSE[i + 1] \in Sent \ {"O", "J", "P"}
  BY <1>2, <1>4
<1>6. /\ \A i \in 0..4 : /\ CharAt(UART_SYNC_PASSWORD, i) = UART_SYNC_PASSWORD[i + 1]
                         /\ CharAt(UART_SYNC_RESPONSE, i) = UART_SYNC_RESPONSE[i + 1]
      /\ CharAt(UART_SYNC_PASSWORD, 5) = "NUL" /\ CharAt(UART_SYNC_RESPONSE, 5) = "NUL"
  BY <1>1 DEF CharAt
<1> QED
  BY <1>1, <1>2, <1>3, <1>4, <1>5, <1>6 DEF UART_PASSWORD_SIZE, UART_ERROR_CODE

\* uart_sync_link, one byte c at a time.
LEMMA LinkIs ==
    ASSUME NEW B, NEW C, NEW l \in LocalSet(B, C), InOrder(l), l.in # <<>>, NEW c, c = Head(l.in),
           c # "NUL", NEW r, r = uart_sync_link(l)
    PROVE  /\ r.l \in LocalSet(B, C) /\ InOrder(r.l) /\ r.l.in = Tail(l.in)
           /\ r.l.pl = l.pl /\ r.l.tr = l.tr
           /\ c = UART_ERROR_CODE => r.err = 1 /\ r.l.ns = l.ns /\ r.l.ix = l.ix
           /\ (c = "O" /\ l.ix = 5) =>
                r.err = 0 /\ r.l.ns = "LINKED" /\ r.l.ix = 0 /\ Flow(r.l) = Append(Flow(l), "P")
           /\ (c = "O" /\ l.ix # 5) =>
                /\ r.err = 0 /\ r.l.ns = l.ns /\ r.l.ix = l.ix + 1
                /\ Flow(r.l) = Append(Flow(l), UART_SYNC_PASSWORD[l.ix + 1])
           /\ c = "J" =>
                r.err = 0 /\ r.l.ns = l.ns /\ r.l.ix = 0 /\ Flow(r.l) = Append(l.sent, "O")
           /\ (l.ix # 5 /\ c = UART_SYNC_PASSWORD[l.ix + 1]) =>
                /\ r.err = 0 /\ Flow(r.l) = Append(Flow(l), "O")
                /\ l.ix = 4 => r.l.ns = "LINKED" /\ r.l.ix = 0
                /\ l.ix # 4 => r.l.ns = l.ns /\ r.l.ix = l.ix + 1
           /\ (c \notin {UART_ERROR_CODE, "O", "J"} /\ (l.ix # 5 => c # UART_SYNC_PASSWORD[l.ix + 1]))
                => r.err = 2 /\ r.l.ns = l.ns /\ r.l.ix = l.ix /\ Flow(r.l) = Flow(l)
<1>1. l.ix \in 0..5 /\ l.pl \in Side /\ l.ns \in NetworkState /\ "LINKED" \in NetworkState
  BY DEF LocalSet, NetworkState, Index
<1>2. PICK k : k = [l EXCEPT !.in = Tail(@)]
  OBVIOUS
<1>3. /\ k \in LocalSet(B, C) /\ InOrder(k) /\ Flow(k) = Flow(l) /\ k.sent = l.sent
      /\ k.ns = l.ns /\ k.ix = l.ix /\ k.tr = l.tr /\ k.pl = l.pl /\ k.in = Tail(l.in)
  BY <1>2, Takes
<1>4. ASSUME NEW m, NEW e PROVE Outcome(m, e).l = m /\ Outcome(m, e).err = e
  BY DEF Outcome
<1>5. "O" \in Sent /\ "P" \in Sent
  BY Strings
<1>6. CASE c = UART_ERROR_CODE
  <2>1. r = Outcome(k, 1)
    BY <1>1, <1>2, <1>3, <1>6, Strings DEF uart_sync_link, UART_ERROR_CODE
  <2> QED
    BY <1>1, <1>3, <1>4, <1>6, <2>1, Strings DEF UART_ERROR_CODE
<1>7. CASE c = "O" /\ l.ix = 5
  <2>1. PICK m : m = [k EXCEPT !.ns = "LINKED", !.ix = 0]
    OBVIOUS
  <2>2. PICK n : n = uart_safe_transmit(m, "P")
    OBVIOUS
  <2>3. r = Outcome(n, 0)
    BY <1>1, <1>2, <1>3, <1>7, <2>1, <2>2, Strings DEF uart_sync_link, UART_ERROR_CODE
  <2>4. m = Moved(k, "LINKED", 0, k.pl)
    BY <2>1, <1>3 DEF LocalSet, Moved
  <2>5. /\ m \in LocalSet(B, C) /\ InOrder(m) /\ Flow(m) = Flow(k)
        /\ m.ns = "LINKED" /\ m.ix = 0 /\ m.tr = k.tr /\ m.pl = k.pl /\ m.in = k.in
    <3>1. 0 \in Index /\ k.pl \in Side
      BY <1>1, <1>3 DEF Index
    <3> QED
      BY <1>1, <1>3, <2>4, <3>1, Moves
  <2>6. n \in LocalSet(B, C) /\ InOrder(n) /\ SameButFlow(m, n) /\ Flow(n) = Append(Flow(m), "P")
    BY <2>2, <2>5, <1>5, Transmits
  <2> QED
    BY <1>1, <1>3, <1>4, <1>7, <2>3, <2>5, <2>6 DEF SameButFlow, UART_ERROR_CODE
<1>8. CASE c = "O" /\ l.ix # 5
  <2>1. PICK m : m = uart_safe_transmit(k, UART_SYNC_PASSWORD[l.ix + 1])
    OBVIOUS
  <2>2. PICK n : n = [m EXCEPT !.ix = @ + 1]
    OBVIOUS
  <2>3. l.ix \in 0..4
    BY <1>1, <1>8
  <2>4. r = Outcome(n, 0)
    BY <1>1, <1>2, <1>3, <1>8, <2>1, <2>2, <2>3, Strings DEF uart_sync_link, UART_ERROR_CODE
  <2>5. /\ m \in LocalSet(B, C) /\ InOrder(m) /\ SameButFlow(k, m)
        /\ Flow(m) = Append(Flow(k), UART_SYNC_PASSWORD[l.ix + 1])
    <3>1. UART_SYNC_PASSWORD[l.ix + 1] \in Sent
      BY <2>3, Strings
    <3> QED
      BY <1>3, <2>1, <3>1, Transmits
  <2>6. n = Moved(m, m.ns, l.ix + 1, m.pl)
    BY <1>3, <2>2, <2>5 DEF LocalSet, SameButFlow, Moved
  <2>7. m.ns \in NetworkState /\ m.pl \in Side /\ l.ix + 1 \in Index
    BY <2>3, <2>5 DEF LocalSet, Index
  <2>8. /\ n \in LocalSet(B, C) /\ InOrder(n) /\ Flow(n) = Flow(m)
        /\ n.ns = m.ns /\ n.ix = l.ix + 1 /\ n.tr = m.tr /\ n.pl = m.pl /\ n.in = m.in
    BY <2>5, <2>6, <2>7, Moves
  <2> QED
    BY <1>3, <1>4, <1>8, <2>3, <2>4, <2>5, <2>8, Strings DEF SameButFlow, UART_ERROR_CODE
<1>9. CASE c = "J"
  <2>1. PICK m : m = empty_transmit_queue(k)
    OBVIOUS
  <2>2. PICK n : n = uart_safe_transmit(m, "O")
    OBVIOUS
  <2>3. PICK o : o = [n EXCEPT !.ix = 0]
    OBVIOUS
  <2>4. l.ix \in 0..4 => UART_SYNC_PASSWORD[l.ix + 1] # "J"
    BY Strings
  <2>5. r = Outcome(o, 0)
    BY <1>1, <1>2, <1>3, <1>9, <2>1, <2>2, <2>3, <2>4, Strings DEF uart_sync_link, UART_ERROR_CODE
  <2>6. m \in LocalSet(B, C) /\ InOrder(m) /\ SameButFlow(k, m) /\ Flow(m) = l.sent
    BY <1>3, <2>1, Empties
  <2>7. n \in LocalSet(B, C) /\ InOrder(n) /\ SameButFlow(m, n) /\ Flow(n) = Append(Flow(m), "O")
    <3>1. m \in LocalSet(B, C) /\ InOrder(m)
      BY <2>6
    <3>2. /\ uart_safe_transmit(m, "O") \in LocalSet(B, C) /\ InOrder(uart_safe_transmit(m, "O"))
          /\ SameButFlow(m, uart_safe_transmit(m, "O"))
          /\ Flow(uart_safe_transmit(m, "O")) = Append(Flow(m), "O")
      BY <3>1, <1>5, Transmits
    <3> QED
      BY <2>2, <3>2
  <2>8. n.ns \in NetworkState /\ n.pl \in Side /\ 0 \in Index
    BY <2>7 DEF LocalSet, Index
  <2>9. o = Moved(n, n.ns, 0, n.pl)
    <3>1. n \in LocalSet(B, C)
      BY <2>7
    <3> QED
      BY <2>3, <3>1 DEF LocalSet, Moved
  <2>10. /\ o \in LocalSet(B, C) /\ InOrder(o) /\ Flow(o) = Flow(n)
        /\ o.ns = n.ns /\ o.ix = 0 /\ o.tr = n.tr /\ o.pl = n.pl /\ o.in = n.in
    BY <2>7, <2>8, <2>9, Moves
  <2> QED
    BY <1>1, <1>3, <1>4, <1>9, <2>4, <2>5, <2>6, <2>7, <2>10 DEF SameButFlow, UART_ERROR_CODE
<1>10. CASE l.ix # 5 /\ c = UART_SYNC_PASSWORD[l.ix + 1]
  <2>1. PICK m : m = uart_safe_transmit(k, "O")
    OBVIOUS
  <2>2. PICK n : n = [m EXCEPT !.ix = @ + 1]
    OBVIOUS
  <2>3. PICK o : o = IF n.ix = 5 THEN [n EXCEPT !.ns = "LINKED", !.ix = 0] ELSE n
    OBVIOUS
  <2>4. l.ix \in 0..4 /\ c \in Sent \ {"O", "J", "P"} /\ c # UART_ERROR_CODE
    BY <1>1, <1>10, Strings
  <2>5. r = Outcome(o, 0)
    BY <1>1, <1>2, <1>3, <1>10, <2>1, <2>2, <2>3, <2>4, Strings DEF uart_sync_link
  <2>6. m \in LocalSet(B, C) /\ InOrder(m) /\ SameButFlow(k, m) /\ Flow(m) = Append(Flow(k), "O")
    <3>1. k \in LocalSet(B, C) /\ InOrder(k)
      BY <1>3
    <3>2. /\ uart_safe_transmit(k, "O") \in LocalSet(B, C) /\ InOrder(uart_safe_transmit(k, "O"))
          /\ SameButFlow(k, uart_safe_transmit(k, "O"))
          /\ Flow(uart_safe_transmit(k, "O")) = Append(Flow(k), "O")
      BY <3>1, <1>5, Transmits
    <3> QED
      BY <2>1, <3>2
  <2>7. n = Moved(m, m.ns, l.ix + 1, m.pl)
    BY <1>3, <2>2, <2>6 DEF LocalSet, SameButFlow, Moved
  <2>8. m.ns \in NetworkState /\ m.pl \in Side /\ l.ix + 1 \in Index
    BY <2>4, <2>6 DEF LocalSet, Index
  <2>9. /\ n \in LocalSet(B, C) /\ InOrder(n) /\ Flow(n) = Flow(m)
        /\ n.ns = m.ns /\ n.ix = l.ix + 1 /\ n.tr = m.tr /\ n.pl = m.pl /\ n.in = m.in
    BY <2>6, <2>7, <2>8, Moves
  <2>10. CASE l.ix = 4
    <3>1. o = Moved(n, "LINKED", 0, n.pl)
      <4>1. o = [n EXCEPT !.ns = "LINKED", !.ix = 0]
        BY <2>3, <2>9, <2>10
      <4> QED
        BY <2>9, <4>1 DEF LocalSet, Moved
    <3>2. n.pl \in Side /\ 0 \in Index
      BY <2>9 DEF LocalSet, Index
    <3>3. /\ o \in LocalSet(B, C) /\ InOrder(o) /\ Flow(o) = Flow(n)
          /\ o.ns = "LINKED" /\ o.ix = 0 /\ o.tr = n.tr /\ o.pl = n.pl /\ o.in = n.in
      BY <1>1, <2>9, <3>1, <3>2, Moves
    <3> QED
      BY <1>3, <1>4, <1>10, <2>4, <2>5, <2>6, <2>9, <2>10, <3>3 DEF SameButFlow
  <2>11. CASE l.ix # 4
    <3>1. o = n
      BY <2>3, <2>4, <2>9, <2>11
    <3> QED
      BY <1>3, <1>4, <1>10, <2>4, <2>5, <2>6, <2>9, <2>11, <3>1 DEF SameButFlow
  <2> QED
    BY <2>10, <2>11
<1>11. CASE c \notin {UART_ERROR_CODE, "O", "J"} /\ (l.ix # 5 => c # UART_SYNC_PASSWORD[l.ix + 1])
  <2>1. c # CharAt(UART_SYNC_PASSWORD, l.ix)
    BY <1>1, <1>11, Strings
  <2>2. r = Outcome(k, 2)
    BY <1>1, <1>2, <1>3, <1>11, <2>1 DEF uart_sync_link
  <2> QED
    BY <1>3, <1>4, <1>11, <2>2
<1> QED
  BY <1>6, <1>7, <1>8, <1>9, <1>10, <1>11

\* uart_sync_connect, one byte c at a time.
LEMMA ConnectIs ==
    ASSUME NEW B, NEW C, NEW l \in LocalSet(B, C), InOrder(l), l.in # <<>>, NEW c, c = Head(l.in),
           c # "NUL", NEW r, r = uart_sync_connect(l)
    PROVE  /\ r.l \in LocalSet(B, C) /\ InOrder(r.l) /\ r.l.in = Tail(l.in) /\ r.l.tr = l.tr
           /\ c = UART_ERROR_CODE => r.err = 1 /\ r.l.ns = l.ns /\ r.l.ix = l.ix
           /\ (c = "O" /\ l.ix = 5) =>
                r.err = 0 /\ r.l.ns = "CONNECTED" /\ r.l.pl = 1 /\ Flow(r.l) = l.sent
           /\ (c = "O" /\ l.ix # 5) =>
                /\ r.err = 0 /\ r.l.ns = l.ns /\ r.l.ix = l.ix + 1
                /\ Flow(r.l) = Append(Flow(l), UART_SYNC_RESPONSE[l.ix + 1])
           /\ c = "P" =>
                r.err = 0 /\ r.l.ns = l.ns /\ r.l.ix = 1 /\ Flow(r.l) = Append(l.sent, "B")
           /\ (l.ix # 5 /\ c = UART_SYNC_RESPONSE[l.ix + 1]) =>
                /\ r.err = 0
                /\ l.ix = 4 => /\ r.l.ns = "CONNECTED" /\ r.l.pl = 2
                               /\ Flow(r.l) = Append(Flow(l), "O") \/ Flow(r.l) = l.sent
                /\ l.ix # 4 => /\ r.l.ns = l.ns /\ r.l.ix = l.ix + 1
                               /\ Flow(r.l) = Append(Flow(l), "O")
           /\ (c \notin {UART_ERROR_CODE, "O", "P"} /\ (l.ix # 5 => c # UART_SYNC_RESPONSE[l.ix + 1]))
                => r.err = 2 /\ r.l.ns = l.ns /\ r.l.ix = l.ix /\ Flow(r.l) = Flow(l)
<1>1. /\ l.ix \in 0..5 /\ l.pl \in Side /\ l.ns \in NetworkState /\ "CONNECTED" \in NetworkState
      /\ 1 \in Side /\ 2 \in Side
  BY DEF LocalSet, NetworkState, Index, Side
<1>2. PICK k : k = [l EXCEPT !.in = Tail(@)]
  OBVIOUS
<1>3. /\ k \in LocalSet(B, C) /\ InOrder(k) /\ Flow(k) = Flow(l) /\ k.sent = l.sent
      /\ k.ns = l.ns /\ k.ix = l.ix /\ k.tr = l.tr /\ k.pl = l.pl /\ k.in = Tail(l.in)
  BY <1>2, Takes
<1>4. ASSUME NEW m, NEW e PROVE Outcome(m, e).l = m /\ Outcome(m, e).err = e
  BY DEF Outcome
<1>5. "O" \in Sent /\ "B" \in Sent
  BY Strings
<1>6. CASE c = UART_ERROR_CODE
  <2>1. r = Outcome(k, 1)
    BY <1>1, <1>2, <1>3, <1>6, Strings DEF uart_sync_connect, UART_ERROR_CODE
  <2> QED
    BY <1>1, <1>3, <1>4, <1>6, <2>1, Strings DEF UART_ERROR_CODE
<1>7. CASE c = "O" /\ l.ix = 5
  <2>1. PICK m : m = [k EXCEPT !.ns = "CONNECTED", !.pl = 1]
    OBVIOUS
  <2>2. PICK n : n = empty_transmit_queue(m)
    OBVIOUS
  <2>3. r = Outcome(n, 0)
    BY <1>1, <1>2, <1>3, <1>7, <2>1, <2>2, Strings DEF uart_sync_connect, UART_ERROR_CODE
  <2>4. m = Moved(k, "CONNECTED", k.ix, 1)
    BY <2>1, <1>3 DEF LocalSet, Moved
  <2>5. /\ m \in LocalSet(B, C) /\ m.sent = k.sent
        /\ m.ns = "CONNECTED" /\ m.ix = k.ix /\ m.tr = k.tr /\ m.pl = 1 /\ m.in = k.in
    <3>1. k.ix \in Index
      BY <1>1, <1>3 DEF Index
    <3> QED
      BY <1>1, <1>3, <2>4, <3>1, Moves
  <2>6. n \in LocalSet(B, C) /\ InOrder(n) /\ SameButFlow(m, n) /\ Flow(n) = m.sent
    BY <2>2, <2>5, Empties
  <2> QED
    BY <1>1, <1>3, <1>4, <1>7, <2>3, <2>5, <2>6 DEF SameButFlow, UART_ERROR_CODE
<1>8. CASE c = "O" /\ l.ix # 5
  <2>1. PICK m : m = uart_safe_transmit(k, UART_SYNC_RESPONSE[l.ix + 1])
    OBVIOUS
  <2>2. PICK n : n = [m EXCEPT !.ix = @ + 1]
    OBVIOUS
  <2>3. l.ix \in 0..4
    BY <1>1, <1>8
  <2>4. r = Outcome(n, 0)
    BY <1>1, <1>2, <1>3, <1>8, <2>1, <2>2, <2>3, Strings DEF uart_sync_connect, UART_ERROR_CODE
  <2>5. /\ m \in LocalSet(B, C) /\ InOrder(m) /\ SameButFlow(k, m)
        /\ Flow(m) = Append(Flow(k), UART_SYNC_RESPONSE[l.ix + 1])
    <3>1. UART_SYNC_RESPONSE[l.ix + 1] \in Sent
      BY <2>3, Strings
    <3> QED
      BY <1>3, <2>1, <3>1, Transmits
  <2>6. n = Moved(m, m.ns, l.ix + 1, m.pl)
    BY <1>3, <2>2, <2>5 DEF LocalSet, SameButFlow, Moved
  <2>7. m.ns \in NetworkState /\ m.pl \in Side /\ l.ix + 1 \in Index
    BY <2>3, <2>5 DEF LocalSet, Index
  <2>8. /\ n \in LocalSet(B, C) /\ InOrder(n) /\ Flow(n) = Flow(m)
        /\ n.ns = m.ns /\ n.ix = l.ix + 1 /\ n.tr = m.tr /\ n.pl = m.pl /\ n.in = m.in
    BY <2>5, <2>6, <2>7, Moves
  <2> QED
    BY <1>3, <1>4, <1>8, <2>3, <2>4, <2>5, <2>8, Strings DEF SameButFlow, UART_ERROR_CODE
<1>9. CASE c = "P"
  <2>1. PICK m : m = empty_transmit_queue(k)
    OBVIOUS
  <2>2. PICK n : n = uart_safe_transmit(m, "B")
    OBVIOUS
  <2>3. PICK o : o = [n EXCEPT !.ix = 1]
    OBVIOUS
  <2>4. l.ix \in 0..4 => UART_SYNC_RESPONSE[l.ix + 1] # "P"
    BY Strings
  <2>5. r = Outcome(o, 0)
    <3>1. CharAt(UART_SYNC_RESPONSE, 0) = "B"
      BY Strings
    <3>2. CharAt(UART_SYNC_RESPONSE, l.ix) # "P" /\ "P" # UART_ERROR_CODE /\ k.ix = l.ix
      BY <1>1, <1>3, <2>4, Strings DEF UART_ERROR_CODE
    <3>3. o = [uart_safe_transmit(empty_transmit_queue(k), "B") EXCEPT !.ix = 1]
      BY <2>1, <2>2, <2>3
    <3> QED
      BY <1>2, <1>9, <3>1, <3>2, <3>3 DEF uart_sync_connect, UART_ERROR_CODE
  <2>6. m \in LocalSet(B, C) /\ InOrder(m) /\ SameButFlow(k, m) /\ Flow(m) = l.sent
    BY <1>3, <2>1, Empties
  <2>7. n \in LocalSet(B, C) /\ InOrder(n) /\ SameButFlow(m, n) /\ Flow(n) = Append(Flow(m), "B")
    <3>1. m \in LocalSet(B, C) /\ InOrder(m)
      BY <2>6
    <3>2. /\ uart_safe_transmit(m, "B") \in LocalSet(B, C) /\ InOrder(uart_safe_transmit(m, "B"))
          /\ SameButFlow(m, uart_safe_transmit(m, "B"))
          /\ Flow(uart_safe_transmit(m, "B")) = Append(Flow(m), "B")
      BY <3>1, <1>5, Transmits
    <3> QED
      BY <2>2, <3>2
  <2>8. n.ns \in NetworkState /\ n.pl \in Side /\ 1 \in Index
    BY <2>7 DEF LocalSet, Index
  <2>9. o = Moved(n, n.ns, 1, n.pl)
    <3>1. n \in LocalSet(B, C)
      BY <2>7
    <3> QED
      BY <2>3, <3>1 DEF LocalSet, Moved
  <2>10. /\ o \in LocalSet(B, C) /\ InOrder(o) /\ Flow(o) = Flow(n)
        /\ o.ns = n.ns /\ o.ix = 1 /\ o.tr = n.tr /\ o.pl = n.pl /\ o.in = n.in
    BY <2>7, <2>8, <2>9, Moves
  <2> QED
    BY <1>1, <1>3, <1>4, <1>9, <2>4, <2>5, <2>6, <2>7, <2>10 DEF SameButFlow, UART_ERROR_CODE
<1>10. CASE l.ix # 5 /\ c = UART_SYNC_RESPONSE[l.ix + 1]
  <2>1. PICK m : m = uart_safe_transmit(k, "O")
    OBVIOUS
  <2>2. PICK n : n = [m EXCEPT !.ix = @ + 1]
    OBVIOUS
  <2>3. PICK o : o = IF n.ix = 5
                        THEN empty_transmit_queue([n EXCEPT !.ns = "CONNECTED", !.pl = 2]) ELSE n
    OBVIOUS
  <2>4. l.ix \in 0..4 /\ c \in Sent \ {"O", "J", "P"} /\ c # UART_ERROR_CODE
    BY <1>1, <1>10, Strings
  <2>5. r = Outcome(o, 0)
    BY <1>1, <1>2, <1>3, <1>10, <2>1, <2>2, <2>3, <2>4, Strings DEF uart_sync_connect
  <2>6. /\ m \in LocalSet(B, C) /\ InOrder(m) /\ SameButFlow(k, m) /\ Flow(m) = Append(Flow(k), "O")
        /\ m.sent = Append(Flow(k), "O") \/ m.sent = k.sent
    <3>1. k \in LocalSet(B, C) /\ InOrder(k)
      BY <1>3
    <3>2. /\ uart_safe_transmit(k, "O") \in LocalSet(B, C) /\ InOrder(uart_safe_transmit(k, "O"))
          /\ SameButFlow(k, uart_safe_transmit(k, "O"))
          /\ Flow(uart_safe_transmit(k, "O")) = Append(Flow(k), "O")
          /\ \/ uart_safe_transmit(k, "O").sent = Append(Flow(k), "O")
             \/ uart_safe_transmit(k, "O").sent = k.sent
      BY <3>1, <1>5, Transmits
    <3> QED
      BY <2>1, <3>2
  <2>7. n = Moved(m, m.ns, l.ix + 1, m.pl)
    BY <1>3, <2>2, <2>6 DEF LocalSet, SameButFlow, Moved
  <2>8. m.ns \in NetworkState /\ m.pl \in Side /\ l.ix + 1 \in Index
    BY <2>4, <2>6 DEF LocalSet, Index
  <2>9. /\ n \in LocalSet(B, C) /\ InOrder(n) /\ Flow(n) = Flow(m) /\ n.sent = m.sent
        /\ n.ns = m.ns /\ n.ix = l.ix + 1 /\ n.tr = m.tr /\ n.pl = m.pl /\ n.in = m.in
    BY <2>6, <2>7, <2>8, Moves
  <2>10. CASE l.ix = 4
    <3>1. PICK h : h = [n EXCEPT !.ns = "CONNECTED", !.pl = 2]
      OBVIOUS
    <3>2. n \in LocalSet(B, C) /\ InOrder(n)
      BY <2>9
    <3>3. h = Moved(n, "CONNECTED", n.ix, 2) /\ n.ix \in Index
      BY <3>1, <3>2 DEF LocalSet, Moved
    <3>4. /\ h \in LocalSet(B, C) /\ h.sent = n.sent
          /\ h.ns = "CONNECTED" /\ h.ix = n.ix /\ h.tr = n.tr /\ h.pl = 2 /\ h.in = n.in
      BY <1>1, <3>2, <3>3, Moves
    <3>5. o = empty_transmit_queue(h)
      BY <2>3, <2>9, <2>10, <3>1
    <3>6. o \in LocalSet(B, C) /\ InOrder(o) /\ SameButFlow(h, o) /\ Flow(o) = h.sent
      BY <3>4, <3>5, Empties
    <3>7. Flow(o) = Append(Flow(k), "O") \/ Flow(o) = k.sent
      BY <2>6, <2>9, <3>4, <3>6
    <3> QED
      BY <1>3, <1>4, <1>10, <2>4, <2>5, <2>6, <2>9, <2>10, <3>4, <3>6, <3>7 DEF SameButFlow
  <2>11. CASE l.ix # 4
    <3>1. o = n
      BY <2>3, <2>4, <2>9, <2>11
    <3> QED
      BY <1>3, <1>4, <1>10, <2>4, <2>5, <2>6, <2>9, <2>11, <3>1 DEF SameButFlow
  <2> QED
    BY <2>10, <2>11
<1>11. CASE c \notin {UART_ERROR_CODE, "O", "P"} /\ (l.ix # 5 => c # UART_SYNC_RESPONSE[l.ix + 1])
  <2>1. c # CharAt(UART_SYNC_RESPONSE, l.ix)
    BY <1>1, <1>11, Strings
  <2>2. r = Outcome(k, 2)
    BY <1>1, <1>2, <1>3, <1>11, <2>1 DEF uart_sync_connect
  <2> QED
    BY <1>3, <1>4, <1>11, <2>2
<1> QED
  BY <1>6, <1>7, <1>8, <1>9, <1>10, <1>11

-----------------------------------------------------------------------------
(* A tick, one byte at a time, on both machines.                           *)

\* One machine reads a byte of the password; z is what it may cancel.
LEMMA LinkAgrees ==
    ASSUME NEW a \in Linking, NEW b \in At, NEW x \in Seq(Sent), NEW v \in Seq(Sent),
           NEW z \in Seq(Sent), NEW y, y = v \o z, Agree(a, x, b, y), x # <<>>
    PROVE  /\ (x[1] = "O" /\ a = 5) => Agree(10, Tail(x), b, Append(y, "P"))
           /\ (x[1] = "O" /\ a # 5) =>
                Agree(a + 1, Tail(x), b, Append(y, UART_SYNC_PASSWORD[a + 1]))
           /\ x[1] = "J" => Agree(0, Tail(x), b, Append(v, "O"))
           /\ (x[1] \notin {"O", "J"} /\ a # 5 /\ x[1] = UART_SYNC_PASSWORD[a + 1]) =>
                Agree(IF a = 4 THEN 10 ELSE a + 1, Tail(x), b, Append(y, "O"))
           /\ (x[1] \notin {"O", "J"} /\ (a # 5 => x[1] # UART_SYNC_PASSWORD[a + 1])) =>
                Agree(a, Tail(x), b, y)
<1>1. /\ a \in 0..5 /\ Hears(a) /\ y \in Seq(Sent) /\ (Requested(v) => Requested(y))
      /\ "O" \in Sent /\ "P" \in Sent
  BY ConcatProperties, RequestedMore, Strings DEF Hears, Linking
<1>2. \A e \in Sent : (e # "J" /\ Requested(Append(y, e))) => Requested(y)
  BY <1>1, RequestedAppend
<1>3. Requested(Append(v, "O")) => Requested(y)
  BY <1>1, RequestedAppend
<1>4. ASSUME NEW a2, NEW y2, Hears(a2), Requested(y2) => Requested(y), a2 # 15,
             (a = 0 /\ x[1] = "J") => a2 = 0, Hears(b) => Agree(a2, Tail(x), b, y2)
      PROVE  Agree(a2, Tail(x), b, y2)
  <2>1. a # 15 /\ a2 # Second /\ a2 # First
    BY <1>1, <1>4, Apart
  <2> QED
    BY <1>1, <1>4, <2>1, ReadAgrees
<1>5. (x[1] = "O" /\ a = 5) => Agree(10, Tail(x), b, Append(y, "P"))
  <2>1. Hears(b) => ((x[1] = "O" /\ a = 5) => Agree(10, Tail(x), b, Append(y, "P")))
    BY LinkReads
  <2>2. Requested(Append(y, "P")) => Requested(y)
    BY <1>1, <1>2
  <2> QED
    BY <2>1, <2>2, <1>4, Apart
<1>6. (x[1] = "O" /\ a # 5) =>
        Agree(a + 1, Tail(x), b, Append(y, UART_SYNC_PASSWORD[a + 1]))
  <2>1. SUFFICES ASSUME x[1] = "O" /\ a # 5
                 PROVE  Agree(a + 1, Tail(x), b, Append(y, UART_SYNC_PASSWORD[a + 1]))
    OBVIOUS
  <2>2. Hears(b) => Agree(a + 1, Tail(x), b, Append(y, UART_SYNC_PASSWORD[a + 1]))
    BY <2>1, LinkReads
  <2>3. a \in 0..4 /\ Hears(a + 1) /\ a + 1 # 15
    BY <1>1, <2>1, Apart
  <2>4. UART_SYNC_PASSWORD[a + 1] \in Sent /\ UART_SYNC_PASSWORD[a + 1] # "J"
    BY <2>3, Strings
  <2>5. Requested(Append(y, UART_SYNC_PASSWORD[a + 1])) => Requested(y)
    BY <1>2, <2>4
  <2> QED
    BY <2>1, <2>2, <2>3, <2>5, <1>4
<1>7. x[1] = "J" => Agree(0, Tail(x), b, Append(v, "O"))
  <2>1. SUFFICES ASSUME x[1] = "J" PROVE Agree(0, Tail(x), b, Append(v, "O"))
    OBVIOUS
  <2>2. ASSUME Hears(b) PROVE Agree(0, Tail(x), b, Append(v, "O"))
    <3>1. /\ Agree(0, Tail(x), b, Append(y, "O")) /\ Agree(0, Tail(x), b, <<"O">>)
          /\ y = <<>> \/ y = <<"J">>
      BY <2>1, <2>2, LinkReads
    <3>2. v = y \/ v = <<>>
      <4>1. Len(v) + Len(z) = Len(y) /\ Len(y) <= 1 /\ Len(v) \in Nat /\ Len(z) \in Nat
        BY <3>1, ConcatProperties, LenProperties
      <4>2. CASE Len(v) = 0
        BY <4>2, EmptySeq
      <4>3. CASE Len(z) = 0
        BY <4>3, EmptySeq, ConcatEmptySeq
      <4> QED
        BY <4>1, <4>2, <4>3
    <3>3. Append(<<>>, "O") = <<"O">>
      BY Tuples
    <3> QED
      BY <3>1, <3>2, <3>3
  <2> QED
    BY <2>2, <1>3, <1>4, Apart
<1>8. (x[1] \notin {"O", "J"} /\ a # 5 /\ x[1] = UART_SYNC_PASSWORD[a + 1]) =>
        Agree(IF a = 4 THEN 10 ELSE a + 1, Tail(x), b, Append(y, "O"))
  <2>1. SUFFICES ASSUME x[1] \notin {"O", "J"} /\ a # 5 /\ x[1] = UART_SYNC_PASSWORD[a + 1]
                 PROVE  Agree(IF a = 4 THEN 10 ELSE a + 1, Tail(x), b, Append(y, "O"))
    OBVIOUS
  <2>2. Hears(b) => Agree(IF a = 4 THEN 10 ELSE a + 1, Tail(x), b, Append(y, "O"))
    BY <2>1, LinkReads
  <2>3. Hears(IF a = 4 THEN 10 ELSE a + 1) /\ (IF a = 4 THEN 10 ELSE a + 1) # 15
    BY <1>1, <2>1 DEF Hears, Linking, Linked
  <2>4. Requested(Append(y, "O")) => Requested(y)
    BY <1>1, <1>2
  <2> QED
    BY <2>1, <2>2, <2>3, <2>4, <1>4
<1>9. (x[1] \notin {"O", "J"} /\ (a # 5 => x[1] # UART_SYNC_PASSWORD[a + 1])) =>
        Agree(a, Tail(x), b, y)
  <2>1. SUFFICES ASSUME x[1] \notin {"O", "J"}, a # 5 => x[1] # UART_SYNC_PASSWORD[a + 1]
                 PROVE  Agree(a, Tail(x), b, y)
    OBVIOUS
  <2>2. Hears(b) => Agree(a, Tail(x), b, y)
    BY <2>1, LinkReads
  <2>3. a # 15
    BY <1>1
  <2> QED
    BY <1>1, <2>1, <2>2, <2>3, <1>4
<1> QED
  BY <1>5, <1>6, <1>7, <1>8, <1>9

\* Or a byte of the response.
LEMMA ConnectAgrees ==
    ASSUME NEW a \in Linked, NEW b \in At, NEW x \in Seq(Sent), NEW v \in Seq(Sent),
           NEW z \in Seq(Sent), NEW y, y = v \o z, Agree(a, x, b, y), x # <<>>
    PROVE  /\ (x[1] = "O" /\ a = 15) => \A x2 : Agree(First, x2, b, v)
           /\ (x[1] = "O" /\ a # 15) =>
                Agree(a + 1, Tail(x), b, Append(y, UART_SYNC_RESPONSE[a - 9]))
           /\ x[1] = "P" => Agree(11, Tail(x), b, Append(v, "B"))
           /\ (x[1] \notin {"O", "P"} /\ a < 14 /\ x[1] = UART_SYNC_RESPONSE[a - 9]) =>
                Agree(a + 1, Tail(x), b, Append(y, "O"))
           /\ (x[1] \notin {"O", "P"} /\ a = 14 /\ x[1] = UART_SYNC_RESPONSE[a - 9]) =>
                \A x2 : Agree(Second, x2, b, Append(y, "O")) /\ Agree(Second, x2, b, v)
           /\ (x[1] \notin {"O", "P"} /\ (a # 15 => x[1] # UART_SYNC_RESPONSE[a - 9])) =>
                Agree(a, Tail(x), b, y)
<1>1. /\ a \in 10..15 /\ Hears(a) /\ y \in Seq(Sent) /\ (Requested(v) => Requested(y))
      /\ "O" \in Sent /\ "B" \in Sent
  BY ConcatProperties, RequestedMore, Strings DEF Hears, Linked
<1>2. \A e \in Sent : (e # "J" /\ Requested(Append(y, e))) => Requested(y)
  BY <1>1, RequestedAppend
<1>3. Requested(Append(v, "B")) => Requested(y)
  BY <1>1, RequestedAppend
<1>4. \A e : Append(<<>>, e) = <<e>>
  BY Tuples
<1>5. ASSUME Hears(b)
      PROVE  /\ y = <<>> /\ Tail(x) = <<>> /\ v = <<>>
             /\ x[1] = "O" => a # 15 /\ Agree(a + 1, <<>>, b, <<UART_SYNC_RESPONSE[a - 9]>>)
             /\ x[1] = "P" => Agree(11, <<>>, b, <<"B">>)
             /\ (x[1] \notin {"O", "P"} /\ a < 14 /\ x[1] = UART_SYNC_RESPONSE[a - 9]) =>
                  Agree(a + 1, <<>>, b, <<"O">>)
             /\ (x[1] \notin {"O", "P"} /\ a = 14 /\ x[1] = UART_SYNC_RESPONSE[a - 9]) =>
                  \A x2 : Agree(Second, x2, b, <<"O">>) /\ Agree(Second, x2, b, <<>>)
             /\ (x[1] \notin {"O", "P"} /\ (a < 15 => x[1] # UART_SYNC_RESPONSE[a - 9])) =>
                  Agree(a, <<>>, b, <<>>)
  <2>1. y = <<>> => v = <<>>
    <3>1. Len(y) = Len(v) + Len(z) /\ Len(v) \in Nat /\ Len(z) \in Nat
      BY ConcatProperties, LenProperties
    <3>2. y = <<>> => Len(v) = 0
      BY <3>1
    <3> QED
      BY <3>2, EmptySeq
  <2>2. y = <<>> /\ Tail(x) = <<>>
    BY <1>5, ConnectReads
  <2>3. x[1] = "O" => a # 15 /\ Agree(a + 1, <<>>, b, <<UART_SYNC_RESPONSE[a - 9]>>)
    BY <1>5, ConnectReads
  <2>4. x[1] = "P" => Agree(11, <<>>, b, <<"B">>)
    BY <1>5, ConnectReads
  <2>5. (x[1] \notin {"O", "P"} /\ a < 14 /\ x[1] = UART_SYNC_RESPONSE[a - 9]) =>
          Agree(a + 1, <<>>, b, <<"O">>)
    BY <1>5, ConnectReads
  <2>6. (x[1] \notin {"O", "P"} /\ a = 14 /\ x[1] = UART_SYNC_RESPONSE[a - 9]) =>
          \A x2 : Agree(Second, x2, b, <<"O">>) /\ Agree(Second, x2, b, <<>>)
    BY <1>5, ConnectReads
  <2>7. (x[1] \notin {"O", "P"} /\ (a < 15 => x[1] # UART_SYNC_RESPONSE[a - 9])) =>
          Agree(a, <<>>, b, <<>>)
    BY <1>5, ConnectReads
  <2> QED
    BY <1>5, <2>1, <2>2, <2>3, <2>4, <2>5, <2>6, <2>7
<1>6. ASSUME NEW a2, NEW y2, Hears(a2), Requested(y2) => Requested(y),
             ~(a = 15 /\ x[1] = "O"), Hears(b) => Agree(a2, Tail(x), b, y2)
      PROVE  Agree(a2, Tail(x), b, y2)
  <2>1. a # 0 /\ a2 # Second /\ a2 # First
    BY <1>1, <1>6, Apart
  <2> QED
    BY <1>1, <1>6, <2>1, ReadAgrees
<1>7. (x[1] = "O" /\ a = 15) => \A x2 : Agree(First, x2, b, v)
  <2>1. SUFFICES ASSUME x[1] = "O", a = 15, NEW x2 PROVE Agree(First, x2, b, v)
    OBVIOUS
  <2>2. ~Hears(b) /\ First # 0 /\ a # 0
    BY <1>5, <2>1, Apart
  <2> QED
    BY <1>1, <2>1, <2>2, Apart, ReadAgrees
<1>8. (x[1] = "O" /\ a # 15) =>
        Agree(a + 1, Tail(x), b, Append(y, UART_SYNC_RESPONSE[a - 9]))
  <2>1. SUFFICES ASSUME x[1] = "O", a # 15
                 PROVE  Agree(a + 1, Tail(x), b, Append(y, UART_SYNC_RESPONSE[a - 9]))
    OBVIOUS
  <2>2. Hears(b) => Agree(a + 1, Tail(x), b, Append(y, UART_SYNC_RESPONSE[a - 9]))
    BY <2>1, <1>4, <1>5
  <2>3. a \in 10..14 /\ Hears(a + 1)
    BY <1>1, <2>1 DEF Hears, Linked
  <2>4. UART_SYNC_RESPONSE[a - 9] \in Sent /\ UART_SYNC_RESPONSE[a - 9] # "J"
    <3>1. a - 10 \in 0..4 /\ (a - 10) + 1 = a - 9
      BY <2>3
    <3> QED
      BY <3>1, Strings
  <2>5. Requested(Append(y, UART_SYNC_RESPONSE[a - 9])) => Requested(y)
    BY <1>2, <2>4
  <2> QED
    BY <2>1, <2>2, <2>3, <2>5, <1>6
<1>9. x[1] = "P" => Agree(11, Tail(x), b, Append(v, "B"))
  <2>1. SUFFICES ASSUME x[1] = "P" PROVE Agree(11, Tail(x), b, Append(v, "B"))
    OBVIOUS
  <2>2. Hears(b) => Agree(11, Tail(x), b, Append(v, "B"))
    BY <2>1, <1>4, <1>5
  <2> QED
    BY <2>1, <2>2, <1>3, <1>6, Apart
<1>10. (x[1] \notin {"O", "P"} /\ a < 14 /\ x[1] = UART_SYNC_RESPONSE[a - 9]) =>
         Agree(a + 1, Tail(x), b, Append(y, "O"))
  <2>1. SUFFICES ASSUME x[1] \notin {"O", "P"}, a < 14, x[1] = UART_SYNC_RESPONSE[a - 9]
                 PROVE  Agree(a + 1, Tail(x), b, Append(y, "O"))
    OBVIOUS
  <2>2. Hears(b) => Agree(a + 1, Tail(x), b, Append(y, "O"))
    BY <2>1, <1>4, <1>5
  <2>3. Hears(a + 1) /\ (Requested(Append(y, "O")) => Requested(y))
    BY <1>1, <1>2, <2>1 DEF Hears, Linked
  <2> QED
    BY <2>1, <2>2, <2>3, <1>6
<1>11. (x[1] \notin {"O", "P"} /\ a = 14 /\ x[1] = UART_SYNC_RESPONSE[a - 9]) =>
         \A x2 : Agree(Second, x2, b, Append(y, "O")) /\ Agree(Second, x2, b, v)
  <2>1. SUFFICES ASSUME x[1] \notin {"O", "P"}, a = 14, x[1] = UART_SYNC_RESPONSE[a - 9], NEW x2
                 PROVE  Agree(Second, x2, b, Append(y, "O")) /\ Agree(Second, x2, b, v)
    OBVIOUS
  <2>2. Hears(b) => Agree(Second, x2, b, Append(y, "O")) /\ Agree(Second, x2, b, v)
    BY <2>1, <1>4, <1>5
  <2>3. Requested(Append(y, "O")) => Requested(y)
    BY <1>1, <1>2
  <2>4. a # 0 /\ a # 15 /\ ~Hears(Second) /\ Second # First
    BY <2>1, Apart
  <2>5. Agree(Second, x2, b, Append(y, "O"))
    BY <1>1, <2>2, <2>3, <2>4, ReadAgrees
  <2>6. Agree(Second, x2, b, v)
    BY <1>1, <2>2, <2>4, ReadAgrees
  <2> QED
    BY <2>5, <2>6
<1>12. (x[1] \notin {"O", "P"} /\ (a # 15 => x[1] # UART_SYNC_RESPONSE[a - 9])) =>
         Agree(a, Tail(x), b, y)
  <2>1. SUFFICES ASSUME x[1] \notin {"O", "P"}, a # 15 => x[1] # UART_SYNC_RESPONSE[a - 9]
                 PROVE  Agree(a, Tail(x), b, y)
    OBVIOUS
  <2>2. a < 15 => x[1] # UART_SYNC_RESPONSE[a - 9]
    BY <1>1, <2>1
  <2>3. Hears(b) => Agree(a, Tail(x), b, y)
    BY <2>1, <2>2, <1>5
  <2> QED
    BY <1>1, <2>1, <2>3, <1>6
<1> QED
  BY <1>7, <1>8, <1>9, <1>10, <1>11, <1>12

\* How far the machine is within its tick, and what both have yet to read: the
\* other one is at stage b, w comes from it, and v is what it had before.
StageIn(l) == Stage(l.ns, l.ix, l.pl)
GotIn(l) == IF l.ns \in {"WAITING", "LINKED"} THEN l.in ELSE <<>>
Joint(l, v, b, w) == Agree(StageIn(l), GotIn(l) \o w, b, v \o Flow(l))

LEMMA Judges ==
    ASSUME NEW B, NEW C, NEW r, r.l \in LocalSet(B, C), InOrder(r.l), r.err \in {0, 1, 2}
    PROVE  /\ Judge(r) \in LocalSet(B, C) /\ InOrder(Judge(r)) /\ Flow(Judge(r)) = Flow(r.l)
           /\ Judge(r).in = r.l.in /\ Judge(r).pl = r.l.pl
           /\ r.err = 1 => Judge(r).ns = "CLEANUP"
           /\ r.err = 2 => \/ Judge(r).ns = "INIT"
                           \/ Judge(r).ns = r.l.ns /\ Judge(r).ix = r.l.ix
           /\ r.err = 0 => Judge(r) = r.l
<1>1. PICK k : k = r.l
  OBVIOUS
<1>2. PICK m : m = Judge(r)
  OBVIOUS
<1>3. k \in LocalSet(B, C) /\ k.tr \in 0..SyncTries /\ SyncTries \in Nat
  BY <1>1, NetworkingConstants DEF LocalSet
<1>4. 0 \in Index /\ "INIT" \in NetworkState /\ "CLEANUP" \in NetworkState
  BY DEF Index, NetworkState
<1>5. ASSUME m.out = k.out, m.sent = k.sent, m.can = k.can PROVE InOrder(m) /\ Flow(m) = Flow(k)
  BY <1>1, <1>5 DEF InOrder, Flow
<1>6. CASE r.err = 0
  BY <1>6 DEF Judge
<1>7. CASE r.err = 1
  <2>1. m = [k EXCEPT !.ns = "CLEANUP", !.ix = 0]
    BY <1>1, <1>2, <1>7 DEF Judge, reset_sync
  <2>2. /\ m \in LocalSet(B, C) /\ m.in = k.in /\ m.pl = k.pl /\ m.ns = "CLEANUP"
        /\ m.out = k.out /\ m.sent = k.sent
    BY <1>3, <1>4, <2>1 DEF LocalSet
  <2>3. m.can = k.can
    BY <1>3, <2>1, Zenon DEF LocalSet
  <2> QED
    BY <1>1, <1>2, <1>5, <1>7, <2>2, <2>3
<1>8. CASE r.err = 2
  <2>1. m = count_try(k)
    BY <1>1, <1>2, <1>8 DEF Judge
  <2>2. CASE k.tr + 1 > SyncTries
    <3>1. m = [k EXCEPT !.ix = 0, !.ns = "INIT", !.tr = 0]
      BY <2>1, <2>2 DEF count_try
    <3>2. /\ m \in LocalSet(B, C) /\ m.in = k.in /\ m.pl = k.pl /\ m.ns = "INIT"
          /\ m.out = k.out /\ m.sent = k.sent
      <4>1. 0 \in 0..SyncTries
        BY <1>3
      <4> QED
        BY <1>3, <1>4, <3>1, <4>1 DEF LocalSet
    <3>3. m.can = k.can
      BY <1>3, <3>1, Zenon DEF LocalSet
    <3> QED
      BY <1>1, <1>2, <1>5, <1>8, <3>2, <3>3
  <2>3. CASE ~(k.tr + 1 > SyncTries)
    <3>1. m = [k EXCEPT !.tr = k.tr + 1] /\ k.tr + 1 \in 0..SyncTries
      BY <1>3, <2>1, <2>3 DEF count_try
    <3>2. /\ m \in LocalSet(B, C) /\ m.in = k.in /\ m.pl = k.pl /\ m.ns = k.ns /\ m.ix = k.ix
          /\ m.out = k.out /\ m.sent = k.sent
      BY <1>3, <3>1 DEF LocalSet
    <3>3. m.can = k.can
      BY <1>3, <3>1, Zenon DEF LocalSet
    <3> QED
      BY <1>1, <1>2, <1>5, <1>8, <3>2, <3>3
  <2> QED
    BY <2>2, <2>3
<1> QED
  BY <1>6, <1>7, <1>8

LEMMA Stages ==
    ASSUME NEW B, NEW C, NEW l \in LocalSet(B, C)
    PROVE  /\ StageIn(l) \in At /\ l.ix \in 0..5
           /\ l.ns = "WAITING" => StageIn(l) = l.ix /\ StageIn(l) \in Linking
           /\ l.ns = "LINKED" => StageIn(l) = 10 + l.ix /\ StageIn(l) \in Linked
           /\ l.ns = "CONNECTED" => StageIn(l) = IF l.pl = 2 THEN Second ELSE First
           /\ l.ns = "CLEANUP" => StageIn(l) = Joining
           /\ l.ns \in {"INIT", "DISCONNECTED"} => StageIn(l) = Away
           /\ l.in \in Seq(B) /\ Flow(l) \in Seq(Sent) /\ l.sent \in Seq(Sent) /\ l.out \in Seq(Sent)
<1>1. l.ns \in NetworkState /\ l.ix \in 0..5
  BY DEF LocalSet, Index
<1>2. l.in \in Seq(B) /\ l.sent \in Seq(Sent) /\ l.out \in Seq(Sent)
  BY DEF LocalSet
<1>3. Flow(l) \in Seq(Sent)
  BY <1>2, ConcatProperties DEF Flow
<1>4. /\ l.ns = "WAITING" => StageIn(l) = l.ix
      /\ l.ns = "LINKED" => StageIn(l) = 10 + l.ix
      /\ l.ns = "CONNECTED" => StageIn(l) = IF l.pl = 2 THEN Second ELSE First
      /\ l.ns = "CLEANUP" => StageIn(l) = Joining
      /\ l.ns \in {"INIT", "DISCONNECTED"} => StageIn(l) = Away
  BY DEF StageIn, Stage
<1>5. /\ l.ns = "WAITING" => StageIn(l) \in Linking
      /\ l.ns = "LINKED" => StageIn(l) \in Linked
  BY <1>1, <1>4 DEF Linking, Linked
<1> QED
  BY <1>1, <1>2, <1>3, <1>4, <1>5 DEF At, NetworkState

\* The result of a read, or of finding nothing to read, is judged.
LEMMA JudgeAgrees ==
    ASSUME NEW C, NEW r, r.l \in LocalSet(Sent, C), InOrder(r.l), r.err \in {0, 2},
           r.err = 2 => r.l.ns \in {"WAITING", "LINKED"},
           NEW v \in Seq(Sent), NEW b \in At, NEW w \in Seq(Sent), Joint(r.l, v, b, w)
    PROVE  Joint(Judge(r), v, b, w)
<1>1. PICK k : k = r.l
  OBVIOUS
<1>2. PICK m : m = Judge(r)
  OBVIOUS
<1>3. /\ m \in LocalSet(Sent, C) /\ Flow(m) = Flow(k) /\ m.in = k.in /\ m.pl = k.pl
      /\ r.err = 2 => m.ns = "INIT" \/ (m.ns = k.ns /\ m.ix = k.ix)
      /\ r.err = 0 => m = k
  BY <1>1, <1>2, Judges
<1>4. CASE m = k
  BY <1>1, <1>2, <1>4
<1>5. CASE m.ns = k.ns /\ m.ix = k.ix
  BY <1>1, <1>2, <1>3, <1>5 DEF Joint, StageIn, GotIn
<1>6. CASE m.ns = "INIT" /\ r.err = 2
  <2>1. StageIn(m) = Away /\ GotIn(m) = <<>>
    BY <1>3, <1>6, Stages DEF GotIn
  <2>2. GotIn(k) = k.in /\ Hears(StageIn(k)) /\ k.in \in Seq(Sent) /\ v \o Flow(k) \in Seq(Sent)
    BY <1>1, <1>6, Stages, ConcatProperties DEF GotIn, Hears
  <2>3. <<>> \o w = w
    BY ConcatEmptySeq
  <2>4. (k.in \o w = <<>> => w = <<>>) /\ (Requested(w) => Requested(k.in \o w))
    BY <2>2, RequestedMore, ConcatEqualIffEmpty
  <2>5. Agree(StageIn(k), k.in \o w, b, v \o Flow(k))
    BY <1>1, <2>2 DEF Joint
  <2>6. Agree(Away, w, b, v \o Flow(k))
    BY <2>2, <2>4, <2>5, AwayAgrees
  <2> QED
    BY <1>2, <1>3, <2>1, <2>3, <2>6 DEF Joint
<1> QED
  BY <1>1, <1>3, <1>4, <1>5, <1>6

\* A NUL comes behind its error marker: after reading the marker a machine
\* does not listen until it has drained in_fifo.
NulMarked(in, ns) ==
    \A i \in 1..Len(in) : in[i] = "NUL" =>
        \/ i = 1 /\ ns \notin {"WAITING", "LINKED"}
        \/ i > 1 /\ in[i - 1] = UART_ERROR_CODE

LocalOK(l, B, C) ==
    /\ l \in LocalSet(B, C) /\ InOrder(l) /\ NulMarked(l.in, l.ns)
    /\ l.ns = "CONNECTED" => l.pl # 0

LEMMA NulTail ==
    ASSUME NEW B, NEW in \in Seq(B), NEW ns \in {"WAITING", "LINKED"}, NulMarked(in, ns), in # <<>>
    PROVE  /\ Head(in) # "NUL" /\ NulMarked(Tail(in), "CLEANUP")
           /\ Head(in) # UART_ERROR_CODE => \A n2 : NulMarked(Tail(in), n2)
<1>1. /\ Head(in) = in[1] /\ Len(in) \in Nat \ {0} /\ Len(Tail(in)) = Len(in) - 1
      /\ \A i \in 1..Len(in) - 1 : Tail(in)[i] = in[i + 1]
  BY HeadTailProperties, EmptySeq
<1>2. Head(in) # "NUL"
  BY <1>1 DEF NulMarked
<1>3. ASSUME NEW i \in 1..Len(in) - 1, Tail(in)[i] = "NUL"
      PROVE  in[i] = UART_ERROR_CODE /\ (i > 1 => Tail(in)[i - 1] = UART_ERROR_CODE)
  <2>1. i + 1 \in 1..Len(in) /\ in[i + 1] = "NUL" /\ (i + 1) - 1 = i
    BY <1>1, <1>3
  <2>2. in[i] = UART_ERROR_CODE
    BY <2>1 DEF NulMarked
  <2> QED
    BY <1>1, <2>2
<1>4. NulMarked(Tail(in), "CLEANUP")
  BY <1>1, <1>3 DEF NulMarked
<1>5. Head(in) # UART_ERROR_CODE => \A n2 : NulMarked(Tail(in), n2)
  BY <1>1, <1>3 DEF NulMarked
<1> QED
  BY <1>2, <1>4, <1>5

LEMMA NulMoves ==
    ASSUME NEW in, NEW ns, NEW n2, NulMarked(in, ns),
           ns \in {"WAITING", "LINKED"} \/ n2 \notin {"WAITING", "LINKED"}
    PROVE  NulMarked(in, n2)
BY DEF NulMarked

LEMMA LinkTyped ==
    ASSUME NEW B, NEW C, NEW l, LocalOK(l, B, C) PROVE LocalOK(sync_link(l), B, C)
<1>1. CASE l.ns # "WAITING"
  BY <1>1 DEF sync_link
<1>2. CASE l.ns = "WAITING"
  <2>1. PICK r : r = IF l.in = <<>> THEN Outcome(l, 2) ELSE uart_sync_link(l)
    OBVIOUS
  <2>2. sync_link(l) = Judge(r)
    BY <1>2, <2>1 DEF sync_link
  <2>3. l \in LocalSet(B, C) /\ InOrder(l) /\ NulMarked(l.in, l.ns) /\ l.in \in Seq(B)
    BY DEF LocalOK, LocalSet
  <2>4. /\ r.l \in LocalSet(B, C) /\ InOrder(r.l) /\ r.err \in {0, 1, 2}
        /\ r.l.ns \in {"WAITING", "LINKED"}
        /\ NulMarked(r.l.in, "CLEANUP") /\ (r.err # 1 => \A n2 : NulMarked(r.l.in, n2))
    <3>1. CASE l.in = <<>>
      <4>1. r.l = l /\ r.err = 2
        BY <2>1, <3>1 DEF Outcome
      <4>2. \A n2 : NulMarked(<<>>, n2)
        BY DEF NulMarked
      <4> QED
        BY <1>2, <2>3, <3>1, <4>1, <4>2
    <3>2. CASE l.in # <<>>
      <4>1. PICK c : c = Head(l.in)
        OBVIOUS
      <4>2. /\ c # "NUL" /\ NulMarked(Tail(l.in), "CLEANUP")
            /\ c # UART_ERROR_CODE => \A n2 : NulMarked(Tail(l.in), n2)
        BY <1>2, <2>3, <3>2, <4>1, NulTail
      <4>3. r = uart_sync_link(l)
        BY <2>1, <3>2
      <4>4. r.l \in LocalSet(B, C) /\ InOrder(r.l) /\ r.l.in = Tail(l.in)
        BY <2>3, <3>2, <4>1, <4>2, <4>3, LinkIs
      <4>5. c = UART_ERROR_CODE => r.err = 1 /\ r.l.ns = l.ns
        BY <2>3, <3>2, <4>1, <4>2, <4>3, LinkIs
      <4>6. c # UART_ERROR_CODE => r.err \in {0, 2} /\ r.l.ns \in {l.ns, "LINKED"}
        BY <2>3, <3>2, <4>1, <4>2, <4>3, LinkIs
      <4> QED
        BY <1>2, <4>2, <4>4, <4>5, <4>6
    <3> QED
      BY <3>1, <3>2
  <2>5. PICK m : m = Judge(r)
    OBVIOUS
  <2>6. /\ m \in LocalSet(B, C) /\ InOrder(m) /\ m.in = r.l.in
        /\ r.err = 1 => m.ns = "CLEANUP"
        /\ r.err = 2 => m.ns \in {"INIT", r.l.ns}
        /\ r.err = 0 => m.ns = r.l.ns
    BY <2>4, <2>5, Judges
  <2>7. NulMarked(m.in, m.ns) /\ m.ns # "CONNECTED"
    BY <2>4, <2>6
  <2> QED
    BY <2>2, <2>5, <2>6, <2>7 DEF LocalOK
<1> QED
  BY <1>1, <1>2

LEMMA ConnectTyped ==
    ASSUME NEW B, NEW C, NEW l, LocalOK(l, B, C) PROVE LocalOK(sync_connect(l), B, C)
<1>1. CASE l.ns # "LINKED"
  BY <1>1 DEF sync_connect
<1>2. CASE l.ns = "LINKED"
  <2>1. PICK r : r = IF l.in = <<>> THEN Outcome(l, 2) ELSE uart_sync_connect(l)
    OBVIOUS
  <2>2. sync_connect(l) = Judge(r)
    BY <1>2, <2>1 DEF sync_connect
  <2>3. l \in LocalSet(B, C) /\ InOrder(l) /\ NulMarked(l.in, l.ns) /\ l.in \in Seq(B)
    BY DEF LocalOK, LocalSet
  <2>4. /\ r.l \in LocalSet(B, C) /\ InOrder(r.l) /\ r.err \in {0, 1, 2}
        /\ r.l.ns = "LINKED" \/ (r.err = 0 /\ r.l.ns = "CONNECTED" /\ r.l.pl # 0)
        /\ NulMarked(r.l.in, "CLEANUP") /\ (r.err # 1 => \A n2 : NulMarked(r.l.in, n2))
    <3>1. CASE l.in = <<>>
      <4>1. r.l = l /\ r.err = 2
        BY <2>1, <3>1 DEF Outcome
      <4>2. \A n2 : NulMarked(<<>>, n2)
        BY DEF NulMarked
      <4> QED
        BY <1>2, <2>3, <3>1, <4>1, <4>2
    <3>2. CASE l.in # <<>>
      <4>1. PICK c : c = Head(l.in)
        OBVIOUS
      <4>2. /\ c # "NUL" /\ NulMarked(Tail(l.in), "CLEANUP")
            /\ c # UART_ERROR_CODE => \A n2 : NulMarked(Tail(l.in), n2)
        BY <1>2, <2>3, <3>2, <4>1, NulTail
      <4>3. r = uart_sync_connect(l)
        BY <2>1, <3>2
      <4>4. r.l \in LocalSet(B, C) /\ InOrder(r.l) /\ r.l.in = Tail(l.in)
        BY <2>3, <3>2, <4>1, <4>2, <4>3, ConnectIs
      <4>5. c = UART_ERROR_CODE => r.err = 1 /\ r.l.ns = l.ns
        BY <2>3, <3>2, <4>1, <4>2, <4>3, ConnectIs
      <4>6. c # UART_ERROR_CODE =>
              \/ r.err \in {0, 2} /\ r.l.ns = l.ns
              \/ r.err = 0 /\ r.l.ns = "CONNECTED" /\ r.l.pl # 0
        BY <2>3, <3>2, <4>1, <4>2, <4>3, ConnectIs
      <4> QED
        BY <1>2, <4>2, <4>4, <4>5, <4>6
    <3> QED
      BY <3>1, <3>2
  <2>5. PICK m : m = Judge(r)
    OBVIOUS
  <2>6. /\ m \in LocalSet(B, C) /\ InOrder(m) /\ m.in = r.l.in /\ m.pl = r.l.pl
        /\ r.err = 1 => m.ns = "CLEANUP"
        /\ r.err = 2 => m.ns \in {"INIT", r.l.ns}
        /\ r.err = 0 => m.ns = r.l.ns
    BY <2>4, <2>5, Judges
  <2>7. NulMarked(m.in, m.ns) /\ (m.ns = "CONNECTED" => m.pl # 0)
    BY <2>4, <2>6
  <2> QED
    BY <2>2, <2>5, <2>6, <2>7 DEF LocalOK
<1> QED
  BY <1>1, <1>2

LEMMA CleanupTyped ==
    ASSUME NEW B, NEW C, NEW l, LocalOK(l, B, C), l.sent = <<>>
    PROVE  /\ LocalOK(sync_cleanup(l), B, C)
           /\ l.ns = "CLEANUP" => /\ sync_cleanup(l).ns = "WAITING" /\ sync_cleanup(l).ix = 0
                                  /\ sync_cleanup(l).in = <<>> /\ Flow(sync_cleanup(l)) = <<"J">>
           /\ l.ns # "CLEANUP" => sync_cleanup(l) = l
<1>1. CASE l.ns # "CLEANUP"
  BY <1>1 DEF sync_cleanup
<1>2. CASE l.ns = "CLEANUP"
  <2>1. PICK k : k = [l EXCEPT !.ns = "WAITING", !.ix = 0, !.tr = 0, !.out = <<>>, !.in = <<>>]
    OBVIOUS
  <2>2. PICK m : m = uart_safe_transmit(k, "J")
    OBVIOUS
  <2>3. sync_cleanup(l) = m
    BY <1>2, <2>1, <2>2 DEF sync_cleanup
  <2>4. l \in LocalSet(B, C)
    BY DEF LocalOK
  <2>5. "WAITING" \in NetworkState /\ 0 \in Index /\ 0 \in 0..SyncTries
    BY NetworkingConstants DEF NetworkState, Index
  <2>6. /\ k \in LocalSet(B, C) /\ k.out = <<>> /\ k.in = <<>> /\ k.ns = "WAITING" /\ k.ix = 0
        /\ k.sent = <<>>
    <3>1. <<>> \in Seq(Sent) /\ <<>> \in Seq(B)
      OBVIOUS
    <3>2. PICK h : h = [l EXCEPT !.ns = "WAITING", !.ix = 0, !.tr = 0]
      OBVIOUS
    <3>3. h \in LocalSet(B, C) /\ h.ns = "WAITING" /\ h.ix = 0 /\ h.sent = <<>>
      BY <2>4, <2>5, <3>2 DEF LocalSet
    <3>4. k = [h EXCEPT !.out = <<>>, !.in = <<>>]
      BY <2>1, <3>2
    <3> QED
      BY <3>1, <3>3, <3>4 DEF LocalSet
  <2>7. InOrder(k) /\ Flow(k) = <<>> /\ "J" \in Sent
    BY <2>6, Strings DEF InOrder, Flow
  <2>8. /\ m \in LocalSet(B, C) /\ InOrder(m) /\ SameButFlow(k, m) /\ Flow(m) = Append(Flow(k), "J")
    BY <2>2, <2>6, <2>7, Transmits
  <2>9. NulMarked(<<>>, "WAITING") /\ Append(<<>>, "J") = <<"J">>
    BY Tuples DEF NulMarked
  <2> QED
    BY <1>2, <2>3, <2>6, <2>7, <2>8, <2>9 DEF LocalOK, SameButFlow
<1> QED
  BY <1>1, <1>2

\* The three parts of uart_sync, over a line that damages nothing.
LEMMA CleanupAgreesIn ==
    ASSUME NEW C, NEW l, LocalOK(l, Sent, C), l.sent = <<>>, NEW v \in Seq(Sent), NEW b \in At,
           NEW w \in Seq(Sent), Joint(l, v, b, w)
    PROVE  Joint(sync_cleanup(l), v, b, w)
<1>1. CASE l.ns # "CLEANUP"
  BY <1>1, CleanupTyped
<1>2. CASE l.ns = "CLEANUP"
  <2>1. PICK m : m = sync_cleanup(l)
    OBVIOUS
  <2>2. LocalOK(m, Sent, C) /\ m.ns = "WAITING" /\ m.ix = 0 /\ m.in = <<>> /\ Flow(m) = <<"J">>
    BY <1>2, <2>1, CleanupTyped
  <2>3. StageIn(l) = Joining /\ GotIn(l) = <<>> /\ StageIn(m) = 0 /\ GotIn(m) = <<>>
    BY <1>2, <2>2, Stages DEF LocalOK, GotIn
  <2>4. Agree(Joining, <<>> \o w, b, v \o Flow(l))
    BY <2>3 DEF Joint
  <2>5. v \o Flow(l) = <<>> /\ Agree(0, <<>> \o w, b, <<"J">>)
    BY <2>4, CleanupAgrees
  <2>6. v = <<>>
    <3>1. Flow(l) \in Seq(Sent)
      BY Stages DEF LocalOK
    <3> QED
      BY <2>5, <3>1, ConcatEqualIffEmpty
  <2>7. v \o Flow(m) = <<"J">>
    BY <2>2, <2>6
  <2> QED
    BY <2>1, <2>3, <2>5, <2>7 DEF Joint
<1> QED
  BY <1>1, <1>2

\* The two ways to put three sequences together.
Right(s, t, u) == s \o (t \o u)
LeftFirst(s, t, u) == (s \o t) \o u

LEMMA Regroup ==
    ASSUME NEW s \in Seq(Sent), NEW t \in Seq(Sent), NEW u \in Seq(Sent)
    PROVE  Right(s, t, u) = LeftFirst(s, t, u)
BY DEF Right, LeftFirst

\* What is left to read when the head of in_fifo has been read.
LEMMA Reading ==
    ASSUME NEW in \in Seq(Sent), in # <<>>, NEW w \in Seq(Sent)
    PROVE  /\ in \o w \in Seq(Sent) /\ in \o w # <<>> /\ (in \o w)[1] = Head(in)
           /\ Tail(in \o w) = Tail(in) \o w /\ Head(in) \in Sent
<1>1. in # <<>> /\ Head(in) \in Sent /\ Head(in) = in[1] /\ Len(in) \in Nat \ {0} /\ Len(w) \in Nat
      /\ Tail(in) \in Seq(Sent) /\ Len(Tail(in)) = Len(in) - 1
      /\ \A i \in 1..Len(in) - 1 : Tail(in)[i] = in[i + 1]
  BY HeadTailProperties, EmptySeq, LenProperties
<1>2. /\ in \o w \in Seq(Sent) /\ Len(in \o w) = Len(in) + Len(w) /\ (in \o w)[1] = Head(in)
      /\ \A i \in 1..Len(in) + Len(w) :
           (in \o w)[i] = IF i <= Len(in) THEN in[i] ELSE w[i - Len(in)]
  BY <1>1, ConcatProperties
<1>3. in \o w # <<>>
  BY <1>1, <1>2
<1>4. Tail(in \o w) = Tail(in) \o w
  <2>1. /\ Tail(in \o w) \in Seq(Sent) /\ Len(Tail(in \o w)) = Len(in \o w) - 1
        /\ \A i \in 1..Len(in \o w) - 1 : Tail(in \o w)[i] = (in \o w)[i + 1]
    BY <1>2, <1>3, HeadTailProperties
  <2>2. /\ Tail(in) \o w \in Seq(Sent) /\ Len(Tail(in) \o w) = Len(Tail(in)) + Len(w)
        /\ \A i \in 1..Len(Tail(in)) + Len(w) :
             (Tail(in) \o w)[i] = IF i <= Len(Tail(in)) THEN Tail(in)[i] ELSE w[i - Len(Tail(in))]
    BY <1>1, ConcatProperties
  <2>3. Len(Tail(in \o w)) = Len(Tail(in) \o w)
    BY <1>1, <1>2, <2>1, <2>2
  <2>4. ASSUME NEW i \in 1..Len(in \o w) - 1 PROVE Tail(in \o w)[i] = (Tail(in) \o w)[i]
    <3>1. i \in 1..Len(in) + Len(w) - 1 /\ i + 1 \in 1..Len(in) + Len(w)
      BY <1>1, <1>2
    <3>2. Tail(in \o w)[i] = IF i + 1 <= Len(in) THEN in[i + 1] ELSE w[(i + 1) - Len(in)]
      BY <1>2, <2>1, <3>1
    <3>3. (Tail(in) \o w)[i] = IF i <= Len(in) - 1 THEN in[i + 1] ELSE w[i - (Len(in) - 1)]
      BY <1>1, <2>2, <3>1
    <3>4. (i + 1) - Len(in) = i - (Len(in) - 1) /\ (i + 1 <= Len(in) <=> i <= Len(in) - 1)
      BY <1>1, <3>1
    <3> QED
      BY <3>2, <3>3, <3>4
  <2> QED
    BY <2>1, <2>2, <2>3, <2>4, SeqEqual
<1> QED
  BY <1>1, <1>2, <1>3, <1>4

\* Where what the machine sends in reply comes.
LEMMA Replying ==
    ASSUME NEW C, NEW l \in LocalSet(Sent, C), NEW v \in Seq(Sent)
    PROVE  /\ v \o l.sent \in Seq(Sent) /\ v \o Flow(l) = (v \o l.sent) \o l.out
           /\ v \o Flow(l) \in Seq(Sent)
           /\ \A e \in Sent : /\ v \o Append(Flow(l), e) = Append(v \o Flow(l), e)
                              /\ v \o Append(l.sent, e) = Append(v \o l.sent, e)
<1>1. PICK s \in Seq(Sent), t \in Seq(Sent) : s = l.sent /\ t = l.out
  BY DEF LocalSet
<1>2. v \o s \in Seq(Sent) /\ s \o t \in Seq(Sent) /\ v \o (s \o t) \in Seq(Sent)
  BY ConcatProperties
<1>3. v \o (s \o t) = (v \o s) \o t
  <2>1. Right(v, s, t) = LeftFirst(v, s, t)
    BY Regroup
  <2> QED
    BY <2>1, Zenon DEF Right, LeftFirst
<1>4. ASSUME NEW e \in Sent PROVE /\ v \o Append(s \o t, e) = Append(v \o (s \o t), e)
                                  /\ v \o Append(s, e) = Append(v \o s, e)
  <2>1. v \o Append(s \o t, e) = Append(v \o (s \o t), e)
    BY <1>2, AppendLater
  <2>2. v \o Append(s, e) = Append(v \o s, e)
    BY AppendLater
  <2> QED
    BY <2>1, <2>2
<1> QED
  BY <1>1, <1>2, <1>3, <1>4 DEF Flow

LEMMA LinkAgreesIn ==
    ASSUME NEW C, NEW l, LocalOK(l, Sent, C), NEW v \in Seq(Sent), NEW b \in At,
           NEW w \in Seq(Sent), Joint(l, v, b, w)
    PROVE  Joint(sync_link(l), v, b, w)
<1>1. CASE l.ns # "WAITING"
  BY <1>1 DEF sync_link
<1>2. CASE l.ns = "WAITING" /\ l.in = <<>>
  <2>1. PICK r : r = Outcome(l, 2)
    OBVIOUS
  <2>2. sync_link(l) = Judge(r) /\ r.l = l /\ r.err = 2
    BY <1>2, <2>1 DEF sync_link, Outcome
  <2>3. r.l \in LocalSet(Sent, C) /\ InOrder(r.l) /\ r.l.ns \in {"WAITING", "LINKED"} /\ r.err \in {0, 2}
    BY <1>2, <2>2 DEF LocalOK
  <2> QED
    BY <2>2, <2>3, JudgeAgrees
<1>3. CASE l.ns = "WAITING" /\ l.in # <<>>
  <2>1. PICK r : r = uart_sync_link(l)
    OBVIOUS
  <2>2. PICK c : c = Head(l.in)
    OBVIOUS
  <2>3. sync_link(l) = Judge(r)
    BY <1>3, <2>1 DEF sync_link
  <2>4. PICK k : k = r.l
    OBVIOUS
  <2>5. PICK a, x, s, y : /\ a = l.ix /\ x = l.in \o w /\ s = v \o l.sent /\ y = v \o Flow(l)
    OBVIOUS
  <2>6. l \in LocalSet(Sent, C) /\ InOrder(l)
    BY DEF LocalOK
  <2>7. /\ x \in Seq(Sent) /\ x # <<>> /\ x[1] = c /\ Tail(x) = Tail(l.in) \o w /\ c \in Sent
        /\ s \in Seq(Sent) /\ y = s \o l.out /\ l.out \in Seq(Sent) /\ y \in Seq(Sent)
        /\ \A e \in Sent : /\ v \o Append(Flow(l), e) = Append(y, e)
                           /\ v \o Append(l.sent, e) = Append(s, e)
    <3>1. l.out \in Seq(Sent) /\ l.in \in Seq(Sent)
      BY <2>6 DEF LocalSet
    <3>2. /\ l.in \o w \in Seq(Sent) /\ l.in \o w # <<>> /\ (l.in \o w)[1] = Head(l.in)
          /\ Tail(l.in \o w) = Tail(l.in) \o w /\ Head(l.in) \in Sent
      BY <1>3, <3>1, Reading
    <3>3. /\ v \o l.sent \in Seq(Sent) /\ v \o Flow(l) = (v \o l.sent) \o l.out
          /\ v \o Flow(l) \in Seq(Sent)
      BY <2>6, Replying
    <3>4. \A e \in Sent : /\ v \o Append(Flow(l), e) = Append(v \o Flow(l), e)
                          /\ v \o Append(l.sent, e) = Append(v \o l.sent, e)
      BY <2>6, Replying
    <3> QED
      BY <2>2, <2>5, <3>1, <3>2, <3>3, <3>4
  <2>8. a \in Linking /\ a \in 0..5 /\ Agree(a, x, b, y)
    <3>1. StageIn(l) = a /\ GotIn(l) = l.in /\ a \in 0..5
      BY <1>3, <2>5, <2>6, Stages DEF GotIn
    <3> QED
      BY <2>5, <3>1 DEF Joint, Linking
  <2>9. c # UART_ERROR_CODE /\ c # "NUL"
    BY <2>7, Strings DEF Sent
  <2>10. k \in LocalSet(Sent, C) /\ InOrder(k) /\ k.in = Tail(l.in)
    BY <1>3, <2>1, <2>2, <2>4, <2>6, <2>9, LinkIs
  <2>11. ASSUME k.ns \in {"WAITING", "LINKED"}, r.err \in {0, 2},
                Agree(StageIn(k), Tail(x), b, v \o Flow(k))
         PROVE  Joint(sync_link(l), v, b, w)
    <3>1. GotIn(k) \o w = Tail(x)
      BY <2>7, <2>10, <2>11 DEF GotIn
    <3>2. Joint(k, v, b, w)
      BY <2>11, <3>1 DEF Joint
    <3> QED
      BY <2>3, <2>4, <2>10, <2>11, <3>2, JudgeAgrees
  <2>12. "O" \in Sent /\ "P" \in Sent
    BY Strings
  <2>13. CASE c = "O" /\ a = 5
    <3>1. r.err = 0 /\ k.ns = "LINKED" /\ k.ix = 0 /\ Flow(k) = Append(Flow(l), "P")
      <4>1. c = "O" /\ l.ix = 5
        BY <2>5, <2>13
      <4>2. r.err = 0 /\ r.l.ns = "LINKED" /\ r.l.ix = 0 /\ Flow(r.l) = Append(Flow(l), "P")
        BY <1>3, <2>1, <2>2, <2>6, <2>9, <4>1, LinkIs
      <4> QED
        BY <2>4, <4>2
    <3>2. StageIn(k) = 10 /\ v \o Flow(k) = Append(y, "P")
      <4>1. StageIn(k) = 10 + k.ix
        BY <2>10, <3>1, Stages
      <4>2. v \o Append(Flow(l), "P") = Append(y, "P")
        BY <2>7, <2>12
      <4> QED
        BY <3>1, <4>1, <4>2
    <3>3. Agree(10, Tail(x), b, Append(y, "P"))
      BY <2>7, <2>8, <2>13, LinkAgrees
    <3> QED
      BY <2>11, <3>1, <3>2, <3>3
  <2>14. CASE c = "O" /\ a # 5
    <3>1. r.err = 0 /\ k.ns = l.ns /\ k.ix = a + 1
          /\ Flow(k) = Append(Flow(l), UART_SYNC_PASSWORD[a + 1])
      BY <1>3, <2>1, <2>2, <2>4, <2>5, <2>6, <2>9, <2>14, LinkIs
    <3>2. UART_SYNC_PASSWORD[a + 1] \in Sent
      BY <2>8, <2>14, Strings
    <3>3. StageIn(k) = a + 1 /\ v \o Flow(k) = Append(y, UART_SYNC_PASSWORD[a + 1])
      BY <1>3, <2>7, <2>10, <3>1, <3>2, Stages
    <3>4. Agree(a + 1, Tail(x), b, Append(y, UART_SYNC_PASSWORD[a + 1]))
      BY <2>7, <2>8, <2>14, LinkAgrees
    <3> QED
      BY <1>3, <2>11, <3>1, <3>3, <3>4
  <2>15. CASE c = "J"
    <3>1. r.err = 0 /\ k.ns = l.ns /\ k.ix = 0 /\ Flow(k) = Append(l.sent, "O")
      BY <1>3, <2>1, <2>2, <2>4, <2>6, <2>9, <2>15, LinkIs
    <3>2. StageIn(k) = 0 /\ v \o Flow(k) = Append(s, "O")
      BY <1>3, <2>7, <2>10, <2>12, <3>1, Stages
    <3>3. Agree(0, Tail(x), b, Append(s, "O"))
      BY <2>7, <2>8, <2>15, LinkAgrees
    <3> QED
      BY <1>3, <2>11, <3>1, <3>2, <3>3
  <2>16. CASE a # 5 /\ c = UART_SYNC_PASSWORD[a + 1]
    <3>1. c \notin {"O", "J"}
      BY <2>8, <2>16, Strings
    <3>2. /\ r.err = 0 /\ Flow(k) = Append(Flow(l), "O")
          /\ a = 4 => k.ns = "LINKED" /\ k.ix = 0
          /\ a # 4 => k.ns = l.ns /\ k.ix = a + 1
      <4>1. l.ix # 5 /\ c = UART_SYNC_PASSWORD[l.ix + 1]
        BY <2>5, <2>16
      <4>2. /\ r.err = 0 /\ Flow(r.l) = Append(Flow(l), "O")
            /\ l.ix = 4 => r.l.ns = "LINKED" /\ r.l.ix = 0
            /\ l.ix # 4 => r.l.ns = l.ns /\ r.l.ix = l.ix + 1
        BY <1>3, <2>1, <2>2, <2>6, <2>9, <4>1, LinkIs
      <4> QED
        BY <2>4, <2>5, <4>2
    <3>3. StageIn(k) = (IF a = 4 THEN 10 ELSE a + 1) /\ v \o Flow(k) = Append(y, "O")
      <4>1. v \o Append(Flow(l), "O") = Append(y, "O")
        BY <2>7, <2>12
      <4>2. a = 4 => StageIn(k) = 10 + k.ix
        BY <2>10, <3>2, Stages
      <4>3. a # 4 => StageIn(k) = k.ix
        BY <1>3, <2>10, <3>2, Stages
      <4> QED
        BY <3>2, <4>1, <4>2, <4>3
    <3>4. Agree(IF a = 4 THEN 10 ELSE a + 1, Tail(x), b, Append(y, "O"))
      BY <2>7, <2>8, <2>16, <3>1, LinkAgrees
    <3> QED
      BY <1>3, <2>11, <3>2, <3>3, <3>4
  <2>17. CASE c \notin {"O", "J"} /\ (a # 5 => c # UART_SYNC_PASSWORD[a + 1])
    <3>1. r.err = 2 /\ k.ns = l.ns /\ k.ix = l.ix /\ Flow(k) = Flow(l)
      BY <1>3, <2>1, <2>2, <2>4, <2>5, <2>6, <2>9, <2>17, LinkIs
    <3>2. StageIn(k) = a /\ v \o Flow(k) = y
      BY <1>3, <2>5, <2>10, <3>1, Stages
    <3>3. Agree(a, Tail(x), b, y)
      BY <2>7, <2>8, <2>17, LinkAgrees
    <3> QED
      BY <1>3, <2>11, <3>1, <3>2, <3>3
  <2> QED
    BY <2>13, <2>14, <2>15, <2>16, <2>17
<1> QED
  BY <1>1, <1>2, <1>3

LEMMA ConnectAgreesIn ==
    ASSUME NEW C, NEW l, LocalOK(l, Sent, C), NEW v \in Seq(Sent), NEW b \in At,
           NEW w \in Seq(Sent), Joint(l, v, b, w)
    PROVE  Joint(sync_connect(l), v, b, w)
<1>1. CASE l.ns # "LINKED"
  BY <1>1 DEF sync_connect
<1>2. CASE l.ns = "LINKED" /\ l.in = <<>>
  <2>1. PICK r : r = Outcome(l, 2)
    OBVIOUS
  <2>2. sync_connect(l) = Judge(r) /\ r.l = l /\ r.err = 2
    BY <1>2, <2>1 DEF sync_connect, Outcome
  <2>3. r.l \in LocalSet(Sent, C) /\ InOrder(r.l) /\ r.l.ns \in {"WAITING", "LINKED"} /\ r.err \in {0, 2}
    BY <1>2, <2>2 DEF LocalOK
  <2> QED
    BY <2>2, <2>3, JudgeAgrees
<1>3. CASE l.ns = "LINKED" /\ l.in # <<>>
  <2>1. PICK r : r = uart_sync_connect(l)
    OBVIOUS
  <2>2. PICK c : c = Head(l.in)
    OBVIOUS
  <2>3. sync_connect(l) = Judge(r)
    BY <1>3, <2>1 DEF sync_connect
  <2>4. PICK k : k = r.l
    OBVIOUS
  <2>5. PICK a, i, x, s, y : /\ a = 10 + l.ix /\ i = l.ix /\ x = l.in \o w
                             /\ s = v \o l.sent /\ y = v \o Flow(l)
    OBVIOUS
  <2>6. l \in LocalSet(Sent, C) /\ InOrder(l)
    BY DEF LocalOK
  <2>7. /\ x \in Seq(Sent) /\ x # <<>> /\ x[1] = c /\ Tail(x) = Tail(l.in) \o w /\ c \in Sent
        /\ s \in Seq(Sent) /\ y = s \o l.out /\ l.out \in Seq(Sent) /\ y \in Seq(Sent)
        /\ \A e \in Sent : /\ v \o Append(Flow(l), e) = Append(y, e)
                           /\ v \o Append(l.sent, e) = Append(s, e)
    <3>1. l.out \in Seq(Sent) /\ l.in \in Seq(Sent)
      BY <2>6 DEF LocalSet
    <3>2. /\ l.in \o w \in Seq(Sent) /\ l.in \o w # <<>> /\ (l.in \o w)[1] = Head(l.in)
          /\ Tail(l.in \o w) = Tail(l.in) \o w /\ Head(l.in) \in Sent
      BY <1>3, <3>1, Reading
    <3>3. /\ v \o l.sent \in Seq(Sent) /\ v \o Flow(l) = (v \o l.sent) \o l.out
          /\ v \o Flow(l) \in Seq(Sent)
      BY <2>6, Replying
    <3>4. \A e \in Sent : /\ v \o Append(Flow(l), e) = Append(v \o Flow(l), e)
                          /\ v \o Append(l.sent, e) = Append(v \o l.sent, e)
      BY <2>6, Replying
    <3> QED
      BY <2>2, <2>5, <3>1, <3>2, <3>3, <3>4
  <2>8. /\ i \in 0..5 /\ a = 10 + i /\ a - 9 = i + 1 /\ a \in Linked /\ a \in 10..15
        /\ Agree(a, x, b, y)
    <3>1. StageIn(l) = a /\ GotIn(l) = l.in /\ i \in 0..5
      BY <1>3, <2>5, <2>6, Stages DEF GotIn
    <3>2. a = 10 + i
      BY <2>5
    <3> QED
      BY <2>5, <3>1, <3>2 DEF Joint, Linked
  <2>9. c # UART_ERROR_CODE /\ c # "NUL"
    BY <2>7, Strings DEF Sent
  <2>10. k \in LocalSet(Sent, C) /\ InOrder(k) /\ k.in = Tail(l.in)
    BY <1>3, <2>1, <2>2, <2>4, <2>6, <2>9, ConnectIs
  <2>11. ASSUME k.ns = "LINKED", r.err \in {0, 2}, Agree(StageIn(k), Tail(x), b, v \o Flow(k))
         PROVE  Joint(sync_connect(l), v, b, w)
    <3>1. GotIn(k) \o w = Tail(x)
      BY <2>7, <2>10, <2>11 DEF GotIn
    <3>2. Joint(k, v, b, w)
      BY <2>11, <3>1 DEF Joint
    <3> QED
      BY <2>3, <2>4, <2>10, <2>11, <3>2, JudgeAgrees
  <2>12. ASSUME k.ns = "CONNECTED", r.err = 0, \A x2 : Agree(StageIn(k), x2, b, v \o Flow(k))
         PROVE  Joint(sync_connect(l), v, b, w)
    <3>1. Joint(k, v, b, w)
      BY <2>12 DEF Joint
    <3> QED
      BY <2>3, <2>4, <2>10, <2>12, <3>1, JudgeAgrees
  <2>13. "O" \in Sent /\ "B" \in Sent
    BY Strings
  <2>14. CASE c = "O" /\ i = 5
    <3>1. r.err = 0 /\ k.ns = "CONNECTED" /\ k.pl = 1 /\ Flow(k) = l.sent
      <4>1. c = "O" /\ l.ix = 5
        BY <2>5, <2>14
      <4>2. r.err = 0 /\ r.l.ns = "CONNECTED" /\ r.l.pl = 1 /\ Flow(r.l) = l.sent
        BY <1>3, <2>1, <2>2, <2>6, <2>9, <4>1, ConnectIs
      <4> QED
        BY <2>4, <4>2
    <3>2. StageIn(k) = First
      BY <2>10, <3>1, Stages
    <3>3. v \o Flow(k) = s
      BY <2>5, <3>1
    <3>4. a = 15
      BY <2>8, <2>14
    <3>5. \A x2 : Agree(First, x2, b, s)
      BY <2>7, <2>8, <2>14, <3>4, ConnectAgrees
    <3> QED
      BY <2>12, <3>1, <3>2, <3>3, <3>5
  <2>15. CASE c = "O" /\ i # 5
    <3>1. r.err = 0 /\ k.ns = "LINKED" /\ k.ix = i + 1
          /\ Flow(k) = Append(Flow(l), UART_SYNC_RESPONSE[i + 1])
      <4>1. c = "O" /\ l.ix # 5
        BY <2>5, <2>15
      <4>2. /\ r.err = 0 /\ r.l.ns = l.ns /\ r.l.ix = l.ix + 1
            /\ Flow(r.l) = Append(Flow(l), UART_SYNC_RESPONSE[l.ix + 1])
        BY <1>3, <2>1, <2>2, <2>6, <2>9, <4>1, ConnectIs
      <4> QED
        BY <1>3, <2>4, <2>5, <4>2
    <3>2. UART_SYNC_RESPONSE[i + 1] \in Sent
      BY <2>8, <2>15, Strings
    <3>3. StageIn(k) = a + 1
      <4>1. StageIn(k) = 10 + k.ix
        BY <2>10, <3>1, Stages
      <4> QED
        BY <2>8, <3>1, <4>1
    <3>4. v \o Flow(k) = Append(y, UART_SYNC_RESPONSE[a - 9])
      BY <2>7, <2>8, <3>1, <3>2
    <3>5. a # 15
      BY <2>8, <2>15
    <3>6. Agree(a + 1, Tail(x), b, Append(y, UART_SYNC_RESPONSE[a - 9]))
      BY <2>7, <2>8, <2>15, <3>5, ConnectAgrees
    <3> QED
      BY <2>11, <3>1, <3>3, <3>4, <3>6
  <2>16. CASE c = "P"
    <3>1. r.err = 0 /\ k.ns = "LINKED" /\ k.ix = 1 /\ Flow(k) = Append(l.sent, "B")
      BY <1>3, <2>1, <2>2, <2>4, <2>6, <2>9, <2>16, ConnectIs
    <3>2. StageIn(k) = 11
      <4>1. StageIn(k) = 10 + k.ix
        BY <2>10, <3>1, Stages
      <4> QED
        BY <3>1, <4>1
    <3>3. v \o Flow(k) = Append(s, "B")
      BY <2>7, <2>13, <3>1
    <3>4. Agree(11, Tail(x), b, Append(s, "B"))
      BY <2>7, <2>8, <2>16, ConnectAgrees
    <3> QED
      BY <2>11, <3>1, <3>2, <3>3, <3>4
  <2>17. CASE i # 5 /\ c = UART_SYNC_RESPONSE[i + 1]
    <3>1. c \notin {"O", "P"} /\ c = UART_SYNC_RESPONSE[a - 9]
      BY <2>8, <2>17, Strings
    <3>2. l.ix # 5 /\ c = UART_SYNC_RESPONSE[l.ix + 1]
      BY <2>5, <2>17
    <3>3. /\ r.err = 0
          /\ l.ix = 4 => /\ r.l.ns = "CONNECTED" /\ r.l.pl = 2
                         /\ Flow(r.l) = Append(Flow(l), "O") \/ Flow(r.l) = l.sent
          /\ l.ix # 4 => /\ r.l.ns = l.ns /\ r.l.ix = l.ix + 1
                         /\ Flow(r.l) = Append(Flow(l), "O")
      BY <1>3, <2>1, <2>2, <2>6, <2>9, <3>2, ConnectIs
    <3>4. v \o Append(Flow(l), "O") = Append(y, "O")
      BY <2>7, <2>13
    <3>5. CASE i = 4
      <4>1. /\ r.err = 0 /\ k.ns = "CONNECTED" /\ k.pl = 2
            /\ Flow(k) = Append(Flow(l), "O") \/ Flow(k) = l.sent
        BY <2>4, <2>5, <3>3, <3>5
      <4>2. StageIn(k) = Second
        BY <2>10, <4>1, Stages
      <4>3. v \o Flow(k) = Append(y, "O") \/ v \o Flow(k) = s
        BY <2>5, <3>4, <4>1
      <4>4. a = 14
        BY <2>8, <3>5
      <4>5. \A x2 : Agree(Second, x2, b, Append(y, "O")) /\ Agree(Second, x2, b, s)
        BY <2>7, <2>8, <3>1, <4>4, ConnectAgrees
      <4> QED
        BY <2>12, <4>1, <4>2, <4>3, <4>5
    <3>6. CASE i # 4
      <4>1. r.err = 0 /\ k.ns = "LINKED" /\ k.ix = i + 1 /\ Flow(k) = Append(Flow(l), "O")
        BY <1>3, <2>4, <2>5, <3>3, <3>6
      <4>2. StageIn(k) = a + 1
        <5>1. StageIn(k) = 10 + k.ix
          BY <2>10, <4>1, Stages
        <5> QED
          BY <2>8, <4>1, <5>1
      <4>3. v \o Flow(k) = Append(y, "O")
        BY <3>4, <4>1
      <4>4. a < 14
        BY <2>8, <2>17, <3>6
      <4>5. Agree(a + 1, Tail(x), b, Append(y, "O"))
        BY <2>7, <2>8, <3>1, <4>4, ConnectAgrees
      <4> QED
        BY <2>11, <4>1, <4>2, <4>3, <4>5
    <3> QED
      BY <3>5, <3>6
  <2>18. CASE c \notin {"O", "P"} /\ (i # 5 => c # UART_SYNC_RESPONSE[i + 1])
    <3>1. c \notin {UART_ERROR_CODE, "O", "P"} /\ (l.ix # 5 => c # UART_SYNC_RESPONSE[l.ix + 1])
      BY <2>5, <2>9, <2>18
    <3>2. r.err = 2 /\ r.l.ns = l.ns /\ r.l.ix = l.ix /\ Flow(r.l) = Flow(l)
      BY <1>3, <2>1, <2>2, <2>6, <2>9, <3>1, ConnectIs
    <3>3. r.err = 2 /\ k.ns = "LINKED" /\ k.ix = i /\ Flow(k) = Flow(l)
      BY <1>3, <2>4, <2>5, <3>2
    <3>4. StageIn(k) = a
      <4>1. StageIn(k) = 10 + k.ix
        BY <2>10, <3>3, Stages
      <4> QED
        BY <2>8, <3>3, <4>1
    <3>5. v \o Flow(k) = y
      BY <2>5, <3>3
    <3>6. a # 15 => c # UART_SYNC_RESPONSE[a - 9]
      BY <2>8, <2>18
    <3>7. Agree(a, Tail(x), b, y)
      BY <2>7, <2>8, <2>18, <3>6, ConnectAgrees
    <3> QED
      BY <2>11, <3>3, <3>4, <3>5, <3>7
  <2> QED
    BY <2>14, <2>15, <2>16, <2>17, <2>18
<1> QED
  BY <1>1, <1>2, <1>3

\* A tick of the multiplayer menu.
LEMMA SyncTyped ==
    ASSUME NEW B, NEW C, NEW l, LocalOK(l, B, C), l.sent = <<>>
    PROVE  LocalOK(uart_sync(l), B, C)
<1>1. LocalOK(sync_cleanup(l), B, C)
  BY CleanupTyped
<1>2. LocalOK(sync_link(sync_cleanup(l)), B, C)
  BY <1>1, LinkTyped
<1> QED
  BY <1>2, ConnectTyped DEF uart_sync

LEMMA SyncAgreesIn ==
    ASSUME NEW C, NEW l, LocalOK(l, Sent, C), l.sent = <<>>, NEW v \in Seq(Sent), NEW b \in At,
           NEW w \in Seq(Sent), Joint(l, v, b, w)
    PROVE  Joint(uart_sync(l), v, b, w)
<1>1. LocalOK(sync_cleanup(l), Sent, C) /\ Joint(sync_cleanup(l), v, b, w)
  BY CleanupTyped, CleanupAgreesIn
<1>2. /\ LocalOK(sync_link(sync_cleanup(l)), Sent, C)
      /\ Joint(sync_link(sync_cleanup(l)), v, b, w)
  BY <1>1, LinkTyped, LinkAgreesIn
<1> QED
  BY <1>2, ConnectAgreesIn DEF uart_sync

-----------------------------------------------------------------------------
(* The state of both machines, where their in_fifos hold bytes of B.       *)

Shape(B) ==
    /\ screen \in [Peer -> {"menu", "mp", "game"}] /\ nstate \in [Peer -> NetworkState]
    /\ idx \in [Peer -> Index] /\ tries \in [Peer -> 0..SyncTries] /\ player \in [Peer -> Side]
    /\ can_send \in [Peer -> BOOLEAN] /\ out_fifo \in [Peer -> Seq(Sent)]
    /\ wire \in [Peer -> Seq(Sent)] /\ in_fifo \in [Peer -> Seq(B)]

\* A machine is connected in the game only, and in the main menu it is either
\* fresh or left by its user.
Coupled(p) ==
    /\ can_send[p] => out_fifo[p] = <<>>
    /\ NulMarked(in_fifo[p], nstate[p])
    /\ nstate[p] = "CONNECTED" => (player[p] # 0 /\ screen[p] = "game")
    /\ screen[p] = "menu" => nstate[p] \in {"CLEANUP", "INIT"}

Types(B) == Shape(B) /\ \A p \in Peer : Coupled(p)

LEMMA Others ==
    ASSUME NEW p \in Peer
    PROVE  /\ Other(p) \in Peer /\ Other(p) # p /\ Other(Other(p)) = p
           /\ \A q \in Peer : q = p \/ q = Other(p)
<1>1. PICK a, b \in Peer : a # b /\ Peer = {a, b}
  BY NetworkingConstants
<1>2. \A q \in Peer : Other(q) \in Peer /\ Other(q) # q
  BY <1>1 DEF Other
<1> QED
  BY <1>1, <1>2

LEMMA SameLocal ==
    ASSUME NEW p
    PROVE  /\ Local(p).ns = nstate[p] /\ Local(p).ix = idx[p] /\ Local(p).tr = tries[p]
           /\ Local(p).pl = player[p] /\ Local(p).out = out_fifo[p] /\ Local(p).in = in_fifo[p]
           /\ Local(p).sent = <<>>
BY DEF Local

LEMMA Shares ==
    ASSUME NEW B, Types(B), NEW p \in Peer
    PROVE  LocalOK(Local(p), B, {can_send[p]})
<1>1. /\ nstate[p] \in NetworkState /\ idx[p] \in Index /\ tries[p] \in 0..SyncTries
      /\ player[p] \in Side /\ out_fifo[p] \in Seq(Sent) /\ in_fifo[p] \in Seq(B)
      /\ <<>> \in Seq(Sent)
  BY DEF Types, Shape
<1>2. Local(p) \in LocalSet(B, {can_send[p]})
  BY <1>1, Zenon DEF Local, LocalSet
<1>3. InOrder(Local(p))
  BY Zenon DEF Types, Coupled, InOrder, Local
<1> QED
  BY <1>2, <1>3, SameLocal DEF LocalOK, Types, Coupled

LEMMA TickTyped ==
    ASSUME NEW B, Types(B), NEW p \in Peer, game_handler(p)
    PROVE  Types(B)'
<1>1. PICK l : l = uart_sync(Local(p))
  OBVIOUS
<1>2. LocalOK(l, B, {can_send[p]})
  BY <1>1, Shares, SameLocal, SyncTyped
<1>3. /\ nstate' = [nstate EXCEPT ![p] = IF l.ns = "INIT" THEN "CLEANUP" ELSE l.ns]
      /\ screen' = [screen EXCEPT ![p] = IF l.ns = "INIT" THEN "menu" ELSE
                       IF l.ns = "CONNECTED" THEN "game" ELSE "mp"]
      /\ idx' = [idx EXCEPT ![p] = l.ix] /\ tries' = [tries EXCEPT ![p] = l.tr]
      /\ player' = [player EXCEPT ![p] = l.pl] /\ out_fifo' = [out_fifo EXCEPT ![p] = l.out]
      /\ in_fifo' = [in_fifo EXCEPT ![p] = l.in] /\ wire' = [wire EXCEPT ![p] = wire[p] \o l.sent]
      /\ can_send' = can_send
  BY <1>1 DEF game_handler
<1>4. /\ l.ns \in NetworkState /\ l.ix \in Index /\ l.tr \in 0..SyncTries /\ l.pl \in Side
      /\ l.out \in Seq(Sent) /\ l.in \in Seq(B) /\ l.sent \in Seq(Sent)
  BY <1>2 DEF LocalOK, LocalSet
<1>5. Shape(B)'
  <2>1. "CLEANUP" \in NetworkState /\ wire[p] \o l.sent \in Seq(Sent)
    BY <1>4, ConcatProperties DEF NetworkState, Types, Shape
  <2> QED
    BY <1>3, <1>4, <2>1 DEF Types, Shape
<1>6. ASSUME NEW q \in Peer PROVE Coupled(q)'
  <2>1. CASE q # p
    BY <1>3, <2>1 DEF Types, Shape, Coupled
  <2>2. CASE q = p
    <3>1. /\ nstate'[p] = (IF l.ns = "INIT" THEN "CLEANUP" ELSE l.ns) /\ out_fifo'[p] = l.out
          /\ screen'[p] = (IF l.ns = "INIT" THEN "menu" ELSE
                             IF l.ns = "CONNECTED" THEN "game" ELSE "mp")
          /\ player'[p] = l.pl /\ in_fifo'[p] = l.in
      BY <1>3 DEF Types, Shape
    <3>2. can_send'[p] => l.out = <<>>
      <4>1. l.can = can_send[p]
        BY <1>2, Zenon DEF LocalOK, LocalSet
      <4> QED
        BY <1>2, <1>3, <4>1, Zenon DEF LocalOK, InOrder
    <3>3. NulMarked(l.in, nstate'[p])
      BY <1>2, <3>1, NulMoves DEF LocalOK
    <3>4. l.ns = "CONNECTED" => l.pl # 0
      BY <1>2 DEF LocalOK
    <3> QED
      BY <2>2, <3>1, <3>2, <3>3, <3>4 DEF Coupled
  <2> QED
    BY <2>1, <2>2
<1> QED
  BY <1>5, <1>6 DEF Types

LEMMA NulAppend ==
    ASSUME NEW B, NEW in \in Seq(B), NEW ns, NEW b \in B, NulMarked(in, ns),
           b = "NUL" => (Len(in) > 0 /\ in[Len(in)] = UART_ERROR_CODE)
    PROVE  /\ NulMarked(Append(in, b), ns)
           /\ Len(Append(in, b)) > 0 /\ Append(in, b)[Len(Append(in, b))] = b
<1>1. /\ Len(in) \in Nat /\ Len(Append(in, b)) = Len(in) + 1 /\ Append(in, b)[Len(in) + 1] = b
      /\ \A i \in 1..Len(in) : Append(in, b)[i] = in[i]
  BY AppendProperties, LenProperties
<1>2. ASSUME NEW i \in 1..Len(in) + 1, Append(in, b)[i] = "NUL"
      PROVE  \/ i = 1 /\ ns \notin {"WAITING", "LINKED"}
             \/ i > 1 /\ Append(in, b)[i - 1] = UART_ERROR_CODE
  <2>1. CASE i \in 1..Len(in)
    <3>1. in[i] = "NUL"
      BY <1>1, <1>2, <2>1
    <3>2. \/ i = 1 /\ ns \notin {"WAITING", "LINKED"}
          \/ i > 1 /\ in[i - 1] = UART_ERROR_CODE
      BY <2>1, <3>1 DEF NulMarked
    <3> QED
      BY <1>1, <2>1, <3>2
  <2>2. CASE i = Len(in) + 1
    <3>1. Len(in) > 0 /\ in[Len(in)] = UART_ERROR_CODE
      BY <1>1, <1>2, <2>2
    <3>2. i - 1 = Len(in) /\ i > 1 /\ Len(in) \in 1..Len(in)
      BY <1>1, <2>2, <3>1
    <3> QED
      BY <1>1, <3>1, <3>2
  <2> QED
    BY <1>1, <2>1, <2>2
<1> QED
  BY <1>1, <1>2 DEF NulMarked

LEMMA AppendTwice ==
    ASSUME NEW B, NEW in \in Seq(B), NEW a \in B, NEW b \in B
    PROVE  in \o <<a, b>> = Append(Append(in, a), b)
OBVIOUS

LEMMA MenuTyped ==
    ASSUME NEW B, Types(B), NEW p \in Peer, OpenMpMenu(p) \/ LeaveMpMenu(p)
    PROVE  Types(B)'
<1>1. CASE OpenMpMenu(p)
  BY <1>1 DEF OpenMpMenu, Types, Shape, Coupled
<1>2. CASE LeaveMpMenu(p)
  <2>1. /\ screen' = [screen EXCEPT ![p] = "menu"] /\ nstate' = [nstate EXCEPT ![p] = "INIT"]
        /\ UNCHANGED <<idx, tries, player, can_send, out_fifo, in_fifo, wire>>
    BY <1>2 DEF LeaveMpMenu
  <2>2. Shape(B)'
    BY <2>1 DEF Types, Shape, NetworkState
  <2>3. ASSUME NEW q \in Peer PROVE Coupled(q)'
    <3>1. NulMarked(in_fifo[q], nstate'[q])
      BY <2>1, NulMoves DEF Types, Shape, Coupled
    <3> QED
      BY <2>1, <3>1 DEF Types, Shape, Coupled
  <2> QED
    BY <2>2, <2>3 DEF Types
<1> QED
  BY <1>1, <1>2

LEMMA LineTyped ==
    ASSUME NEW B, Types(B), Sent \subseteq B, NEW p \in Peer, TransmitterEmpty(p) \/ Deliver(p)
    PROVE  Types(B)'
<1>1. wire[p] \in Seq(Sent) /\ out_fifo[p] \in Seq(Sent)
  BY DEF Types, Shape
<1>2. CASE TransmitterEmpty(p)
  <2>1. /\ can_send' = [can_send EXCEPT ![p] = (out_fifo[p] = <<>>)]
        /\ wire' = [wire EXCEPT ![p] = wire[p] \o out_fifo[p]]
        /\ out_fifo' = [out_fifo EXCEPT ![p] = <<>>]
        /\ UNCHANGED <<screen, nstate, idx, tries, player, in_fifo>>
    BY <1>2 DEF TransmitterEmpty
  <2>2. Shape(B)'
    <3>1. wire[p] \o out_fifo[p] \in Seq(Sent)
      BY <1>1, ConcatProperties
    <3>2. (out_fifo[p] = <<>>) \in BOOLEAN
      OBVIOUS
    <3>3. can_send' \in [Peer -> BOOLEAN]
      BY <2>1, <3>2, Zenon DEF Types, Shape
    <3>4. wire' \in [Peer -> Seq(Sent)] /\ out_fifo' \in [Peer -> Seq(Sent)]
      BY <2>1, <3>1 DEF Types, Shape
    <3> QED
      BY <2>1, <3>3, <3>4 DEF Types, Shape
  <2>3. ASSUME NEW q \in Peer PROVE Coupled(q)'
    <3>1. can_send'[q] => out_fifo'[q] = <<>>
      <4>1. CASE q = p
        BY <2>1, <4>1 DEF Types, Shape
      <4>2. CASE q # p
        <5>1. out_fifo'[q] = out_fifo[q] /\ can_send'[q] = can_send[q]
          BY <2>1, <4>2, Zenon DEF Types, Shape
        <5> QED
          BY <5>1, Zenon DEF Types, Coupled
      <4> QED
        BY <4>1, <4>2
    <3> QED
      BY <2>1, <3>1 DEF Types, Coupled
  <2> QED
    BY <2>2, <2>3 DEF Types
<1>3. CASE Deliver(p)
  <2>1. PICK o : o = Other(p)
    OBVIOUS
  <2>2. /\ wire' = [wire EXCEPT ![p] = Tail(wire[p])] /\ wire[p] # <<>>
        /\ in_fifo' = [in_fifo EXCEPT ![o] = Append(in_fifo[o], Head(wire[p]))]
        /\ UNCHANGED <<screen, nstate, idx, tries, player, can_send, out_fifo>>
    BY <1>3, <2>1 DEF Deliver
  <2>3. /\ Tail(wire[p]) \in Seq(Sent) /\ Head(wire[p]) \in B /\ Head(wire[p]) # "NUL"
        /\ o \in Peer /\ in_fifo[o] \in Seq(B)
    <3>1. Tail(wire[p]) \in Seq(Sent) /\ Head(wire[p]) \in Sent
      BY <1>1, <2>2, HeadTailProperties
    <3> QED
      BY <2>1, <3>1, Others DEF Sent, Types, Shape
  <2>4. Shape(B)'
    <3>1. Append(in_fifo[o], Head(wire[p])) \in Seq(B)
      BY <2>3, AppendProperties
    <3> QED
      BY <2>2, <2>3, <3>1 DEF Types, Shape
  <2>5. ASSUME NEW q \in Peer PROVE Coupled(q)'
    <3>1. NulMarked(in_fifo'[q], nstate[q])
      <4>1. NulMarked(in_fifo[q], nstate[q])
        BY DEF Types, Coupled
      <4>2. CASE q # o
        BY <2>2, <4>1, <4>2 DEF Types, Shape
      <4>3. CASE q = o
        <5>1. in_fifo'[q] = Append(in_fifo[q], Head(wire[p]))
          BY <2>2, <2>3, <4>3 DEF Types, Shape
        <5> QED
          BY <2>3, <4>1, <4>3, <5>1, NulAppend
      <4> QED
        BY <4>2, <4>3
    <3> QED
      BY <2>2, <3>1 DEF Types, Coupled
  <2> QED
    BY <2>4, <2>5 DEF Types
<1> QED
  BY <1>2, <1>3

LEMMA DamageTyped ==
    ASSUME Types(Byte \cup {UART_ERROR_CODE}), Marked \/ "NUL" \notin NoiseByte,
           NEW p \in Peer, DeliverDamaged(p)
    PROVE  Types(Byte \cup {UART_ERROR_CODE})'
<1>1. PICK B, o, f : B = Byte \cup {UART_ERROR_CODE} /\ o = Other(p) /\ f = in_fifo[o]
  OBVIOUS
<1>2. o \in Peer /\ f \in Seq(B) /\ NulMarked(f, nstate[o]) /\ UART_ERROR_CODE \in B
  BY <1>1, Others DEF Types, Shape, Coupled
<1>3. PICK b \in NoiseByte, marked \in {TRUE, Marked} :
         in_fifo' = [in_fifo EXCEPT ![o] = f \o (IF marked THEN <<UART_ERROR_CODE, b>> ELSE <<b>>)]
  BY <1>1 DEF DeliverDamaged
<1>4. /\ wire' = [wire EXCEPT ![p] = Tail(wire[p])] /\ wire[p] # <<>>
      /\ UNCHANGED <<screen, nstate, idx, tries, player, can_send, out_fifo>>
  BY DEF DeliverDamaged
<1>5. b \in B /\ UART_ERROR_CODE # "NUL"
  BY <1>1, NoiseAssumption DEF UART_ERROR_CODE
<1>6. PICK g : in_fifo' = [in_fifo EXCEPT ![o] = g] /\ g \in Seq(B) /\ NulMarked(g, nstate[o])
  <2>1. Append(f, UART_ERROR_CODE) \in Seq(B) /\ NulMarked(Append(f, UART_ERROR_CODE), nstate[o])
    BY <1>2, <1>5, AppendProperties, NulAppend
  <2>2. CASE marked
    <3>1. f \o <<UART_ERROR_CODE, b>> = Append(Append(f, UART_ERROR_CODE), b)
      BY <1>2, <1>5, AppendTwice
    <3>2. NulMarked(Append(Append(f, UART_ERROR_CODE), b), nstate[o])
      <4>1. PICK h : h = Append(f, UART_ERROR_CODE)
        OBVIOUS
      <4>2. h \in Seq(B) /\ NulMarked(h, nstate[o]) /\ Len(h) > 0 /\ h[Len(h)] = UART_ERROR_CODE
        BY <1>2, <1>5, <2>1, <4>1, NulAppend
      <4> QED
        BY <1>5, <4>1, <4>2, NulAppend
    <3>3. Append(Append(f, UART_ERROR_CODE), b) \in Seq(B)
      BY <1>5, <2>1, AppendProperties
    <3> QED
      BY <1>3, <2>2, <3>1, <3>2, <3>3
  <2>3. CASE ~marked
    <3>1. b # "NUL"
      BY <1>3, <2>3
    <3>2. f \o <<b>> = Append(f, b)
      BY <1>2, <1>5, AppendIsConcat
    <3>3. Append(f, b) \in Seq(B) /\ NulMarked(Append(f, b), nstate[o])
      BY <1>2, <1>5, <3>1, AppendProperties, NulAppend
    <3> QED
      BY <1>3, <2>3, <3>2, <3>3
  <2> QED
    BY <2>2, <2>3
<1>7. Shape(B)'
  <2>1. Tail(wire[p]) \in Seq(Sent)
    BY <1>4, HeadTailProperties DEF Types, Shape
  <2>2. Shape(B)
    BY <1>1 DEF Types
  <2> QED
    BY <1>2, <1>4, <1>6, <2>1, <2>2 DEF Shape
<1>8. ASSUME NEW q \in Peer PROVE Coupled(q)'
  <2>1. NulMarked(in_fifo'[q], nstate[q])
    <3>1. in_fifo \in [Peer -> Seq(B)] /\ NulMarked(in_fifo[q], nstate[q])
      BY <1>1 DEF Types, Shape, Coupled
    <3> QED
      BY <1>6, <3>1
  <2> QED
    BY <1>4, <2>1 DEF Types, Coupled
<1> QED
  BY <1>1, <1>7, <1>8 DEF Types

LEMMA InitTyped ==
    ASSUME NEW B, Init PROVE Types(B)
<1>1. Shape(B)
  <2>1. <<>> \in Seq(Sent) /\ <<>> \in Seq(B) /\ 0 \in Index /\ 0 \in Side /\ 0 \in 0..SyncTries
        /\ "CLEANUP" \in NetworkState
    BY NetworkingConstants DEF Index, Side, NetworkState
  <2>2. can_send \in [Peer -> BOOLEAN]
    BY DEF Init
  <2> QED
    BY <2>1, <2>2 DEF Init, Shape
<1>2. ASSUME NEW p \in Peer PROVE Coupled(p)
  <2>1. NulMarked(<<>>, nstate[p])
    BY DEF NulMarked
  <2> QED
    BY <2>1 DEF Init, Coupled
<1> QED
  BY <1>1, <1>2 DEF Types

(***************************************************************************)
(* Each machine keeps to the types of its state: the index into the        *)
(* password stays within the string and its NUL, the tries within their    *)
(* limit, the side is 0, 1 or 2.  It needs that a damaged byte read as NUL *)
(* comes behind its error marker: an unmarked one, read by a machine that  *)
(* has sent the whole password, matches the NUL behind it and takes the    *)
(* index out of the string.                                                *)
(***************************************************************************)
THEOREM NetworkingTypeCorrect ==
    ASSUME Marked \/ "NUL" \notin NoiseByte
    PROVE  Spec => []TypeOK
<1>1. ASSUME Init PROVE Types(Byte \cup {UART_ERROR_CODE})
  BY <1>1, InitTyped
<1>2. ASSUME Types(Byte \cup {UART_ERROR_CODE}), [Next]_vars
      PROVE  Types(Byte \cup {UART_ERROR_CODE})'
  <2>1. Sent \subseteq Byte \cup {UART_ERROR_CODE}
    BY DEF Sent
  <2>2. CASE UNCHANGED vars
    BY <1>2, <2>2 DEF vars, Types, Shape, Coupled
  <2>3. ASSUME NEW p \in Peer, game_handler(p) PROVE Types(Byte \cup {UART_ERROR_CODE})'
    BY <1>2, <2>3, TickTyped
  <2>4. ASSUME NEW p \in Peer, OpenMpMenu(p) \/ LeaveMpMenu(p)
        PROVE  Types(Byte \cup {UART_ERROR_CODE})'
    BY <1>2, <2>4, MenuTyped
  <2>5. ASSUME NEW p \in Peer, TransmitterEmpty(p) \/ Deliver(p)
        PROVE  Types(Byte \cup {UART_ERROR_CODE})'
    BY <1>2, <2>1, <2>5, LineTyped
  <2>6. ASSUME NEW p \in Peer, DeliverDamaged(p) PROVE Types(Byte \cup {UART_ERROR_CODE})'
    BY <1>2, <2>6, DamageTyped
  <2> QED
    BY <1>2, <2>2, <2>3, <2>4, <2>5, <2>6 DEF Next
<1>3. ASSUME Types(Byte \cup {UART_ERROR_CODE}) PROVE TypeOK
  <2>1. Seq(Sent) \subseteq Seq(Byte) /\ Index = 0..UART_PASSWORD_SIZE
    BY Strings DEF Sent, Index
  <2> QED
    BY <1>3, <2>1 DEF Types, Shape, TypeOK, Side
<1> QED
  BY <1>1, <1>2, <1>3, PTL DEF Spec

-----------------------------------------------------------------------------
(* Both machines together, over a line that damages nothing.               *)

LEMMA AgreeBack ==
    ASSUME NEW a, NEW x, NEW b, NEW y, Agree(a, x, b, y) PROVE Agree(b, y, a, x)
BY DEF Agree

LEMMA StageIs ==
    ASSUME Types(Sent), NEW p \in Peer
    PROVE  /\ StageOf(p) \in At
           /\ screen[p] = "menu" => StageOf(p) = Away
           /\ screen[p] # "menu" => StageOf(p) = StageIn(Local(p))
           /\ Hears(StageOf(p)) <=> Listening(p)
           /\ Got(p) = GotIn(Local(p)) /\ Got(p) \in Seq(Sent)
<1>1. Local(p) \in LocalSet(Sent, {can_send[p]}) /\ Local(p).ns \in NetworkState
  BY Shares DEF LocalOK, LocalSet
<1>2. screen[p] # "menu" => StageOf(p) = StageIn(Local(p))
  BY SameLocal DEF StageOf, StageIn
<1>3. Got(p) = GotIn(Local(p)) /\ Got(p) \in Seq(Sent)
  BY SameLocal DEF Got, GotIn, Listening, Types, Shape
<1>4. CASE screen[p] = "menu"
  <2>1. StageOf(p) = Away /\ ~Listening(p)
    BY <1>4 DEF StageOf, Listening, Types, Coupled
  <2> QED
    BY <1>2, <1>3, <1>4, <2>1, Apart DEF At
<1>5. CASE screen[p] # "menu"
  <2>1. StageIn(Local(p)) \in At
    BY <1>1, Stages
  <2>2. Listening(p) => Hears(StageIn(Local(p)))
    BY <1>1, SameLocal, Stages DEF Listening, Hears
  <2>3. ~Listening(p) => StageIn(Local(p)) \in {Second, First, Joining, Away}
    BY <1>1, SameLocal, Stages DEF Listening, NetworkState
  <2> QED
    BY <1>2, <1>3, <1>5, <2>1, <2>2, <2>3, Apart
<1> QED
  BY <1>4, <1>5

\* What q has yet to read, where p sends it.
LEMMA ToIs ==
    ASSUME Types(Sent), NEW p \in Peer, NEW q \in Peer, q = Other(p)
    PROVE  /\ To(q) = Got(q) \o (wire[p] \o out_fifo[p]) /\ To(q) \in Seq(Sent)
           /\ To(q)' = Got(q)' \o (wire'[p] \o out_fifo'[p])
           /\ wire[p] \in Seq(Sent) /\ out_fifo[p] \in Seq(Sent) /\ Got(q) \in Seq(Sent)
           /\ wire[p] \o out_fifo[p] \in Seq(Sent)
<1>1. wire[p] \in Seq(Sent) /\ out_fifo[p] \in Seq(Sent) /\ Got(q) \in Seq(Sent)
  BY StageIs DEF Types, Shape
<1>2. wire[p] \o out_fifo[p] \in Seq(Sent) /\ Got(q) \o (wire[p] \o out_fifo[p]) \in Seq(Sent)
  BY <1>1, ConcatProperties
<1>3. Other(q) = p
  BY Others
<1> QED
  BY <1>1, <1>2, <1>3 DEF To

LEMMA BothAgree ==
    ASSUME NEW p \in Peer, NEW q \in Peer, q = Other(p)
    PROVE  /\ HandshakeInv => Agree(StageOf(p), To(p), StageOf(q), To(q))
           /\ Agree(StageOf(p), To(p), StageOf(q), To(q))' => HandshakeInv'
<1>1. Other(q) = p /\ \A r \in Peer : r = p \/ r = q
  BY Others
<1>2. HandshakeInv => Agree(StageOf(p), To(p), StageOf(q), To(q))
  BY DEF HandshakeInv
<1>3. ASSUME Agree(StageOf(p), To(p), StageOf(q), To(q))'
      PROVE  HandshakeInv'
  <2>1. Agree(StageOf(q), To(q), StageOf(p), To(p))'
    BY <1>3, AgreeBack
  <2> QED
    BY <1>1, <1>3, <2>1 DEF HandshakeInv
<1> QED
  BY <1>2, <1>3

LEMMA TickAgrees ==
    ASSUME Types(Sent), HandshakeInv, NEW p \in Peer, game_handler(p)
    PROVE  HandshakeInv'
<1>1. PICK q \in Peer : q = Other(p) /\ q # p /\ p = Other(q)
  BY Others
<1>2. PICK k, l : k = Local(p) /\ l = uart_sync(k)
  OBVIOUS
<1>3. LocalOK(k, Sent, {can_send[p]}) /\ k.sent = <<>> /\ k.out = out_fifo[p]
  BY <1>2, Shares, SameLocal
<1>4. PICK b, v, w : b = StageOf(q) /\ v = Got(q) \o wire[p] /\ w = wire[q] \o out_fifo[q]
  OBVIOUS
<1>5. /\ To(q) = Got(q) \o (wire[p] \o out_fifo[p]) /\ Got(q) \in Seq(Sent)
      /\ To(q)' = Got(q)' \o (wire'[p] \o out_fifo'[p])
      /\ wire[p] \in Seq(Sent) /\ out_fifo[p] \in Seq(Sent)
  BY <1>1, ToIs
<1>6. /\ To(p) = Got(p) \o w /\ To(p)' = Got(p)' \o (wire'[q] \o out_fifo'[q])
      /\ w \in Seq(Sent)
  BY <1>1, <1>4, ToIs
<1>7. b \in At /\ v \in Seq(Sent)
  BY <1>4, <1>5, StageIs, ConcatProperties
<1>8. Agree(StageOf(p), To(p), b, To(q))
  BY <1>1, <1>4, BothAgree
<1>9. Joint(k, v, b, w)
  <2>1. StageIn(k) = StageOf(p) /\ GotIn(k) = Got(p)
    BY <1>2, StageIs DEF game_handler
  <2>2. Flow(k) = out_fifo[p]
    BY <1>3, <1>5, ConcatEmptySeq DEF Flow
  <2>3. v \o out_fifo[p] = To(q)
    <3>1. Got(q) \o (wire[p] \o out_fifo[p]) = (Got(q) \o wire[p]) \o out_fifo[p]
      <4>1. PICK g, x, t \in Seq(Sent) : g = Got(q) /\ x = wire[p] /\ t = out_fifo[p]
        BY <1>5
      <4>2. g \o (x \o t) = (g \o x) \o t
        <5>1. Right(g, x, t) = LeftFirst(g, x, t)
          BY Regroup
        <5> QED
          BY <5>1, Zenon DEF Right, LeftFirst
      <4> QED
        BY <4>1, <4>2, Zenon
    <3> QED
      BY <1>4, <1>5, <3>1, Zenon
  <2> QED
    BY <1>6, <1>8, <2>1, <2>2, <2>3 DEF Joint
<1>10. Joint(l, v, b, w) /\ LocalOK(l, Sent, {can_send[p]})
  <2>1. LocalOK(uart_sync(k), Sent, {can_send[p]})
    BY <1>3, SyncTyped
  <2>2. Joint(uart_sync(k), v, b, w)
    BY <1>3, <1>6, <1>7, <1>9, SyncAgreesIn
  <2> QED
    BY <1>2, <2>1, <2>2
<1>11. l.sent \in Seq(Sent) /\ l.out \in Seq(Sent) /\ l.ns \in NetworkState
  BY <1>10 DEF LocalOK, LocalSet
<1>12. /\ nstate'[p] = (IF l.ns = "INIT" THEN "CLEANUP" ELSE l.ns) /\ idx'[p] = l.ix
       /\ screen'[p] = (IF l.ns = "INIT" THEN "menu" ELSE
                          IF l.ns = "CONNECTED" THEN "game" ELSE "mp")
       /\ player'[p] = l.pl /\ in_fifo'[p] = l.in
       /\ out_fifo'[p] = l.out /\ wire'[p] = wire[p] \o l.sent
  BY <1>2 DEF game_handler, Types, Shape
<1>13. /\ nstate'[q] = nstate[q] /\ idx'[q] = idx[q] /\ screen'[q] = screen[q]
       /\ player'[q] = player[q] /\ in_fifo'[q] = in_fifo[q]
       /\ out_fifo'[q] = out_fifo[q] /\ wire'[q] = wire[q]
  BY <1>1 DEF game_handler, Types, Shape
<1>14. StageOf(p)' = StageIn(l)
  <2>1. CASE l.ns = "INIT"
    BY <1>12, <2>1 DEF StageOf, StageIn, Stage
  <2>2. CASE l.ns # "INIT"
    BY <1>12, <2>2 DEF StageOf, StageIn
  <2> QED
    BY <2>1, <2>2
<1>15. Got(p)' = GotIn(l)
  BY <1>12 DEF Got, GotIn, Listening
<1>16. StageOf(q)' = b /\ Got(q)' = Got(q)
  BY <1>4, <1>13 DEF StageOf, Got, Listening
<1>17. To(p)' = GotIn(l) \o w
  BY <1>4, <1>6, <1>13, <1>15
<1>18. To(q)' = v \o Flow(l)
  <2>1. To(q)' = Got(q) \o ((wire[p] \o l.sent) \o l.out)
    BY <1>5, <1>12, <1>16
  <2>2. Got(q) \o ((wire[p] \o l.sent) \o l.out) = (Got(q) \o wire[p]) \o (l.sent \o l.out)
    <3>1. PICK g, x, s, t \in Seq(Sent) :
             g = Got(q) /\ x = wire[p] /\ s = l.sent /\ t = l.out
      BY <1>5, <1>11
    <3>2. g \o ((x \o s) \o t) = (g \o x) \o (s \o t)
      <4>1. PICK z \in Seq(Sent) : z = s \o t
        BY ConcatProperties
      <4>2. x \o (s \o t) = (x \o s) \o t
        <5>1. Right(x, s, t) = LeftFirst(x, s, t)
          BY Regroup
        <5> QED
          BY <5>1, Zenon DEF Right, LeftFirst
      <4>3. g \o (x \o z) = (g \o x) \o z
        <5>1. Right(g, x, z) = LeftFirst(g, x, z)
          BY Regroup
        <5> QED
          BY <5>1, Zenon DEF Right, LeftFirst
      <4> QED
        BY <4>1, <4>2, <4>3, Zenon
    <3> QED
      BY <3>1, <3>2, Zenon
  <2> QED
    BY <1>4, <2>1, <2>2, Zenon DEF Flow
<1>19. Agree(StageOf(p)', To(p)', StageOf(q)', To(q)')
  BY <1>10, <1>14, <1>16, <1>17, <1>18 DEF Joint
<1> QED
  BY <1>1, <1>19, BothAgree

LEMMA OpenAgrees ==
    ASSUME Types(Sent), HandshakeInv, NEW p \in Peer, OpenMpMenu(p), Settled(p)
    PROVE  HandshakeInv'
<1>1. PICK q \in Peer : q = Other(p) /\ q # p /\ p = Other(q)
  BY Others
<1>2. Agree(StageOf(p), To(p), StageOf(q), To(q)) /\ StageOf(q) \in At
  BY <1>1, BothAgree, StageIs
<1>3. /\ screen[p] = "menu" /\ screen' = [screen EXCEPT ![p] = "mp"] /\ screen'[p] = "mp"
      /\ screen'[q] = screen[q]
      /\ UNCHANGED <<nstate, idx, player, in_fifo, out_fifo, wire>>
  BY <1>1 DEF OpenMpMenu, Types, Shape
<1>4. StageOf(q)' = StageOf(q) /\ To(q)' = To(q) /\ To(p)' = To(p)
  BY <1>1, <1>3 DEF StageOf, To, Got, Listening
<1>5. StageOf(p) = Away
  BY <1>3, StageIs
<1>6. CASE nstate[p] = "CLEANUP"
  <2>1. StageOf(p)' = Joining
    BY <1>3, <1>6 DEF StageOf, Stage
  <2>2. To(q) = <<>> /\ (To(p) = <<>> \/ To(p) = <<"J">>)
    BY <1>1 DEF Settled
  <2>3. Agree(Joining, To(p), StageOf(q), To(q))
    BY <1>2, <1>5, <2>2, JoinAgrees
  <2> QED
    BY <1>1, <1>4, <2>1, <2>3, BothAgree
<1>7. CASE nstate[p] = "INIT"
  <2>1. StageOf(p)' = Away
    BY <1>3, <1>7 DEF StageOf, Stage
  <2> QED
    BY <1>1, <1>2, <1>4, <1>5, <2>1, BothAgree
<1> QED
  BY <1>3, <1>6, <1>7 DEF Types, Coupled

LEMMA LeaveAgrees ==
    ASSUME Types(Sent), HandshakeInv, NEW p \in Peer, LeaveMpMenu(p)
    PROVE  HandshakeInv'
<1>1. PICK q \in Peer : q = Other(p) /\ q # p /\ p = Other(q)
  BY Others
<1>2. Agree(StageOf(p), To(p), StageOf(q), To(q)) /\ StageOf(q) \in At
  BY <1>1, BothAgree, StageIs
<1>3. /\ screen[p] = "mp" /\ screen'[p] = "menu" /\ nstate'[p] = "INIT"
      /\ screen'[q] = screen[q] /\ nstate'[q] = nstate[q]
      /\ UNCHANGED <<idx, player, in_fifo, out_fifo, wire>>
  BY <1>1 DEF LeaveMpMenu, Types, Shape
<1>4. StageOf(q)' = StageOf(q) /\ To(q)' = To(q)
  BY <1>1, <1>3 DEF StageOf, To, Got, Listening
<1>5. PICK w : w = wire[q] \o out_fifo[q]
  OBVIOUS
<1>6. To(p) = Got(p) \o w /\ w \in Seq(Sent) /\ Got(p) \in Seq(Sent) /\ To(q) \in Seq(Sent)
  BY <1>1, <1>5, ToIs
<1>7. StageOf(p)' = Away /\ To(p)' = w
  <2>1. StageOf(p)' = Away /\ Got(p)' = <<>>
    BY <1>3 DEF StageOf, Got, Listening
  <2>2. To(p)' = Got(p)' \o (wire'[q] \o out_fifo'[q])
    BY <1>1, ToIs
  <2>3. To(p)' = <<>> \o w
    BY <1>3, <1>5, <2>1, <2>2
  <2> QED
    BY <1>6, <2>1, <2>3, ConcatEmptySeq
<1>8. nstate[p] \in NetworkState \ {"CONNECTED"} /\ StageOf(p) = Stage(nstate[p], idx[p], player[p])
  BY <1>3 DEF Types, Shape, Coupled, StageOf
<1>9. CASE StageOf(p) = Away
  <2>1. ~Listening(p)
    BY <1>9, StageIs, Apart
  <2>2. To(p) = w
    BY <1>6, <2>1, ConcatEmptySeq DEF Got
  <2> QED
    BY <1>1, <1>2, <1>4, <1>7, <1>9, <2>2, BothAgree
<1>10. CASE Hears(StageOf(p)) \/ StageOf(p) = Joining
  <2>1. (To(p) = <<>> => w = <<>>) /\ (Requested(w) => Requested(To(p)))
    BY <1>6, RequestedMore, ConcatEqualIffEmpty
  <2>2. Agree(Away, w, StageOf(q), To(q))
    BY <1>2, <1>6, <1>10, <2>1, AwayAgrees
  <2> QED
    BY <1>1, <1>4, <1>7, <2>2, BothAgree
<1>11. Hears(StageOf(p)) \/ StageOf(p) \in {Joining, Away}
  <2>1. CASE Listening(p)
    BY <2>1, StageIs
  <2>2. CASE ~Listening(p)
    BY <1>8, <2>2 DEF Listening, Stage, NetworkState
  <2> QED
    BY <2>1, <2>2
<1> QED
  BY <1>9, <1>10, <1>11

LEMMA TransmitterAgrees ==
    ASSUME Types(Sent), HandshakeInv, NEW p \in Peer, TransmitterEmpty(p)
    PROVE  HandshakeInv'
<1>1. PICK q \in Peer : q = Other(p) /\ q # p /\ p = Other(q)
  BY Others
<1>2. Agree(StageOf(p), To(p), StageOf(q), To(q))
  BY <1>1, BothAgree
<1>3. /\ wire'[p] = wire[p] \o out_fifo[p] /\ out_fifo'[p] = <<>>
      /\ wire'[q] = wire[q] /\ out_fifo'[q] = out_fifo[q]
      /\ UNCHANGED <<screen, nstate, idx, player, in_fifo>>
  BY <1>1 DEF TransmitterEmpty, Types, Shape
<1>4. /\ StageOf(p)' = StageOf(p) /\ StageOf(q)' = StageOf(q)
      /\ Got(p)' = Got(p) /\ Got(q)' = Got(q)
  BY <1>3 DEF StageOf, Got, Listening
<1>5. To(p)' = To(p)
  BY <1>1, <1>3, <1>4 DEF To
<1>6. To(q)' = To(q)
  <2>1. /\ To(q) = Got(q) \o (wire[p] \o out_fifo[p])
        /\ To(q)' = Got(q)' \o (wire'[p] \o out_fifo'[p])
        /\ wire[p] \o out_fifo[p] \in Seq(Sent)
    BY <1>1, ToIs
  <2>2. PICK z \in Seq(Sent) : z = wire[p] \o out_fifo[p]
    BY <2>1
  <2>3. z \o <<>> = z
    BY ConcatEmptySeq
  <2> QED
    BY <1>3, <1>4, <2>1, <2>2, <2>3, Zenon
<1> QED
  BY <1>1, <1>2, <1>4, <1>5, <1>6, BothAgree

\* The next byte on the wire, read later or drained.
LEMMA Arrives ==
    ASSUME NEW g \in Seq(Sent), NEW x \in Seq(Sent), NEW t \in Seq(Sent), x # <<>>
    PROVE  /\ Append(g, Head(x)) \o (Tail(x) \o t) = g \o (x \o t)
           /\ Tail(x) \o t = Tail(x \o t) /\ x \o t # <<>>
<1>1. PICK h \in Sent, u \in Seq(Sent) : h = Head(x) /\ u = Tail(x) /\ x = <<h>> \o u
  <2>1. Head(x) \in Sent /\ Tail(x) \in Seq(Sent)
    BY HeadTailProperties
  <2>2. <<Head(x)>> \o Tail(x) = x
    OBVIOUS
  <2> QED
    BY <2>1, <2>2
<1>2. PICK e, z \in Seq(Sent) : e = <<h>> /\ z = u \o t
  <2>1. <<h>> \in Seq(Sent)
    OBVIOUS
  <2>2. u \o t \in Seq(Sent)
    BY ConcatProperties
  <2> QED
    BY <2>1, <2>2, Zenon
<1>3. Append(g, h) = g \o e
  BY <1>2, AppendIsConcat
<1>4. g \o (e \o z) = (g \o e) \o z
  <2>1. Right(g, e, z) = LeftFirst(g, e, z)
    BY Regroup
  <2> QED
    BY <2>1, Zenon DEF Right, LeftFirst
<1>5. e \o (u \o t) = (e \o u) \o t
  <2>1. Right(e, u, t) = LeftFirst(e, u, t)
    BY Regroup
  <2> QED
    BY <2>1, Zenon DEF Right, LeftFirst
<1>6. Append(g, Head(x)) \o (Tail(x) \o t) = g \o (x \o t)
  BY <1>1, <1>2, <1>3, <1>4, <1>5, Zenon
<1>7. Tail(x) \o t = Tail(x \o t) /\ x \o t # <<>>
  BY Reading
<1> QED
  BY <1>6, <1>7

LEMMA DeliverAgrees ==
    ASSUME Types(Sent), HandshakeInv, NEW p \in Peer, Deliver(p)
    PROVE  HandshakeInv'
<1>1. PICK q \in Peer : q = Other(p) /\ q # p /\ p = Other(q)
  BY Others
<1>2. Agree(StageOf(p), To(p), StageOf(q), To(q))
  BY <1>1, BothAgree
<1>3. /\ wire[p] # <<>> /\ wire'[p] = Tail(wire[p]) /\ wire'[q] = wire[q]
      /\ in_fifo'[q] = Append(in_fifo[q], Head(wire[p])) /\ in_fifo'[p] = in_fifo[p]
      /\ UNCHANGED <<screen, nstate, idx, player, out_fifo>>
  BY <1>1 DEF Deliver, Types, Shape
<1>4. StageOf(p)' = StageOf(p) /\ StageOf(q)' = StageOf(q) /\ Got(p)' = Got(p)
  BY <1>3 DEF StageOf, Got, Listening
<1>5. To(p)' = To(p)
  BY <1>1, <1>3, <1>4 DEF To
<1>6. /\ To(q) = Got(q) \o (wire[p] \o out_fifo[p]) /\ To(q) \in Seq(Sent)
      /\ To(q)' = Got(q)' \o (Tail(wire[p]) \o out_fifo[p])
  BY <1>1, <1>3, ToIs
<1>7. PICK g, x, t \in Seq(Sent) : g = Got(q) /\ x = wire[p] /\ t = out_fifo[p]
  BY <1>1, ToIs
<1>8. /\ Append(g, Head(x)) \o (Tail(x) \o t) = g \o (x \o t)
      /\ Tail(x) \o t = Tail(x \o t) /\ x \o t # <<>> /\ x \o t \in Seq(Sent)
  <2>1. x # <<>>
    BY <1>3, <1>7
  <2>2. Append(g, Head(x)) \o (Tail(x) \o t) = g \o (x \o t)
    BY <2>1, Arrives
  <2>3. Tail(x) \o t = Tail(x \o t) /\ x \o t # <<>>
    BY <2>1, Arrives
  <2>4. x \o t \in Seq(Sent)
    BY ConcatProperties
  <2> QED
    BY <2>2, <2>3, <2>4
<1>9. CASE Listening(q)
  <2>1. Got(q)' = Append(g, Head(x))
    BY <1>3, <1>7, <1>9 DEF Got, Listening
  <2>2. To(q)' = To(q)
    BY <1>6, <1>7, <1>8, <2>1, Zenon
  <2> QED
    BY <1>1, <1>2, <1>4, <1>5, <2>2, BothAgree
<1>10. CASE ~Listening(q)
  <2>1. Got(q)' = <<>> /\ Got(q) = <<>>
    BY <1>3, <1>10 DEF Got, Listening
  <2>2. PICK z \in Seq(Sent) : z = x \o t
    BY <1>8
  <2>3. z # <<>> /\ Tail(z) \in Seq(Sent) /\ <<>> \o z = z /\ <<>> \o Tail(z) = Tail(z)
    BY <1>8, <2>2, HeadTailProperties, ConcatEmptySeq
  <2>4. To(q) = z /\ To(q)' = Tail(z)
    <3>1. To(q) = <<>> \o z
      BY <1>6, <1>7, <2>1, <2>2, Zenon
    <3>2. To(q)' = <<>> \o Tail(z)
      BY <1>6, <1>7, <1>8, <2>1, <2>2, Zenon
    <3> QED
      BY <2>3, <3>1, <3>2, Zenon
  <2>5. ~Hears(StageOf(q))
    BY <1>10, StageIs
  <2>6. Agree(StageOf(q), z, StageOf(p), To(p))
    BY <1>2, <2>4, AgreeBack
  <2>7. Agree(StageOf(q), Tail(z), StageOf(p), To(p))
    BY <2>3, <2>5, <2>6, DrainAgrees
  <2>8. Agree(StageOf(p), To(p), StageOf(q), Tail(z))
    BY <2>7, AgreeBack
  <2> QED
    BY <1>1, <1>4, <1>5, <2>4, <2>8, BothAgree
<1> QED
  BY <1>9, <1>10

LEMMA InitAgrees ==
    ASSUME Init PROVE HandshakeInv
<1>1. SUFFICES ASSUME NEW p \in Peer
               PROVE  Agree(StageOf(p), To(p), StageOf(Other(p)), To(Other(p)))
  BY DEF HandshakeInv
<1>2. \A q \in Peer : StageOf(q) = Away /\ To(q) = <<>>
  <2>1. SUFFICES ASSUME NEW q \in Peer PROVE StageOf(q) = Away /\ To(q) = <<>>
    OBVIOUS
  <2>2. Other(q) \in Peer
    BY Others
  <2>3. Got(q) = <<>> /\ wire[Other(q)] = <<>> /\ out_fifo[Other(q)] = <<>>
    BY <2>2 DEF Init, Got, Listening
  <2>4. StageOf(q) = Away
    BY DEF Init, StageOf
  <2> QED
    BY <2>3, <2>4 DEF To
<1>3. Left(Away, <<>>, <<>>)
  BY Apart DEF Left, Requested
<1> QED
  BY <1>2, <1>3, Others, Apart DEF Agree

LEMMA SidesFollow ==
    ASSUME Types(Sent), HandshakeInv PROVE SidesAgree
<1>1. ASSUME NEW p \in Peer, Connected(p)
      PROVE  /\ StageOf(p) = IF player[p] = 2 THEN Second ELSE First
             /\ player[p] \in {1, 2}
  <2>1. screen[p] = "game" /\ player[p] # 0 /\ player[p] \in 0..2
    BY <1>1 DEF Connected, Types, Shape, Coupled, Side
  <2> QED
    BY <1>1, <2>1 DEF StageOf, Stage, Connected
<1>2. ASSUME NEW p \in Peer, StageOf(p) = Second PROVE Connected(p) /\ player[p] = 2
  <2>1. screen[p] # "menu" /\ Stage(nstate[p], idx[p], player[p]) = Second
    BY <1>2, Apart DEF StageOf
  <2>2. nstate[p] \in NetworkState /\ idx[p] \in 0..5
    BY DEF Types, Shape, Index
  <2> QED
    BY <2>1, <2>2 DEF Stage, Second, First, Joining, Away, NetworkState, Connected
<1>3. ASSUME NEW p \in Peer
      PROVE  /\ StageOf(p) = First => StageOf(Other(p)) = Second
             /\ StageOf(p) = Second => StageOf(Other(p)) # Second
  <2>1. Agree(StageOf(p), To(p), StageOf(Other(p)), To(Other(p)))
    BY DEF HandshakeInv
  <2> QED
    BY <2>1, Apart DEF Agree, Plays
<1>4. FirstImpliesSecond
  BY <1>1, <1>2, <1>3, Others DEF FirstImpliesSecond
<1>5. DistinctPlayers
  <2>1. SUFFICES ASSUME NEW p \in Peer, NEW q \in Peer, p # q, Connected(p), Connected(q)
                 PROVE  player[p] # player[q]
    BY DEF DistinctPlayers
  <2>2. q = Other(p)
    BY <2>1, Others
  <2>3. /\ StageOf(p) = First => StageOf(q) = Second
        /\ StageOf(p) = Second => StageOf(q) # Second
    BY <2>2, <1>3
  <2> QED
    BY <1>1, <2>1, <2>3, Apart
<1> QED
  BY <1>4, <1>5 DEF SidesAgree

\* While nothing has been damaged.
Undamaged == noise \in Nat /\ (noise = 0 => (Types(Sent) /\ HandshakeInv))

LEMMA UndamagedInit ==
    ASSUME Init PROVE Undamaged
BY InitTyped, InitAgrees DEF Undamaged, Init

LEMMA UndamagedStep ==
    ASSUME Undamaged, [Next]_vars,
           UNCHANGED vars \/ \A p \in Peer : (noise = 0 /\ OpenMpMenu(p)) => Settled(p)
    PROVE  Undamaged'
<1>1. CASE UNCHANGED vars
  BY <1>1 DEF vars, Undamaged, Types, Shape, Coupled, HandshakeInv, StageOf, To, Got, Listening
<1> SUFFICES ASSUME \A p \in Peer : (noise = 0 /\ OpenMpMenu(p)) => Settled(p)
             PROVE  Undamaged'
  BY <1>1
<1>2. ASSUME NEW p \in Peer, DeliverDamaged(p) PROVE Undamaged'
  BY <1>2 DEF DeliverDamaged, Undamaged
<1>3. ASSUME noise' = noise, noise = 0 => (Types(Sent)' /\ HandshakeInv') PROVE Undamaged'
  BY <1>3 DEF Undamaged
<1>4. ASSUME NEW p \in Peer, game_handler(p) PROVE Undamaged'
  BY <1>3, <1>4, TickTyped, TickAgrees DEF Undamaged, game_handler
<1>5. ASSUME NEW p \in Peer, OpenMpMenu(p) PROVE Undamaged'
  BY <1>3, <1>5, MenuTyped, OpenAgrees DEF Undamaged, OpenMpMenu
<1>6. ASSUME NEW p \in Peer, LeaveMpMenu(p) PROVE Undamaged'
  BY <1>3, <1>6, MenuTyped, LeaveAgrees DEF Undamaged, LeaveMpMenu
<1>7. ASSUME NEW p \in Peer, TransmitterEmpty(p) PROVE Undamaged'
  BY <1>3, <1>7, LineTyped, TransmitterAgrees DEF Undamaged, TransmitterEmpty
<1>8. ASSUME NEW p \in Peer, Deliver(p) PROVE Undamaged'
  BY <1>3, <1>8, LineTyped, DeliverAgrees DEF Undamaged, Deliver
<1> QED
  BY <1>1, <1>2, <1>4, <1>5, <1>6, <1>7, <1>8 DEF Next

(***************************************************************************)
(* The two machines take different sides, and player 1 never starts alone, *)
(* for as long as the line has damaged nothing and users who open the      *)
(* multiplayer menu find the line settled: no byte under way but, perhaps, *)
(* the other one's request.                                                *)
(***************************************************************************)
THEOREM SidesAgreeUndamaged ==
    Spec /\ [][\A p \in Peer : OpenMpMenu(p) => Settled(p)]_vars => [](noise = 0 => SidesAgree)
<1>1. Undamaged => (noise = 0 => SidesAgree)
  BY SidesFollow DEF Undamaged
<1>2. Init => Undamaged
  BY UndamagedInit
<1>3. Undamaged /\ [Next]_vars /\ [\A p \in Peer : OpenMpMenu(p) => Settled(p)]_vars => Undamaged'
  BY UndamagedStep
<1> QED
  BY <1>1, <1>2, <1>3, PTL DEF Spec

-----------------------------------------------------------------------------
(* When every user opens the multiplayer menu once, the line is settled    *)
(* whenever one does: a machine that nobody answers sends its request and  *)
(* gives up.                                                               *)

Under(p) == wire[p] \o out_fifo[p]

\* p has not opened the menu yet, q is the other one.
Alone(p, q) ==
    /\ screen[p] = "menu" /\ wire[p] = <<>> /\ out_fifo[p] = <<>> /\ in_fifo[q] = <<>>
    /\ nstate[q] \in {"CLEANUP", "WAITING", "INIT"}
    /\ Under(q) = <<>> \/ Under(q) = <<"J">>
    /\ (joins[q] = 0 \/ (screen[q] = "mp" /\ nstate[q] = "CLEANUP")) => Under(q) = <<>>

Once ==
    /\ joins \in [Peer -> Nat]
    /\ \A p \in Peer : joins[p] = 0 => Alone(p, Other(p))

LEMMA AloneSync ==
    ASSUME NEW C, NEW l, LocalOK(l, Sent, C), l.sent = <<>>, l.in = <<>>,
           l.ns \in {"CLEANUP", "WAITING", "INIT"}
    PROVE  /\ uart_sync(l) \in LocalSet(Sent, C)
           /\ uart_sync(l).in = <<>> /\ uart_sync(l).ns \in {"WAITING", "INIT"}
           /\ l.ns = "CLEANUP" => Flow(uart_sync(l)) = <<"J">>
           /\ l.ns # "CLEANUP" => Flow(uart_sync(l)) = Flow(l)
<1>1. PICK k : k = sync_cleanup(l)
  OBVIOUS
<1>2. /\ LocalOK(k, Sent, C) /\ k.in = <<>> /\ k.ns \in {"WAITING", "INIT"}
      /\ l.ns = "CLEANUP" => Flow(k) = <<"J">>
      /\ l.ns # "CLEANUP" => Flow(k) = Flow(l)
  <2>1. CASE l.ns = "CLEANUP"
    BY <1>1, <2>1, CleanupTyped
  <2>2. CASE l.ns # "CLEANUP"
    BY <1>1, <2>2, CleanupTyped
  <2> QED
    BY <2>1, <2>2
<1>3. PICK m : m = sync_link(k)
  OBVIOUS
<1>4. m \in LocalSet(Sent, C) /\ m.in = <<>> /\ m.ns \in {"WAITING", "INIT"} /\ Flow(m) = Flow(k)
  <2>1. CASE k.ns = "INIT"
    BY <1>2, <1>3, <2>1 DEF sync_link, LocalOK
  <2>2. CASE k.ns = "WAITING"
    <3>1. PICK r : r = Outcome(k, 2)
      OBVIOUS
    <3>2. m = Judge(r) /\ r.l = k /\ r.err = 2
      BY <1>2, <1>3, <2>2, <3>1 DEF sync_link, Outcome
    <3>3. r.l \in LocalSet(Sent, C) /\ InOrder(r.l) /\ r.err \in {0, 1, 2}
      BY <1>2, <3>2 DEF LocalOK
    <3>4. /\ Judge(r) \in LocalSet(Sent, C) /\ Flow(Judge(r)) = Flow(r.l) /\ Judge(r).in = r.l.in
          /\ r.err = 2 => \/ Judge(r).ns = "INIT"
                          \/ Judge(r).ns = r.l.ns /\ Judge(r).ix = r.l.ix
      BY <3>3, Judges
    <3> QED
      BY <1>2, <2>2, <3>2, <3>4
  <2> QED
    BY <1>2, <2>1, <2>2
<1>5. uart_sync(l) = m
  BY <1>1, <1>3, <1>4 DEF uart_sync, sync_connect
<1> QED
  BY <1>2, <1>4, <1>5

LEMMA UnderIs ==
    ASSUME Types(Sent), NEW p \in Peer
    PROVE  /\ wire[p] \in Seq(Sent) /\ out_fifo[p] \in Seq(Sent)
           /\ Under(p) = <<>> => wire[p] = <<>> /\ out_fifo[p] = <<>>
<1>1. wire[p] \in Seq(Sent) /\ out_fifo[p] \in Seq(Sent)
  BY DEF Types, Shape
<1> QED
  BY <1>1, ConcatEqualIffEmpty DEF Under

LEMMA OnceTick ==
    ASSUME Types(Sent), Once, NEW q \in Peer, game_handler(q)
    PROVE  Once'
<1>1. SUFFICES ASSUME NEW p \in Peer, joins[p] = 0 PROVE Alone(p, Other(p))'
  BY DEF Once, game_handler
<1>2. Alone(p, Other(p)) /\ screen[q] = "mp"
  BY <1>1 DEF Once, game_handler
<1>3. q = Other(p) /\ q # p /\ p = Other(q)
  BY <1>1, <1>2, Others DEF Alone
<1>4. Alone(p, q)
  BY <1>2, <1>3
<1>5. joins[q] # 0
  BY <1>2, <1>3 DEF Once, Alone
<1>6. PICK k, l : k = Local(q) /\ l = uart_sync(k)
  OBVIOUS
<1>7. /\ LocalOK(k, Sent, {can_send[q]}) /\ k.sent = <<>> /\ k.in = <<>> /\ k.ns = nstate[q]
      /\ k.out = out_fifo[q] /\ k.ns \in {"CLEANUP", "WAITING", "INIT"}
  BY <1>4, <1>6, Shares, SameLocal DEF Alone
<1>8. /\ l \in LocalSet(Sent, {can_send[q]}) /\ l.in = <<>> /\ l.ns \in {"WAITING", "INIT"}
      /\ k.ns = "CLEANUP" => Flow(l) = <<"J">>
      /\ k.ns # "CLEANUP" => Flow(l) = Flow(k)
  BY <1>6, <1>7, AloneSync
<1>9. l.sent \in Seq(Sent) /\ l.out \in Seq(Sent)
  BY <1>8 DEF LocalSet
<1>10. /\ nstate'[q] = (IF l.ns = "INIT" THEN "CLEANUP" ELSE l.ns)
       /\ screen'[q] = (IF l.ns = "INIT" THEN "menu" ELSE
                          IF l.ns = "CONNECTED" THEN "game" ELSE "mp")
       /\ in_fifo'[q] = l.in /\ out_fifo'[q] = l.out /\ wire'[q] = wire[q] \o l.sent
       /\ joins' = joins
       /\ screen'[p] = screen[p] /\ wire'[p] = wire[p] /\ out_fifo'[p] = out_fifo[p]
  BY <1>3, <1>6 DEF game_handler, Types, Shape
<1>11. wire[q] \in Seq(Sent) /\ out_fifo[q] \in Seq(Sent) /\ (Under(q) = <<>> => wire[q] = <<>>)
  BY UnderIs
<1>12. Under(q)' = wire[q] \o Flow(l)
  <2>1. PICK x, s, t \in Seq(Sent) : x = wire[q] /\ s = l.sent /\ t = l.out
    BY <1>9, <1>11
  <2>2. x \o (s \o t) = (x \o s) \o t
    <3>1. Right(x, s, t) = LeftFirst(x, s, t)
      BY Regroup
    <3> QED
      BY <3>1, Zenon DEF Right, LeftFirst
  <2>3. Under(q)' = (wire[q] \o l.sent) \o l.out
    BY <1>10 DEF Under
  <2> QED
    BY <2>1, <2>2, <2>3, Zenon DEF Flow
<1>13. Under(q)' = <<>> \/ Under(q)' = <<"J">>
  <2>1. CASE k.ns = "CLEANUP"
    <3>1. wire[q] = <<>> /\ Flow(l) = <<"J">>
      BY <1>2, <1>4, <1>7, <1>8, <1>11, <2>1 DEF Alone
    <3>2. <<>> \o <<"J">> = <<"J">>
      OBVIOUS
    <3> QED
      BY <1>12, <3>1, <3>2
  <2>2. CASE k.ns # "CLEANUP"
    <3>1. Flow(k) = out_fifo[q]
      BY <1>7, <1>11, ConcatEmptySeq DEF Flow
    <3> QED
      BY <1>4, <1>8, <1>12, <2>2, <3>1 DEF Alone, Under
  <2> QED
    BY <2>1, <2>2
<1>14. Alone(p, q)'
  BY <1>4, <1>5, <1>8, <1>10, <1>13 DEF Alone
<1> QED
  BY <1>3, <1>14

LEMMA OnceMenu ==
    ASSUME Types(Sent), Once, Returning = {} \/ MaxJoins <= 1, NEW q \in Peer,
           OpenMpMenu(q) \/ LeaveMpMenu(q)
    PROVE  Once' /\ (OpenMpMenu(q) => joins[q] = 0)
<1>1. /\ screen' = [screen EXCEPT ![q] = IF OpenMpMenu(q) THEN "mp" ELSE "menu"]
      /\ wire' = wire /\ out_fifo' = out_fifo /\ in_fifo' = in_fifo
      /\ joins' \in [Peer -> Nat] /\ \A r \in Peer : joins'[r] = 0 => joins[r] = 0
  BY DEF OpenMpMenu, LeaveMpMenu, Once
<1>2. OpenMpMenu(q) => joins[q] = 0
  <2>1. OpenMpMenu(q) => joins[q] < 1
    BY NetworkingConstants DEF OpenMpMenu, Once
  <2> QED
    BY <2>1 DEF Once
<1>3. ASSUME NEW p \in Peer, joins'[p] = 0 PROVE Alone(p, Other(p))'
  <2>1. Alone(p, Other(p))
    BY <1>1, <1>3 DEF Once
  <2>2. q = Other(p) /\ q # p
    <3>1. CASE OpenMpMenu(q)
      <4>1. joins'[q] = joins[q] + 1 /\ joins[q] \in Nat
        BY <3>1 DEF OpenMpMenu, Once
      <4> QED
        BY <1>3, <4>1, Others
    <3>2. CASE LeaveMpMenu(q)
      BY <2>1, <3>2, Others DEF LeaveMpMenu, Alone
    <3> QED
      BY <3>1, <3>2
  <2>3. Alone(p, q)
    BY <2>1, <2>2
  <2>4. Under(q)' = Under(q)
    BY <1>1 DEF Under
  <2>5. CASE OpenMpMenu(q)
    <3>1. Under(q) = <<>> /\ nstate' = nstate
      BY <1>2, <2>3, <2>5 DEF Alone, OpenMpMenu
    <3>2. screen'[p] = screen[p]
      BY <1>1, <2>2 DEF Types, Shape
    <3>3. Alone(p, q)'
      BY <1>1, <2>3, <2>4, <3>1, <3>2 DEF Alone
    <3> QED
      BY <2>2, <3>3
  <2>6. CASE LeaveMpMenu(q)
    <3>1. nstate'[q] = "INIT" /\ joins' = joins /\ screen'[p] = screen[p] /\ screen[q] = "mp"
      BY <2>2, <2>6 DEF LeaveMpMenu, Types, Shape
    <3>2. joins[q] # 0
      BY <2>2, <3>1, Others DEF Once, Alone
    <3>3. Alone(p, q)'
      BY <1>1, <2>3, <2>4, <3>1, <3>2 DEF Alone
    <3> QED
      BY <2>2, <3>3
  <2> QED
    BY <2>5, <2>6
<1> QED
  BY <1>1, <1>2, <1>3 DEF Once

LEMMA OnceLine ==
    ASSUME Types(Sent), Once, NEW r \in Peer, TransmitterEmpty(r) \/ Deliver(r)
    PROVE  Once'
<1>1. UNCHANGED <<screen, nstate, joins>>
  BY DEF TransmitterEmpty, Deliver
<1>2. SUFFICES ASSUME NEW p \in Peer, joins[p] = 0 PROVE Alone(p, Other(p))'
  BY <1>1 DEF Once
<1>3. PICK q \in Peer : q = Other(p) /\ q # p /\ p = Other(q) /\ (r = p \/ r = q)
  BY Others
<1>4. Alone(p, q)
  BY <1>2, <1>3 DEF Once
<1>5. wire[r] \in Seq(Sent) /\ out_fifo[r] \in Seq(Sent)
  BY DEF Types, Shape
<1>6. CASE TransmitterEmpty(r)
  <2>1. /\ wire'[r] = wire[r] \o out_fifo[r] /\ out_fifo'[r] = <<>> /\ in_fifo' = in_fifo
        /\ \A s \in Peer : s # r => wire'[s] = wire[s] /\ out_fifo'[s] = out_fifo[s]
    BY <1>6 DEF TransmitterEmpty, Types, Shape
  <2>2. Under(r)' = Under(r)
    <3>1. PICK z \in Seq(Sent) : z = wire[r] \o out_fifo[r]
      BY <1>5, ConcatProperties
    <3>2. z \o <<>> = z
      BY ConcatEmptySeq
    <3> QED
      BY <2>1, <3>1, <3>2, Zenon DEF Under
  <2>3. Under(q)' = Under(q)
    BY <1>3, <2>1, <2>2 DEF Under
  <2>4. wire'[p] = <<>> /\ out_fifo'[p] = <<>>
    <3>1. <<>> \o <<>> = <<>>
      OBVIOUS
    <3> QED
      BY <1>3, <1>4, <2>1, <3>1 DEF Alone
  <2>5. Alone(p, q)'
    BY <1>1, <1>4, <2>1, <2>3, <2>4 DEF Alone
  <2> QED
    BY <1>3, <2>5
<1>7. CASE Deliver(r)
  <2>1. r = q
    BY <1>3, <1>4, <1>7 DEF Deliver, Alone
  <2>2. /\ wire[q] # <<>> /\ wire'[q] = Tail(wire[q]) /\ out_fifo' = out_fifo
        /\ wire'[p] = wire[p] /\ in_fifo'[q] = in_fifo[q]
    BY <1>3, <1>7, <2>1 DEF Deliver, Types, Shape
  <2>3. Under(q)' = <<>>
    <3>1. PICK x, t \in Seq(Sent) : x = wire[q] /\ t = out_fifo[q]
      BY <1>5, <2>1
    <3>2. Tail(x) \o t = Tail(x \o t) /\ x \o t # <<>>
      <4>1. x # <<>>
        BY <2>2, <3>1
      <4> QED
        BY <4>1, Reading
    <3>3. x \o t = <<"J">>
      BY <1>4, <3>1, <3>2 DEF Alone, Under
    <3>4. Tail(x) \o t = <<>>
      BY <3>2, <3>3, Tuples
    <3> QED
      BY <2>2, <3>1, <3>4, Zenon DEF Under
  <2>4. Alone(p, q)'
    BY <1>1, <1>4, <2>2, <2>3 DEF Alone
  <2> QED
    BY <1>3, <2>4
<1> QED
  BY <1>6, <1>7

LEMMA OnceSettled ==
    ASSUME Types(Sent), Once, NEW p \in Peer, joins[p] = 0
    PROVE  Settled(p)
<1>1. PICK q \in Peer : q = Other(p) /\ q # p /\ p = Other(q)
  BY Others
<1>2. Alone(p, q)
  BY <1>1 DEF Once
<1>3. To(q) = <<>>
  <2>1. Got(q) = <<>> /\ wire[p] = <<>> /\ out_fifo[p] = <<>>
    BY <1>2 DEF Alone, Got
  <2> QED
    BY <1>1, <2>1 DEF To
<1>4. To(p) = Under(q)
  <2>1. Got(p) = <<>>
    BY <1>2 DEF Alone, Got, Listening, Types, Coupled
  <2>2. PICK z \in Seq(Sent) : z = Under(q)
    BY UnderIs, ConcatProperties DEF Under
  <2>3. <<>> \o z = z
    BY ConcatEmptySeq
  <2> QED
    BY <1>1, <2>1, <2>2, <2>3, Zenon DEF To, Under
<1> QED
  BY <1>1, <1>2, <1>3, <1>4 DEF Settled, Alone

(***************************************************************************)
(* When every user opens the multiplayer menu once, nothing is asked of    *)
(* the users: whatever they do and however late bytes and ticks come, the  *)
(* two machines take different sides and player 1 never starts alone, for  *)
(* as long as the line has damaged nothing.                                *)
(***************************************************************************)
THEOREM SidesAgreeOnce ==
    ASSUME Returning = {} \/ MaxJoins <= 1
    PROVE  Spec => [](noise = 0 => SidesAgree)
<1> DEFINE Both == Undamaged /\ (noise = 0 => Once)
<1>1. ASSUME Init PROVE Both
  <2>1. Once
    <3>1. ASSUME NEW p \in Peer PROVE Alone(p, Other(p))
      <4>1. PICK q \in Peer : q = Other(p)
        BY Others
      <4>2. Under(q) = <<>>
        BY <1>1 DEF Init, Under
      <4> QED
        BY <1>1, <4>1, <4>2 DEF Init, Alone
    <3>2. joins \in [Peer -> Nat]
      BY <1>1 DEF Init
    <3> QED
      BY <3>1, <3>2 DEF Once
  <2> QED
    BY <1>1, <2>1, UndamagedInit
<1>2. ASSUME Both, [Next]_vars PROVE Both'
  <2>1. CASE UNCHANGED vars
    <3>1. Undamaged'
      BY <1>2, <2>1, UndamagedStep
    <3> QED
      BY <1>2, <2>1, <3>1 DEF vars, Once, Alone, Under
  <2>2. ASSUME NEW p \in Peer, OpenMpMenu(p), noise = 0 PROVE Settled(p)
    BY <1>2, <2>2, OnceMenu, OnceSettled DEF Undamaged
  <2>3. Undamaged'
    BY <1>2, <2>2, UndamagedStep
  <2>4. ASSUME noise' = 0, Next PROVE Once'
    <3>1. PICK r \in Peer : \/ game_handler(r) \/ OpenMpMenu(r) \/ LeaveMpMenu(r)
                            \/ TransmitterEmpty(r) \/ Deliver(r) \/ DeliverDamaged(r)
      BY <2>4 DEF Next
    <3>2. ~DeliverDamaged(r)
      <4>1. noise \in Nat
        BY <1>2 DEF Undamaged
      <4>2. DeliverDamaged(r) => noise' = noise + 1
        BY DEF DeliverDamaged
      <4> QED
        BY <2>4, <4>1, <4>2
    <3>3. noise = 0
      BY <2>4, <3>1, <3>2
        DEF game_handler, OpenMpMenu, LeaveMpMenu, TransmitterEmpty, Deliver
    <3>4. Types(Sent) /\ Once
      BY <1>2, <3>3 DEF Undamaged
    <3> QED
      BY <3>1, <3>2, <3>4, OnceTick, OnceMenu, OnceLine
  <2> QED
    BY <1>2, <2>1, <2>3, <2>4
<1>3. Both => (noise = 0 => SidesAgree)
  BY SidesFollow DEF Undamaged
<1> QED
  BY <1>1, <1>2, <1>3, PTL DEF Spec
=============================================================================
