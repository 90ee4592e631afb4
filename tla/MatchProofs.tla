----------------------------- MODULE MatchProofs ----------------------------
(***************************************************************************)
(* Theorems about a match between two machines: how it ends on both        *)
(* (module Match, for any number of tries, lost packets and any skew).     *)
(***************************************************************************)
EXTENDS MCMatch, SequenceTheorems, WellFoundedInduction, TLAPS

Batch == [pkts : Seq(M!Packet) \ {<<>>}, old : BOOLEAN]

Typed ==
    /\ state \in [Peer -> M!GameState] /\ tries \in [Peer -> 0..(Patience + 1)]
    /\ arrived \in [Peer -> Seq(M!Packet)] /\ batches \in [Peer -> Seq(Batch)]
    /\ lead \in [Peer -> -Skew..Skew] /\ decided \in [Peer -> BOOLEAN]
    /\ late \in [Peer -> 0..2] /\ loss \in 0..MaxLoss
    /\ \A p \in Peer : state[p] = "MP_GAME" => tries[p] <= Patience

\* What the machine shows that sends a string, and the one that is sent it.
Shows(x) == IF x = "WIN" THEN "LOSE_GAME" ELSE "WIN_GAME"
Told(x) == IF x = "WIN" THEN "WIN_GAME" ELSE "LOSE_GAME"

\* A string on its way was sent by a machine that decided so and has left.
ArrivedTrue(p, q) ==
    \A i \in 1..Len(arrived[p]) : arrived[p][i] # "data" => state[q] = Shows(arrived[p][i])
SentTrue(p) ==
    \A i \in 1..Len(batches[p]) : \A j \in 1..Len(batches[p][i].pkts) :
        batches[p][i].pkts[j] # "data" => state[p] = Shows(batches[p][i].pkts[j])
StringsTrue(p, q) == ArrivedTrue(p, q) /\ SentTrue(p)

\* p has heard of the result of the other machine, or will before it ticks
\* twice: the string has arrived, or is in a batch that is old if p has
\* ticked since.
HasString(b) == \E j \in 1..Len(b.pkts) : b.pkts[j] # "data"
ResultIsDue(p, q) ==
    \/ \E i \in 1..Len(arrived[p]) : arrived[p][i] # "data"
    \/ \E i \in 1..Len(batches[q]) :
         HasString(batches[q][i]) /\ (late[p] = 0 \/ batches[q][i].old)

InTime(p, q) ==
    /\ state[q] = "MP_GAME" => late[p] = 0
    /\ state[q] \in M!Result /\ loss = 0 =>
         late[p] <= 1 /\ (state[p] = "MP_GAME" => ResultIsDue(p, q))

\* What p has not heard of is on the cable, was lost, or was not sent because
\* the other clock is behind.
Counted(p, q) ==
    /\ lead[p] = -lead[q]
    /\ \A i \in 1..Len(batches[q]) :
         ~batches[q][i].old => Len(batches[q]) - i + 1 + lead[p] <= Skew
    /\ (state[p] = "MP_GAME" /\ state[q] = "MP_GAME" /\ arrived[p] = <<>>) =>
         tries[p] <= lead[p] + Skew - 1 + loss + Len(batches[q])

\* A machine that was told the result shows the opposite of the other one,
\* and one that gave up was alone.
Ended(p, q) ==
    /\ state[p] \in M!Result /\ ~decided[p] =>
         \E x \in {"WIN", "LOS"} : state[p] = Told(x) /\ state[q] = Shows(x)
    /\ state[p] = "DISCONNECT" => state[q] # "MP_GAME"

MatchInv ==
    /\ Typed
    /\ \A p, q \in Peer : p # q =>
         StringsTrue(p, q) /\ InTime(p, q) /\ Counted(p, q) /\ Ended(p, q)

-----------------------------------------------------------------------------
(* The two machines, and the first string among the packets.               *)

\* Other is the other one of the two.
LEMMA Pair ==
    ASSUME NEW p \in Peer
    PROVE  /\ M!Other(p) \in Peer /\ M!Other(p) # p /\ M!Other(M!Other(p)) = p
           /\ \A r \in Peer : r = p \/ r = M!Other(p)
<1>1. PICK a \in Peer, b \in Peer : a # b /\ Peer = {a, b}
  BY MatchInstances DEF M!MatchConstants
<1>2. \A r \in Peer : M!Other(r) \in Peer /\ M!Other(r) # r
  BY <1>1 DEF M!Other
<1> QED
  BY <1>1, <1>2

\* A set of natural numbers has a smallest one.
LEMMA SmallestOf ==
    ASSUME NEW S \in SUBSET Nat, S # {}
    PROVE  \E j \in S : \A k \in S : j <= k
<1>1. PICK x \in S : \A y \in S : ~(<<y, x>> \in OpToRel(<, Nat))
  BY NatLessThanWellFounded, WFMin
<1>2. \A y \in S : ~(y < x)
  BY <1>1 DEF OpToRel
<1> QED
  BY <1>2

\* FirstResult finds a string if there is one.
LEMMA FirstResultFinds ==
    ASSUME NEW s \in Seq(M!Packet)
    PROVE  /\ M!FirstResult(s) \in 0..Len(s)
           /\ M!FirstResult(s) = 0 => \A i \in 1..Len(s) : s[i] = "data"
           /\ M!FirstResult(s) # 0 => s[M!FirstResult(s)] \in {"WIN", "LOS"}
<1> DEFINE I == {i \in 1..Len(s) : s[i] # "data"}
<1>1. M!FirstResult(s) = IF I # {} THEN M!Min(I) ELSE 0
  BY DEF M!FirstResult, M!SelectInSeq
<1>2. CASE I = {}
  BY <1>1, <1>2
<1>3. CASE I # {}
  <2>1. I \in SUBSET Nat
    OBVIOUS
  <2>2. \E j \in I : \A k \in I : j <= k
    BY <1>3, <2>1, SmallestOf
  <2>3. M!Min(I) \in I
    BY <2>2 DEF M!Min
  <2> QED
    BY <1>1, <1>3, <2>3 DEF M!Packet
<1> QED
  BY <1>2, <1>3

\* One element and one more are two.
LEMMA TwoConcat == ASSUME NEW a, NEW x PROVE <<a>> \o <<x>> = <<a, x>>
<1> DEFINE s == <<a>> \o <<x>>
           t == <<a, x>>
<1>1. s \in Seq({a, x}) /\ t \in Seq({a, x}) /\ Len(s) = 2 /\ Len(t) = 2
  OBVIOUS
<1>2. \A i \in 1..2 : s[i] = t[i]
  OBVIOUS
<1> HIDE DEF s, t
<1>3. s = t
  BY <1>1, <1>2, SeqEqual
<1> QED
  BY <1>3 DEF s, t

-----------------------------------------------------------------------------
(* What a tick of p does, by how it ends.                                  *)

\* The other machine is left alone, but for the age of what it has sent.
TickOf(p, q) ==
    /\ state[p] = "MP_GAME"
    /\ \A i \in 1..Len(batches[q]) : ~batches[q][i].old
    /\ state'[q] = state[q] /\ tries'[q] = tries[q] /\ arrived'[q] = arrived[q]
    /\ decided'[q] = decided[q] /\ late'[q] = late[q] /\ loss' = loss
    /\ Len(batches'[q]) = Len(batches[q])
    /\ batches'[q] \in Seq(Batch)
    /\ \A i \in 1..Len(batches[q]) :
         batches'[q][i].pkts = batches[q][i].pkts /\ batches'[q][i].old
    /\ IF state[q] = "MP_GAME"
         THEN lead[p] < Skew /\ lead'[p] = lead[p] + 1 /\ lead'[q] = lead[q] - 1
         ELSE lead'[p] = lead[p] /\ lead'[q] = lead[q]

NoString(p) == \A i \in 1..Len(arrived[p]) : arrived[p][i] = "data"

IsTold(p) ==
    /\ \E i \in 1..Len(arrived[p]) :
         arrived[p][i] \in {"WIN", "LOS"} /\ state'[p] = Told(arrived[p][i])
    /\ decided'[p] = FALSE /\ batches'[p] = batches[p] /\ late'[p] = late[p] /\ tries'[p] = 0
    /\ arrived'[p] \in Seq(M!Packet)
    /\ \A i \in 1..Len(arrived'[p]) : \E j \in 1..Len(arrived[p]) : arrived'[p][i] = arrived[p][j]

GivesUp(p) ==
    /\ state'[p] = "DISCONNECT" /\ decided'[p] = FALSE
    /\ arrived[p] = <<>> /\ arrived'[p] = <<>>
    /\ tries'[p] = tries[p] + 1 /\ tries[p] + 1 > Patience
    /\ batches'[p] = batches[p] /\ late'[p] = late[p]

Sends(p, q, packets) ==
    batches'[p] = IF state[q] = "MP_GAME"
                    THEN Append(batches[p], [pkts |-> packets, old |-> FALSE]) ELSE batches[p]

GoesOn(p, q) ==
    /\ NoString(p) /\ arrived'[p] = <<>>
    /\ tries'[p] = (IF arrived[p] = <<>> THEN tries[p] + 1 ELSE 0) /\ tries'[p] <= Patience
    /\ late'[p] = IF state[q] # "MP_GAME" /\ late[p] < 2 THEN late[p] + 1 ELSE late[p]

PlaysOn(p, q) ==
    /\ GoesOn(p, q) /\ state'[p] = "MP_GAME" /\ decided'[p] = FALSE
    /\ Sends(p, q, <<"data">>)

Decides(p, q) ==
    /\ GoesOn(p, q) /\ decided'[p] = TRUE
    /\ \E x \in {"WIN", "LOS"} : state'[p] = Shows(x) /\ Sends(p, q, <<"data", x>>)

\* A tick is one of these.
LEMMA TickCases ==
    ASSUME Typed, NEW p \in Peer, NEW q \in Peer, q = M!Other(p),
           NEW fate \in M!Fate, NEW exit \in BOOLEAN, M!game_handler(p, fate, exit)
    PROVE  TickOf(p, q) /\ (IsTold(p) \/ GivesUp(p) \/ PlaysOn(p, q) \/ Decides(p, q))
<1> DEFINE r == M!FirstResult(arrived[p])
           heard == M!mp_receive(p)
           end == M!update_game_state(fate, exit)
<1>0. q # p
  BY Pair
<1>1. arrived[p] \in Seq(M!Packet) /\ batches[p] \in Seq(Batch) /\ batches[q] \in Seq(Batch)
  BY DEF Typed
<1>t. /\ state \in [Peer -> M!GameState] /\ tries \in [Peer -> 0..(Patience + 1)]
      /\ arrived \in [Peer -> Seq(M!Packet)] /\ batches \in [Peer -> Seq(Batch)]
      /\ lead \in [Peer -> Int] /\ decided \in [Peer -> BOOLEAN] /\ late \in [Peer -> 0..2]
  BY DEF Typed
<1>2. r \in 0..Len(arrived[p])
  /\ (r = 0 => NoString(p)) /\ (r # 0 => arrived[p][r] \in {"WIN", "LOS"})
  BY <1>1, FirstResultFinds DEF NoString
<1>3. TickOf(p, q)
  <2>1. state[p] = "MP_GAME" /\ \A i \in 1..Len(batches[q]) : ~batches[q][i].old
    BY <1>1 DEF M!game_handler, M!Punctual
  <2>2. /\ state'[q] = state[q] /\ tries'[q] = tries[q] /\ arrived'[q] = arrived[q]
        /\ decided'[q] = decided[q] /\ late'[q] = late[q] /\ loss' = loss
        /\ batches'[q] = M!Age(batches[q])
    BY <1>0, <1>t DEF M!game_handler
  <2>3. /\ Len(batches'[q]) = Len(batches[q])
        /\ batches'[q] \in Seq(Batch)
        /\ \A i \in 1..Len(batches[q]) :
             batches'[q][i].pkts = batches[q][i].pkts /\ batches'[q][i].old
    <3>1. M!Age(batches[q]) = [i \in 1..Len(batches[q]) |-> [batches[q][i] EXCEPT !.old = TRUE]]
      <4>1. DOMAIN batches[q] = 1..Len(batches[q])
        BY <1>1
      <4> QED
        BY <4>1 DEF M!Age
    <3>2. ASSUME NEW i \in 1..Len(batches[q])
          PROVE  LET b == [batches[q][i] EXCEPT !.old = TRUE]
                 IN  b \in Batch /\ b.pkts = batches[q][i].pkts /\ b.old
      <4>1. batches[q][i] \in Batch
        BY <1>1
      <4> QED
        BY <4>1 DEF Batch
    <3>3. batches'[q] = [i \in 1..Len(batches[q]) |-> [batches[q][i] EXCEPT !.old = TRUE]]
      BY <2>2, <3>1
    <3>4. batches'[q] \in Seq(Batch) /\ Len(batches'[q]) = Len(batches[q])
      BY <1>1, <3>2, <3>3
    <3> QED
      BY <3>2, <3>3, <3>4
  <2>4. IF state[q] = "MP_GAME"
         THEN lead[p] < Skew /\ lead'[p] = lead[p] + 1 /\ lead'[q] = lead[q] - 1
         ELSE lead'[p] = lead[p] /\ lead'[q] = lead[q]
    BY <1>0, <1>t DEF M!game_handler, M!KeepsPace
  <2> QED
    BY <2>1, <2>2, <2>3, <2>4 DEF TickOf
<1>4. /\ state'[p] = (IF heard = "MP_GAME" THEN end[1] ELSE heard)
      /\ tries'[p] = (IF r = 0 THEN M!count_try(p) ELSE 0)
      /\ arrived'[p] = (IF r = 0 THEN <<>> ELSE SubSeq(arrived[p], r + 1, Len(arrived[p])))
      /\ decided'[p] = (heard = "MP_GAME" /\ end[1] # "MP_GAME")
      /\ late'[p] = (IF heard = "MP_GAME" /\ state[q] # "MP_GAME" /\ late[p] < 2
                       THEN late[p] + 1 ELSE late[p])
  BY <1>0, <1>t DEF M!game_handler, M!LateCap
<1>5. batches'[p] = LET told == IF heard = "MP_GAME" THEN <<"data">> \o end[2] ELSE <<>>
                    IN  IF told = <<>> \/ state[q] # "MP_GAME" THEN batches[p]
                        ELSE Append(batches[p], [pkts |-> told, old |-> FALSE])
  BY <1>0, <1>t DEF M!game_handler
<1>6. CASE r # 0
  <2>1. heard = IF arrived[p][r] = "WIN" THEN "WIN_GAME" ELSE "LOSE_GAME"
    BY <1>2, <1>6 DEF M!mp_receive
  <2>2. arrived'[p] \in Seq(M!Packet)
        /\ \A i \in 1..Len(arrived'[p]) : \E j \in 1..Len(arrived[p]) : arrived'[p][i] = arrived[p][j]
    <3> DEFINE s == arrived[p]
    <3>1. r + 1 \in 1..(Len(s) + 1) /\ Len(s) \in 0..Len(s) /\ s \in Seq(M!Packet) /\ Len(s) \in Nat
      BY <1>1, <1>2, <1>6
    <3>2. /\ SubSeq(s, r + 1, Len(s)) \in Seq(M!Packet)
          /\ Len(SubSeq(s, r + 1, Len(s))) = Len(s) - r
          /\ \A i \in 1..(Len(s) - r) : SubSeq(s, r + 1, Len(s))[i] = s[r + i]
      <4> HIDE DEF r, s
      <4> QED
        BY <3>1, <1>2
    <3>3. arrived'[p] = SubSeq(s, r + 1, Len(s))
      BY <1>4, <1>6
    <3>4. ASSUME NEW i \in 1..(Len(s) - r)
          PROVE  \E j \in 1..Len(s) : SubSeq(s, r + 1, Len(s))[i] = s[j]
      <4>1. r + i \in 1..Len(s)
        BY <1>2, <1>6, <3>1
      <4> QED
        BY <3>2, <4>1
    <3> QED
      BY <3>2, <3>3, <3>4
  <2>3. batches'[p] = batches[p] /\ late'[p] = late[p] /\ tries'[p] = 0 /\ decided'[p] = FALSE
        /\ state'[p] = heard
    BY <1>4, <1>5, <1>6, <2>1
  <2>4. IsTold(p)
    BY <1>2, <1>6, <2>1, <2>2, <2>3 DEF IsTold, Told
  <2> QED
    BY <1>3, <2>4
<1>7. CASE r = 0
  <2>0. M!count_try(p) = IF arrived[p] = <<>> THEN tries[p] + 1 ELSE 0
    BY DEF M!count_try
  <2>1. heard = IF M!count_try(p) > Patience THEN "DISCONNECT" ELSE "MP_GAME"
    BY <1>7 DEF M!mp_receive, M!give_up
  <2>2. CASE M!count_try(p) > Patience
    <3>1. arrived[p] = <<>>
      BY <2>0, <2>2, MatchInstances DEF M!MatchConstants
    <3>2. batches'[p] = batches[p]
      BY <1>5, <2>1, <2>2
    <3> QED
      BY <1>3, <1>4, <1>7, <2>0, <2>1, <2>2, <3>1, <3>2 DEF GivesUp
  <2>3. CASE ~(M!count_try(p) > Patience)
    <3>1. heard = "MP_GAME"
      BY <2>1, <2>3
    <3>2. GoesOn(p, q)
      BY <1>2, <1>4, <1>7, <1>t, <2>0, <2>3, <3>1, MatchInstances DEF GoesOn, M!MatchConstants
    <3> HIDE DEF heard, r
    <3>3. \/ end = <<"MP_GAME", <<>>>>
          \/ end = <<"LOSE_GAME", <<"WIN">>>>
          \/ end = <<"WIN_GAME", <<"LOS">>>>
      BY DEF M!update_game_state, M!Fate
    <3>4. CASE end = <<"MP_GAME", <<>>>>
      <4> HIDE DEF end
      <4>0. end[1] = "MP_GAME" /\ end[2] = <<>>
        BY <3>4
      <4>1. <<"data">> \o end[2] = <<"data">> /\ <<"data">> # <<>>
        BY <4>0
      <4>2. Sends(p, q, <<"data">>)
        BY <1>5, <3>1, <4>1 DEF Sends
      <4> QED
        BY <1>3, <1>4, <3>1, <3>2, <4>0, <4>2, Zenon DEF PlaysOn
    <3>5. ASSUME NEW x \in {"WIN", "LOS"}, end = <<Shows(x), <<x>>>>
          PROVE  Decides(p, q)
      <4> HIDE DEF end
      <4>0. end[1] = Shows(x) /\ end[2] = <<x>> /\ Shows(x) # "MP_GAME"
        BY <3>5 DEF Shows
      <4>1. <<"data">> \o end[2] = <<"data", x>> /\ <<"data", x>> # <<>>
        BY <4>0, TwoConcat
      <4>2. Sends(p, q, <<"data", x>>)
        BY <1>5, <3>1, <4>1 DEF Sends
      <4>3. decided'[p] = TRUE /\ state'[p] = Shows(x)
        BY <1>4, <3>1, <4>0, Zenon
      <4> QED
        BY <3>2, <4>2, <4>3 DEF Decides
    <3> QED
      BY <1>3, <3>3, <3>4, <3>5 DEF Shows
  <2> QED
    BY <2>2, <2>3
<1> QED
  BY <1>2, <1>6, <1>7

-----------------------------------------------------------------------------
(* The invariant holds in every state.                                     *)

\* A match starts in the invariant.
LEMMA MatchInitially == M!Init => MatchInv
<1> SUFFICES ASSUME M!Init PROVE MatchInv
  OBVIOUS
<1>0. Patience \in Nat /\ Skew \in Nat /\ Skew > 0 /\ MaxLoss \in Nat
  BY MatchInstances DEF M!MatchConstants
<1>1. /\ Typed /\ loss = 0
      /\ \A p \in Peer : /\ state[p] = "MP_GAME" /\ tries[p] = 0 /\ arrived[p] = <<>>
                         /\ batches[p] = <<>> /\ lead[p] = 0 /\ late[p] = 0
  BY <1>0 DEF M!Init, Typed, M!GameState
<1>2. \A p, q \in Peer : StringsTrue(p, q)
  BY <1>1 DEF StringsTrue, ArrivedTrue, SentTrue
<1>3. \A p, q \in Peer : InTime(p, q) /\ Ended(p, q)
  BY <1>1 DEF InTime, Ended, M!Result
<1>4. \A p, q \in Peer : Counted(p, q)
  BY <1>0, <1>1 DEF Counted
<1> QED
  BY <1>1, <1>2, <1>3, <1>4 DEF MatchInv

\* A machine that plays has sent no string.
LEMMA PlayerSaysNothing ==
    ASSUME MatchInv, NEW p \in Peer, NEW q \in Peer, p # q, state[p] = "MP_GAME"
    PROVE  /\ NoString(q)
           /\ \A i \in 1..Len(batches[p]) : ~HasString(batches[p][i])
<1>1. \A x : Shows(x) # "MP_GAME"
  BY DEF Shows
<1>2. ArrivedTrue(q, p) /\ SentTrue(p)
  BY DEF MatchInv, StringsTrue
<1>3. NoString(q)
  BY <1>1, <1>2 DEF ArrivedTrue, NoString
<1> QED
  BY <1>1, <1>2, <1>3 DEF SentTrue, HasString

\* A tick keeps the types: packet_tries stays within the patience while the
\* machine plays.
LEMMA TickKeepsTypes ==
    ASSUME Typed, NEW p \in Peer, NEW q \in Peer, q = M!Other(p),
           NEW fate \in M!Fate, NEW exit \in BOOLEAN, M!game_handler(p, fate, exit),
           lead[p] = -lead[q],
           TickOf(p, q), IsTold(p) \/ GivesUp(p) \/ PlaysOn(p, q) \/ Decides(p, q)
    PROVE  Typed'
<1>0. q # p /\ \A r \in Peer : r = p \/ r = q
  BY Pair
<1>1. /\ state' = [r \in Peer |-> state'[r]] /\ tries' = [r \in Peer |-> tries'[r]]
      /\ arrived' = [r \in Peer |-> arrived'[r]] /\ batches' = [r \in Peer |-> batches'[r]]
      /\ lead' = [r \in Peer |-> lead'[r]] /\ decided' = [r \in Peer |-> decided'[r]]
      /\ late' = [r \in Peer |-> late'[r]]
  BY DEF Typed, M!game_handler, M!KeepsPace
<1>2. /\ state'[p] \in M!GameState /\ tries'[p] \in 0..(Patience + 1)
      /\ arrived'[p] \in Seq(M!Packet) /\ decided'[p] \in BOOLEAN /\ late'[p] \in 0..2
      /\ state'[p] = "MP_GAME" => tries'[p] <= Patience
  <2>0. /\ Patience \in Nat /\ tries[p] \in Nat /\ tries[p] <= Patience /\ late[p] \in 0..2
        /\ <<>> \in Seq(M!Packet)
    <3>1. state[p] = "MP_GAME"
      BY DEF TickOf
    <3> QED
      BY <3>1, MatchInstances DEF Typed, M!MatchConstants
  <2>d. IsTold(p) \/ GivesUp(p) \/ PlaysOn(p, q) \/ Decides(p, q) => decided'[p] \in BOOLEAN
    BY DEF IsTold, GivesUp, PlaysOn, Decides
  <2>1. CASE IsTold(p)
    BY <2>d, <2>0, <2>1 DEF IsTold, Told, M!GameState
  <2>2. CASE GivesUp(p)
    BY <2>d, <2>0, <2>2 DEF GivesUp, M!GameState
  <2>3. GoesOn(p, q) => arrived'[p] \in Seq(M!Packet) /\ late'[p] \in 0..2 /\ tries'[p] \in 0..Patience
    BY <2>0 DEF GoesOn
  <2>4. CASE PlaysOn(p, q)
    BY <2>d, <2>0, <2>3, <2>4 DEF PlaysOn, M!GameState
  <2>5. CASE Decides(p, q)
    BY <2>d, <2>0, <2>3, <2>5 DEF Decides, Shows, M!GameState
  <2> QED
    BY <2>1, <2>2, <2>4, <2>5
<1>3. batches'[p] \in Seq(Batch)
  <2>1. batches[p] \in Seq(Batch)
    BY DEF Typed
  <2>2. ASSUME NEW s \in Seq(M!Packet), s # <<>>, Sends(p, q, s)
        PROVE  batches'[p] \in Seq(Batch)
    <3>1. [pkts |-> s, old |-> FALSE] \in Batch
      BY <2>2 DEF Batch
    <3> QED
      BY <2>1, <2>2, <3>1 DEF Sends
  <2>3. <<"data">> \in Seq(M!Packet) /\ <<"data">> # <<>>
    BY DEF M!Packet
  <2>4. \A x \in {"WIN", "LOS"} : <<"data", x>> \in Seq(M!Packet) /\ <<"data", x>> # <<>>
    BY DEF M!Packet
  <2> QED
    BY <2>1, <2>2, <2>3, <2>4 DEF IsTold, GivesUp, PlaysOn, Decides
<1>4. /\ state'[q] \in M!GameState /\ tries'[q] \in 0..(Patience + 1)
      /\ arrived'[q] \in Seq(M!Packet) /\ decided'[q] \in BOOLEAN /\ late'[q] \in 0..2
      /\ state'[q] = "MP_GAME" => tries'[q] <= Patience
      /\ batches'[q] \in Seq(Batch) /\ loss' \in 0..MaxLoss
  BY DEF Typed, TickOf
<1>5. lead'[p] \in -Skew..Skew /\ lead'[q] \in -Skew..Skew
  <2>1. /\ Skew \in Nat /\ lead[p] \in Int /\ -Skew <= lead[p] /\ lead[p] <= Skew
        /\ lead[q] \in Int /\ -Skew <= lead[q] /\ lead[q] <= Skew
    BY MatchInstances DEF Typed, M!MatchConstants
  <2>2. CASE state[q] = "MP_GAME"
    <3>1. lead[p] < Skew /\ lead'[p] = lead[p] + 1 /\ lead'[q] = lead[q] - 1
      BY <2>2 DEF TickOf
    <3> QED
      BY <2>1, <3>1
  <2>3. CASE state[q] # "MP_GAME"
    <3>1. lead'[p] = lead[p] /\ lead'[q] = lead[q]
      BY <2>3 DEF TickOf
    <3> QED
      BY <2>1, <3>1
  <2> QED
    BY <2>2, <2>3
<1> QED
  BY <1>0, <1>1, <1>2, <1>3, <1>4, <1>5 DEF Typed

\* The arithmetic of Counted: l is a lead, s the skew, o the losses, n what is
\* on the cable and t the tries.
LEMMA TriesGrow ==
    ASSUME NEW l \in Int, NEW s \in Int, NEW o \in Int, NEW n \in Int, NEW t \in Int,
           t <= l + s - 1 + o + n, NEW l2, NEW o2, NEW n2, NEW t2,
           l2 = l + 1, o2 = o, n2 = n, t2 = t + 1
    PROVE  t2 <= l2 + s - 1 + o2 + n2
OBVIOUS

\* ... which holds when the tries start anew,
LEMMA TriesStart ==
    \A l, s \in Int, o, n \in Nat : -s <= l => 0 <= l + 1 + s - 1 + o + n
OBVIOUS

\* ... and stays when the other machine ticks and sends,
LEMMA TriesStay ==
    ASSUME NEW l \in Int, NEW s \in Int, NEW o \in Int, NEW n \in Int, NEW t \in Int,
           t <= l + s - 1 + o + n, NEW l2, NEW o2, NEW n2, NEW t2,
           l2 = l - 1, o2 = o, n2 = n + 1, t2 = t
    PROVE  t2 <= l2 + s - 1 + o2 + n2
OBVIOUS

\* ... so that nobody gives up.
LEMMA TriesSuffice ==
    ASSUME NEW l \in Int, NEW s \in Int, NEW o \in Int, NEW n \in Int, NEW t \in Int,
           NEW m \in Int, NEW c \in Int,
           t <= l + s - 1 + o + n, n + l <= s, o <= m, c >= 2 * s + m
    PROVE  ~(t + 1 > c)
OBVIOUS

\* A tick of game_handler, whatever it finds and decides.
LEMMA TickInv ==
    ASSUME MatchInv, NEW p \in Peer, NEW q \in Peer, q = M!Other(p),
           NEW fate \in M!Fate, NEW exit \in BOOLEAN, M!game_handler(p, fate, exit)
    PROVE  MatchInv'
<1>0. q # p /\ \A r \in Peer : r = p \/ r = q
  BY Pair
<1>1. Typed
  BY DEF MatchInv
<1>2. TickOf(p, q) /\ (IsTold(p) \/ GivesUp(p) \/ PlaysOn(p, q) \/ Decides(p, q))
  BY <1>1, TickCases
<1>3. Typed'
  BY <1>0, <1>1, <1>2, TickKeepsTypes DEF MatchInv, Counted
<1>s. state[p] = "MP_GAME" /\ state'[q] = state[q]
  BY <1>2 DEF TickOf
<1>n. NoString(q) /\ \A i \in 1..Len(batches[p]) : ~HasString(batches[p][i])
  BY <1>0, <1>s, PlayerSaysNothing
<1>i. /\ StringsTrue(p, q) /\ InTime(p, q) /\ Counted(p, q) /\ Ended(p, q)
      /\ StringsTrue(q, p) /\ InTime(q, p) /\ Counted(q, p) /\ Ended(q, p)
  BY <1>0 DEF MatchInv
<1>t. /\ batches[p] \in Seq(Batch) /\ batches[q] \in Seq(Batch)
      /\ arrived[p] \in Seq(M!Packet) /\ arrived[q] \in Seq(M!Packet)
      /\ late[p] \in 0..2 /\ late[q] \in 0..2
  BY <1>1 DEF Typed
<1>a. /\ lead[p] \in Int /\ -Skew <= lead[p] /\ lead[p] <= Skew
      /\ lead[q] \in Int /\ -Skew <= lead[q] /\ lead[q] <= Skew
      /\ Skew \in Nat /\ loss \in Nat /\ MaxLoss \in Nat /\ loss <= MaxLoss
      /\ tries[p] \in Nat /\ tries[q] \in Nat
      /\ Len(batches[p]) \in Nat /\ Len(batches[q]) \in Nat
  BY <1>1, MatchInstances DEF Typed, M!MatchConstants
<1>z. /\ lead[p] \in Int /\ lead[q] \in Int /\ Skew \in Int /\ loss \in Int /\ MaxLoss \in Int
      /\ tries[p] \in Int /\ tries[q] \in Int /\ Patience \in Int
      /\ Len(batches[p]) \in Int /\ Len(batches[q]) \in Int
  BY <1>a, MatchInstances DEF M!MatchConstants
<1>b. \A x \in M!Packet : Shows(x) # "MP_GAME" /\ Shows(x) # "DISCONNECT"
  BY DEF Shows
<1>u. IsTold(p) => state[q] # "MP_GAME"
  BY <1>i, <1>b DEF IsTold, StringsTrue, ArrivedTrue, M!Packet
<1>4. StringsTrue(p, q)'
  <2>1. ArrivedTrue(p, q)'
    BY <1>2, <1>i, <1>s DEF IsTold, GivesUp, PlaysOn, Decides, GoesOn, StringsTrue, ArrivedTrue, Shows
  <2>2. ASSUME NEW s, Sends(p, q, s),
               \A j \in 1..Len(s) : s[j] # "data" => state'[p] = Shows(s[j])
        PROVE  SentTrue(p)'
    <3>1. CASE state[q] # "MP_GAME"
      <4>1. batches'[p] = batches[p]
        BY <2>2, <3>1 DEF Sends
      <4> QED
        BY <1>n, <4>1 DEF HasString, SentTrue
    <3>2. CASE state[q] = "MP_GAME"
      <4>1. batches'[p] = Append(batches[p], [pkts |-> s, old |-> FALSE])
        BY <2>2, <3>2 DEF Sends
      <4>2. ASSUME NEW i \in 1..Len(batches'[p]), NEW j \in 1..Len(batches'[p][i].pkts),
                   batches'[p][i].pkts[j] # "data"
            PROVE  state'[p] = Shows(batches'[p][i].pkts[j])
        <5>1. CASE i \in 1..Len(batches[p])
          <6>1. batches'[p][i] = batches[p][i]
            BY <1>t, <4>1, <5>1
          <6> QED
            BY <1>n, <4>2, <5>1, <6>1 DEF HasString
        <5>2. CASE i = Len(batches[p]) + 1
          <6>1. batches'[p][i].pkts = s
            BY <1>t, <4>1, <5>2
          <6> QED
            BY <2>2, <4>2, <6>1
        <5> QED
          BY <1>t, <4>1, <4>2, <5>1, <5>2
      <4> QED
        BY <4>2 DEF SentTrue, Shows
    <3> QED
      BY <3>1, <3>2
  <2>3. CASE IsTold(p) \/ GivesUp(p)
    <3>1. batches'[p] = batches[p]
      BY <2>3 DEF IsTold, GivesUp
    <3> QED
      BY <1>n, <2>1, <3>1 DEF StringsTrue, HasString, SentTrue
  <2>4. CASE PlaysOn(p, q)
    <3>1. Sends(p, q, <<"data">>)
      BY <2>4 DEF PlaysOn
    <3>2. \A j \in 1..Len(<<"data">>) : <<"data">>[j] = "data"
      OBVIOUS
    <3> QED
      BY <2>1, <2>2, <3>1, <3>2 DEF StringsTrue
  <2>5. CASE Decides(p, q)
    <3>1. PICK x \in {"WIN", "LOS"} : state'[p] = Shows(x) /\ Sends(p, q, <<"data", x>>)
      BY <2>5 DEF Decides
    <3>2. \A j \in 1..Len(<<"data", x>>) : <<"data", x>>[j] = "data" \/ <<"data", x>>[j] = x
      OBVIOUS
    <3> QED
      BY <2>1, <2>2, <3>1, <3>2 DEF StringsTrue
  <2> QED
    BY <1>2, <2>3, <2>4, <2>5
<1>5. StringsTrue(q, p)'
  <2>1. ArrivedTrue(q, p)'
    BY <1>2, <1>n DEF TickOf, NoString, ArrivedTrue
  <2>2. SentTrue(q)'
    BY <1>2, <1>i DEF TickOf, StringsTrue, SentTrue, Shows
  <2> QED
    BY <2>1, <2>2 DEF StringsTrue
<1>6. InTime(p, q)'
  <2>1. CASE IsTold(p) \/ GivesUp(p)
    <3>1. late'[p] = late[p] /\ state'[p] # "MP_GAME" /\ loss' = loss
      BY <1>2, <2>1 DEF IsTold, GivesUp, TickOf, Told
    <3> QED
      BY <1>i, <1>s, <3>1 DEF InTime
  <2>2. CASE GoesOn(p, q)
    <3>1. NoString(p) /\ late'[p] = IF state[q] # "MP_GAME" /\ late[p] < 2 THEN late[p] + 1 ELSE late[p]
      BY <2>2 DEF GoesOn
    <3>2. CASE state[q] = "MP_GAME"
      BY <1>i, <1>s, <3>1, <3>2 DEF InTime, M!Result
    <3>3. ASSUME state[q] \in M!Result, loss' = 0
          PROVE  late'[p] <= 1 /\ ResultIsDue(p, q)'
      <4>1. ResultIsDue(p, q)
        BY <1>2, <1>i, <1>s, <3>3 DEF InTime, TickOf
      <4>2. PICK i \in 1..Len(batches[q]) :
               HasString(batches[q][i]) /\ (late[p] = 0 \/ batches[q][i].old)
        BY <3>1, <4>1 DEF ResultIsDue, NoString
      <4>3. late[p] = 0 /\ late'[p] = 1
        BY <1>2, <3>1, <3>3, <4>2 DEF TickOf, M!Result
      <4>4. i \in 1..Len(batches'[q]) /\ HasString(batches'[q][i]) /\ batches'[q][i].old
        BY <1>2, <4>2 DEF TickOf, HasString
      <4>5. ResultIsDue(p, q)'
        BY <4>4 DEF ResultIsDue, HasString
      <4> QED
        BY <4>3, <4>5
    <3> QED
      BY <1>s, <3>2, <3>3 DEF InTime
  <2> QED
    BY <1>2, <2>1, <2>2 DEF PlaysOn, Decides
<1>7. InTime(q, p)'
  <2>1. late'[q] = 0 /\ late[q] = 0
    BY <1>2, <1>i, <1>s DEF InTime, TickOf
  <2>2. ASSUME state'[p] \in M!Result, state'[q] = "MP_GAME"
        PROVE  ResultIsDue(q, p)'
    <3>1. Decides(p, q)
      BY <1>2, <1>s, <1>u, <2>2 DEF GivesUp, PlaysOn, M!Result
    <3>2. PICK x \in {"WIN", "LOS"} : Sends(p, q, <<"data", x>>)
      BY <3>1 DEF Decides
    <3>3. batches'[p] = Append(batches[p], [pkts |-> <<"data", x>>, old |-> FALSE])
      BY <1>s, <2>2, <3>2 DEF Sends
    <3> DEFINE k == Len(batches[p]) + 1
    <3>4. k \in 1..Len(batches'[p]) /\ batches'[p][k].pkts = <<"data", x>>
      BY <1>t, <3>3
    <3>5. HasString(batches'[p][k])
      BY <3>2, <3>4 DEF HasString
    <3> QED
      BY <2>1, <3>4, <3>5 DEF ResultIsDue, HasString
  <2> QED
    BY <2>1, <2>2 DEF InTime
<1>8. Counted(p, q)'
  <2>1. lead'[p] = -lead'[q]
    BY <1>2, <1>i, <1>a DEF Counted, TickOf
  <2>2. \A i \in 1..Len(batches'[q]) : batches'[q][i].old
    BY <1>2 DEF TickOf
  <2>3. ASSUME state'[p] = "MP_GAME", state'[q] = "MP_GAME", arrived'[p] = <<>>
        PROVE  tries'[p] <= lead'[p] + Skew - 1 + loss' + Len(batches'[q])
    <3>1. GoesOn(p, q)
      BY <1>2, <2>3 DEF PlaysOn, Decides, IsTold, GivesUp, Told
    <3>2. lead'[p] = lead[p] + 1 /\ loss' = loss /\ Len(batches'[q]) = Len(batches[q])
      BY <1>2, <1>s, <2>3 DEF TickOf
    <3>3. tries'[p] = IF arrived[p] = <<>> THEN tries[p] + 1 ELSE 0
      BY <3>1 DEF GoesOn
    <3>4. arrived[p] = <<>> => tries[p] <= lead[p] + Skew - 1 + loss + Len(batches[q])
      BY <1>i, <1>s, <2>3 DEF Counted
    <3> QED
      <4>1. CASE arrived[p] = <<>>
        <5>1. tries'[p] = tries[p] + 1 /\ tries[p] <= lead[p] + Skew - 1 + loss + Len(batches[q])
          BY <3>3, <3>4, <4>1
        <5> QED
          BY <1>z, <3>2, <5>1, TriesGrow, Zenon
      <4>2. CASE arrived[p] # <<>>
        BY <1>a, <3>2, <3>3, <4>2, TriesStart
      <4> QED
        BY <4>1, <4>2
  <2> QED
    BY <2>1, <2>2, <2>3 DEF Counted
<1>9. Counted(q, p)'
  <2>1. lead'[q] = -lead'[p]
    BY <1>2, <1>i, <1>a DEF Counted, TickOf
  <2>2. \/ batches'[p] = batches[p]
        \/ state[q] = "MP_GAME" /\ \E b : b.old = FALSE /\ batches'[p] = Append(batches[p], b)
    BY <1>2 DEF IsTold, GivesUp, PlaysOn, Decides, Sends
  <2>3. lead'[q] = IF state[q] = "MP_GAME" THEN lead[q] - 1 ELSE lead[q]
    BY <1>2 DEF TickOf
  <2>4. ASSUME NEW i \in 1..Len(batches'[p]), ~batches'[p][i].old
        PROVE  Len(batches'[p]) - i + 1 + lead'[q] <= Skew
    <3>1. CASE batches'[p] = batches[p]
      <4>1. Len(batches[p]) - i + 1 + lead[q] <= Skew
        BY <1>i, <2>4, <3>1 DEF Counted
      <4> QED
        BY <1>a, <1>t, <2>3, <3>1, <4>1
    <3>2. ASSUME NEW b, batches'[p] = Append(batches[p], b), state[q] = "MP_GAME"
          PROVE  Len(batches'[p]) - i + 1 + lead'[q] <= Skew
      <4>1. Len(batches'[p]) = Len(batches[p]) + 1 /\ i \in 1..(Len(batches[p]) + 1)
        BY <1>a, <1>t, <2>4, <3>2
      <4>2. CASE i \in 1..Len(batches[p])
        <5>1. batches'[p][i] = batches[p][i]
          BY <1>a, <1>t, <3>2, <4>2
        <5>2. Len(batches[p]) - i + 1 + lead[q] <= Skew
          BY <1>i, <2>4, <4>2, <5>1 DEF Counted
        <5> QED
          BY <1>a, <1>t, <2>3, <3>2, <4>1, <5>2
      <4>3. CASE i = Len(batches[p]) + 1
        BY <1>a, <1>t, <2>3, <3>2, <4>1, <4>3
      <4> QED
        BY <1>a, <1>t, <4>1, <4>2, <4>3
    <3> QED
      BY <2>2, <3>1, <3>2
  <2>5. ASSUME state'[p] = "MP_GAME", state'[q] = "MP_GAME", arrived'[q] = <<>>
        PROVE  tries'[q] <= lead'[q] + Skew - 1 + loss' + Len(batches'[p])
    <3>1. PlaysOn(p, q)
      BY <1>2, <2>5 DEF Decides, IsTold, GivesUp, Told, Shows
    <3>2. batches'[p] = Append(batches[p], [pkts |-> <<"data">>, old |-> FALSE])
      BY <1>s, <2>5, <3>1 DEF PlaysOn, Sends
    <3>3. Len(batches'[p]) = Len(batches[p]) + 1
      BY <1>a, <1>t, <3>2
    <3>4. loss' = loss /\ tries'[q] = tries[q] /\ arrived[q] = <<>> /\ state[q] = "MP_GAME"
      BY <1>2, <2>5 DEF TickOf
    <3>5. tries[q] <= lead[q] + Skew - 1 + loss + Len(batches[p])
      BY <1>i, <1>s, <3>4 DEF Counted
    <3> QED
      <4>1. lead'[q] = lead[q] - 1 /\ loss' = loss /\ tries'[q] = tries[q]
        BY <2>3, <3>4
      <4> QED
        BY <1>z, <3>3, <3>5, <4>1, TriesStay, ZenonT(30)
  <2> QED
    BY <2>1, <2>4, <2>5 DEF Counted
<1>10. Ended(p, q)'
  <2>1. ASSUME state'[p] \in M!Result, ~decided'[p]
        PROVE  \E x \in {"WIN", "LOS"} : state'[p] = Told(x) /\ state'[q] = Shows(x)
    <3>1. IsTold(p)
      BY <1>2, <2>1 DEF GivesUp, PlaysOn, Decides, M!Result
    <3> QED
      BY <1>i, <1>s, <3>1 DEF IsTold, StringsTrue, ArrivedTrue
  <2>2. ASSUME GivesUp(p), state[q] = "MP_GAME"
        PROVE  FALSE
    <3>1. tries[p] <= lead[p] + Skew - 1 + loss + Len(batches[q])
      BY <1>i, <1>s, <2>2 DEF Counted, GivesUp
    <3>2. lead[p] < Skew /\ tries[p] + 1 > Patience
      BY <1>2, <2>2 DEF TickOf, GivesUp
    <3>3. Len(batches[q]) + lead[p] <= Skew
      <4>1. CASE Len(batches[q]) = 0
        BY <1>a, <1>t, <4>1
      <4>2. CASE Len(batches[q]) # 0
        <5>1. 1 \in 1..Len(batches[q]) /\ ~batches[q][1].old
          BY <1>2, <1>a, <4>2 DEF TickOf
        <5>2. Len(batches[q]) - 1 + 1 + lead[p] <= Skew
          BY <1>i, <5>1 DEF Counted
        <5> QED
          BY <1>a, <1>t, <5>2
      <4> QED
        BY <4>1, <4>2
    <3>4. Patience \in Nat /\ Patience >= 2 * Skew + MaxLoss
      BY MatchInstances DEF M!MatchConstants
    <3> QED
      BY <1>a, <1>z, <3>1, <3>2, <3>3, <3>4, TriesSuffice, Zenon
  <2>3. state'[p] = "DISCONNECT" => GivesUp(p)
    BY <1>2 DEF IsTold, PlaysOn, Decides, Told, Shows
  <2> QED
    BY <1>s, <2>1, <2>2, <2>3 DEF Ended
<1>11. Ended(q, p)'
  <2>1. decided'[q] = decided[q]
    BY <1>2 DEF TickOf
  <2>2. ~(state[q] \in M!Result /\ ~decided[q])
    BY <1>i, <1>s DEF Ended, Shows
  <2>3. state[q] # "DISCONNECT"
    BY <1>i, <1>s DEF Ended
  <2> QED
    BY <1>s, <2>1, <2>2, <2>3 DEF Ended
<1>12. ASSUME NEW a \in Peer, NEW b \in Peer, a # b
       PROVE  (StringsTrue(a, b) /\ InTime(a, b) /\ Counted(a, b) /\ Ended(a, b))'
  <2>1. (a = p /\ b = q) \/ (a = q /\ b = p)
    BY <1>0, <1>12
  <2> QED
    BY <1>4, <1>5, <1>6, <1>7, <1>8, <1>9, <1>10, <1>11, <2>1
<1> QED
  BY <1>3, <1>12 DEF MatchInv
\* Escape, the exit button and what the other machine sees of them.
LEMMA EscInv ==
    ASSUME MatchInv, NEW p \in Peer, NEW q \in Peer, q = M!Other(p), M!EscReleased(p)
    PROVE  MatchInv'
<1>0. q # p /\ \A r \in Peer : r = p \/ r = q
  BY Pair
<1>1. /\ Typed /\ StringsTrue(p, q) /\ InTime(p, q) /\ Counted(p, q) /\ Ended(p, q)
      /\ StringsTrue(q, p) /\ InTime(q, p) /\ Counted(q, p) /\ Ended(q, p)
  BY <1>0 DEF MatchInv
<1>2. /\ state[p] = "MP_GAME" /\ state'[p] = "QUIT" /\ state'[q] = state[q]
      /\ state' \in [Peer -> M!GameState]
      /\ UNCHANGED <<tries, arrived, batches, lead, decided, late, loss>>
  BY <1>0, <1>1 DEF M!EscReleased, Typed, M!GameState
<1>n. NoString(q) /\ \A i \in 1..Len(batches[p]) : ~HasString(batches[p][i])
  BY <1>0, <1>2, PlayerSaysNothing
<1>3. Typed'
  BY <1>0, <1>1, <1>2 DEF Typed
<1>4. StringsTrue(p, q)' /\ StringsTrue(q, p)'
  <2>1. ArrivedTrue(p, q)' /\ SentTrue(q)'
    BY <1>1, <1>2 DEF StringsTrue, ArrivedTrue, SentTrue, Shows
  <2>2. ArrivedTrue(q, p)' /\ SentTrue(p)'
    BY <1>2, <1>n DEF ArrivedTrue, SentTrue, NoString, HasString
  <2> QED
    BY <2>1, <2>2 DEF StringsTrue
<1>5. InTime(p, q)' /\ InTime(q, p)'
  BY <1>1, <1>2 DEF InTime, M!Result
<1>6. Counted(p, q)' /\ Counted(q, p)'
  BY <1>1, <1>2 DEF Counted
<1>7. Ended(p, q)'
  BY <1>1, <1>2 DEF Ended, M!Result
<1>8. Ended(q, p)'
  <2>1. ~(state[q] \in M!Result /\ ~decided[q]) /\ state[q] # "DISCONNECT"
    BY <1>1, <1>2 DEF Ended, Shows
  <2> QED
    BY <1>2, <2>1 DEF Ended
<1> QED
  BY <1>0, <1>3, <1>4, <1>5, <1>6, <1>7, <1>8 DEF MatchInv

\* What leaves the cable: the rest of it is one batch shorter.
LEMMA TailOfCable ==
    ASSUME NEW s \in Seq(Batch), s # <<>>
    PROVE  /\ Tail(s) \in Seq(Batch) /\ Len(Tail(s)) = Len(s) - 1 /\ Len(s) \in Nat \ {0}
           /\ \A i \in 1..Len(Tail(s)) : i + 1 \in 1..Len(s) /\ Tail(s)[i] = s[i + 1]
           /\ Head(s) = s[1] /\ s[1] \in Batch
OBVIOUS

\* Deliver and Lose take the first batch off the cable; only Lose counts it.
Takes(p) ==
    /\ batches[p] # <<>> /\ batches' = [batches EXCEPT ![p] = Tail(@)]
    /\ UNCHANGED <<state, tries, lead, decided, late>>

\* A batch of packets arrives, or the cable loses it.
LEMMA TakeInv ==
    ASSUME MatchInv, NEW p \in Peer, NEW q \in Peer, q = M!Other(p), Takes(p),
           \/ /\ loss' = loss
              /\ arrived' = [arrived EXCEPT
                   ![q] = IF state[q] = "MP_GAME" THEN @ \o Head(batches[p]).pkts ELSE @]
           \/ loss < MaxLoss /\ loss' = loss + 1 /\ arrived' = arrived
    PROVE  MatchInv'
<1>0. q # p /\ \A r \in Peer : r = p \/ r = q
  BY Pair
<1>1. /\ Typed /\ StringsTrue(p, q) /\ InTime(p, q) /\ Counted(p, q) /\ Ended(p, q)
      /\ StringsTrue(q, p) /\ InTime(q, p) /\ Counted(q, p) /\ Ended(q, p)
  BY <1>0 DEF MatchInv
<1> DEFINE s == batches[p]
           h == Head(s).pkts
<1>2. s \in Seq(Batch) /\ s # <<>> /\ arrived \in [Peer -> Seq(M!Packet)]
      /\ batches \in [Peer -> Seq(Batch)]
  BY <1>1 DEF Typed, Takes
<1>3. /\ Tail(s) \in Seq(Batch) /\ Len(Tail(s)) = Len(s) - 1 /\ Len(s) \in Nat \ {0}
      /\ \A i \in 1..Len(Tail(s)) : i + 1 \in 1..Len(s) /\ Tail(s)[i] = s[i + 1]
      /\ Head(s) = s[1] /\ s[1] \in Batch
  BY <1>2, TailOfCable
<1>4. h \in Seq(M!Packet) /\ h # <<>>
  BY <1>3 DEF Batch
<1>5. /\ batches'[p] = Tail(s) /\ batches'[q] = batches[q] /\ batches' \in [Peer -> Seq(Batch)]
      /\ UNCHANGED <<state, tries, lead, decided, late>>
  BY <1>0, <1>2, <1>3 DEF Takes
<1>6. /\ arrived' \in [Peer -> Seq(M!Packet)] /\ arrived'[p] = arrived[p]
      /\ \/ loss' = loss /\ state[q] = "MP_GAME" /\ arrived'[q] = arrived[q] \o h
         \/ loss' = loss /\ state[q] # "MP_GAME" /\ arrived'[q] = arrived[q]
         \/ loss' = loss + 1 /\ arrived'[q] = arrived[q]
  <2>1. arrived[q] \in Seq(M!Packet) /\ arrived[q] \o h \in Seq(M!Packet)
    BY <1>2, <1>4
  <2> HIDE DEF h
  <2>2. \/ /\ loss' = loss
           /\ arrived' = [arrived EXCEPT ![q] = IF state[q] = "MP_GAME" THEN arrived[q] \o h ELSE arrived[q]]
        \/ loss' = loss + 1 /\ arrived' = arrived
    BY DEF h
  <2> QED
    BY <1>0, <1>2, <2>1, <2>2
<1>7. Typed'
  <2>1. loss' \in 0..MaxLoss
    <3>1. loss' = loss \/ (loss < MaxLoss /\ loss' = loss + 1)
      OBVIOUS
    <3>2. loss \in 0..MaxLoss /\ MaxLoss \in Nat
      BY <1>1, MatchInstances DEF Typed, M!MatchConstants
    <3> QED
      BY <3>1, <3>2
  <2> QED
    BY <1>1, <1>5, <1>6, <2>1 DEF Typed
<1> HIDE DEF s, h
<1>8. ArrivedTrue(p, q)' /\ SentTrue(q)'
  BY <1>1, <1>5, <1>6 DEF StringsTrue, ArrivedTrue, SentTrue, Shows
<1>9. SentTrue(p)'
  <2>1. \A i \in 1..Len(s) : \A j \in 1..Len(s[i].pkts) :
          s[i].pkts[j] # "data" => state[p] = Shows(s[i].pkts[j])
    BY <1>1 DEF StringsTrue, SentTrue, s
  <2>2. ASSUME NEW i \in 1..Len(Tail(s)), NEW j \in 1..Len(Tail(s)[i].pkts),
               Tail(s)[i].pkts[j] # "data"
        PROVE  state[p] = Shows(Tail(s)[i].pkts[j])
    <3>1. i + 1 \in 1..Len(s) /\ Tail(s)[i] = s[i + 1]
      BY <1>3
    <3> QED
      BY <2>1, <2>2, <3>1
  <2>3. batches'[p] = Tail(s) /\ state' = state
    BY <1>5
  <2> QED
    BY <2>2, <2>3 DEF SentTrue, Shows
<1>10. \A j \in 1..Len(h) : h[j] # "data" => state[p] = Shows(h[j])
  BY <1>1, <1>3 DEF StringsTrue, SentTrue, s, h
<1>11. ArrivedTrue(q, p)'
  <2>1. \A i \in 1..Len(arrived[q]) : arrived[q][i] # "data" => state[p] = Shows(arrived[q][i])
    BY <1>1 DEF StringsTrue, ArrivedTrue
  <2>2. CASE arrived'[q] = arrived[q]
    BY <1>5, <2>1, <2>2 DEF ArrivedTrue, Shows
  <2>3. CASE arrived'[q] = arrived[q] \o h
    <3>1. ASSUME NEW i \in 1..Len(arrived'[q])
          PROVE  arrived'[q][i] # "data" => state[p] = Shows(arrived'[q][i])
      <4>1. arrived[q] \in Seq(M!Packet)
        BY <1>2
      <4>2. Len(arrived'[q]) = Len(arrived[q]) + Len(h) /\ Len(arrived[q]) \in Nat /\ Len(h) \in Nat
        BY <1>4, <2>3, <4>1
      <4>3. CASE i <= Len(arrived[q])
        BY <1>4, <2>1, <2>3, <3>1, <4>1, <4>2, <4>3
      <4>4. CASE i > Len(arrived[q])
        <5>1. i - Len(arrived[q]) \in 1..Len(h) /\ arrived'[q][i] = h[i - Len(arrived[q])]
          BY <1>4, <2>3, <3>1, <4>1, <4>2, <4>4
        <5> QED
          BY <1>10, <5>1
      <4> QED
        BY <4>2, <4>3, <4>4
    <3> QED
      BY <1>5, <3>1 DEF ArrivedTrue, Shows
  <2> QED
    BY <1>6, <2>2, <2>3
<1>12. InTime(p, q)'
  <2>1. loss' = 0 => loss = 0
    BY <1>6, <1>1, MatchInstances DEF Typed, M!MatchConstants
  <2>2. ResultIsDue(p, q) => ResultIsDue(p, q)'
    BY <1>5, <1>6 DEF ResultIsDue, HasString
  <2> QED
    BY <1>1, <1>5, <2>1, <2>2 DEF InTime
<1>13. InTime(q, p)'
  <2>1. CASE loss' # 0
    BY <1>1, <1>5, <2>1 DEF InTime
  <2>2. CASE loss' = 0
    <3>1. loss' = loss
      BY <1>1, <1>6, <2>2, MatchInstances DEF Typed, M!MatchConstants
    <3>2. ASSUME state[q] = "MP_GAME", ResultIsDue(q, p)
          PROVE  ResultIsDue(q, p)'
      <4>0. arrived'[q] = arrived[q] \o h /\ arrived[q] \in Seq(M!Packet)
        BY <1>2, <1>6, <2>2, <3>1, <3>2, MatchInstances DEF M!MatchConstants
      <4>1. ASSUME NEW i \in 1..Len(arrived[q]), arrived[q][i] # "data"
            PROVE  ResultIsDue(q, p)'
        <5>1. i \in 1..Len(arrived'[q]) /\ arrived'[q][i] = arrived[q][i]
          BY <1>4, <4>0, <4>1
        <5> QED
          BY <4>1, <5>1 DEF ResultIsDue
      <4>2. ASSUME NEW i \in 1..Len(s), HasString(s[i]), late[q] = 0 \/ s[i].old
            PROVE  ResultIsDue(q, p)'
        <5>1. CASE i = 1
          <6>1. PICK j \in 1..Len(h) : h[j] # "data"
            BY <1>3, <4>2, <5>1 DEF HasString, h
          <6>2. Len(arrived[q]) + j \in 1..Len(arrived'[q])
                /\ arrived'[q][Len(arrived[q]) + j] = h[j]
            <7>1. Len(arrived[q]) \in Nat /\ Len(h) \in Nat /\ Len(arrived[q] \o h) = Len(arrived[q]) + Len(h)
              BY <1>4, <4>0
            <7>2. Len(arrived[q]) + j \in 1..(Len(arrived[q]) + Len(h))
              BY <7>1
            <7>3. (arrived[q] \o h)[Len(arrived[q]) + j] = h[j]
              BY <1>4, <4>0, ConcatProperties, <7>1, <7>2
            <7> QED
              BY <4>0, <7>1, <7>2, <7>3
          <6> QED
            BY <6>1, <6>2 DEF ResultIsDue
        <5>2. CASE i # 1
          <6>1. i - 1 \in 1..Len(Tail(s)) /\ (i - 1) + 1 = i
            BY <1>3, <4>2, <5>2
          <6>2. Tail(s)[i - 1] = s[i]
            BY <1>3, <6>1
          <6> QED
            BY <1>5, <4>2, <6>1, <6>2 DEF ResultIsDue, HasString
        <5> QED
          BY <5>1, <5>2
      <4> QED
        BY <3>2, <4>1, <4>2 DEF ResultIsDue, s
    <3> QED
      BY <1>1, <1>5, <3>1, <3>2 DEF InTime
  <2> QED
    BY <2>1, <2>2
<1>a. /\ lead[p] \in Int /\ lead[q] \in Int /\ Skew \in Int /\ loss \in Int /\ loss' \in Int
      /\ tries[p] \in Int /\ tries[q] \in Int /\ Len(s) \in Int /\ Len(batches[q]) \in Int
      /\ loss' = loss \/ loss' = loss + 1
  <2>1. Skew \in Int /\ \A r \in Peer : lead[r] \in Int /\ tries[r] \in Int
    BY <1>1, MatchInstances DEF Typed, M!MatchConstants
  <2>2. loss \in Int /\ loss' \in Int
    BY <1>1, <1>7 DEF Typed
  <2>3. Len(s) \in Int /\ batches[q] \in Seq(Batch)
    BY <1>2, <1>3
  <2> QED
    BY <1>6, <2>1, <2>2, <2>3
<1>14. Counted(p, q)'
  <2>1. ASSUME state[p] = "MP_GAME", state[q] = "MP_GAME", arrived[p] = <<>>
        PROVE  tries[p] <= lead[p] + Skew - 1 + loss' + Len(batches[q])
    <3>1. tries[p] <= lead[p] + Skew - 1 + loss + Len(batches[q])
      BY <1>1, <2>1 DEF Counted
    <3> QED
      BY <1>a, <3>1
  <2> QED
    BY <1>1, <1>5, <1>6, <2>1 DEF Counted
<1>15. Counted(q, p)'
  <2>1. ASSUME NEW i \in 1..Len(Tail(s)), ~Tail(s)[i].old
        PROVE  Len(Tail(s)) - i + 1 + lead[q] <= Skew
    <3>1. i + 1 \in 1..Len(s) /\ ~s[i + 1].old
      BY <1>3, <2>1
    <3>2. Len(s) - (i + 1) + 1 + lead[q] <= Skew
      BY <1>1, <3>1 DEF Counted, s
    <3>3. Len(Tail(s)) = Len(s) - 1
      BY <1>3
    <3> QED
      BY <1>a, <3>2, <3>3
  <2>2. ASSUME state[p] = "MP_GAME", state[q] = "MP_GAME", arrived'[q] = <<>>
        PROVE  tries[q] <= lead[q] + Skew - 1 + loss' + Len(Tail(s))
    <3>1. arrived[q] \in Seq(M!Packet)
      BY <1>2
    <3>2. arrived[q] \o h # <<>>
      BY <1>4, <3>1
    <3>3. loss' = loss + 1 /\ arrived[q] = <<>>
      BY <1>6, <2>2, <3>2
    <3>4. tries[q] <= lead[q] + Skew - 1 + loss + Len(s)
      BY <1>1, <2>2, <3>3 DEF Counted, s
    <3>5. Len(Tail(s)) = Len(s) - 1
      BY <1>3
    <3> QED
      BY <1>a, <3>3, <3>4, <3>5
  <2>3. lead[q] = -lead[p]
    BY <1>1 DEF Counted
  <2> QED
    BY <1>5, <2>1, <2>2, <2>3 DEF Counted
<1>16. Ended(p, q)' /\ Ended(q, p)'
  BY <1>1, <1>5 DEF Ended
<1> QED
  BY <1>0, <1>7, <1>8, <1>9, <1>11, <1>12, <1>13, <1>14, <1>15, <1>16 DEF MatchInv, StringsTrue

\* The invariant of a match.
LEMMA MatchInvariant == M!Spec => []MatchInv
<1>1. MatchInv /\ M!Next => MatchInv'
  <2> SUFFICES ASSUME MatchInv, NEW p \in Peer,
                      M!Tick(p) \/ M!EscReleased(p) \/ M!Deliver(p) \/ M!Lose(p)
               PROVE  MatchInv'
    BY DEF M!Next
  <2>0. M!Other(p) \in Peer
    BY Pair
  <2>1. CASE M!Tick(p)
    BY <2>0, <2>1, TickInv DEF M!Tick
  <2>2. CASE M!EscReleased(p)
    BY <2>0, <2>2, EscInv
  <2>3. CASE M!Deliver(p)
    BY <2>0, <2>3, TakeInv DEF M!Deliver, Takes
  <2>4. CASE M!Lose(p)
    BY <2>0, <2>4, TakeInv DEF M!Lose, Takes
  <2> QED
    BY <2>1, <2>2, <2>3, <2>4
<1>2. MatchInv /\ UNCHANGED M!vars => MatchInv'
  <2> SUFFICES ASSUME MatchInv, UNCHANGED M!vars PROVE MatchInv'
    OBVIOUS
  <2>1. Typed'
    BY DEF M!vars, MatchInv, Typed
  <2>2. ASSUME NEW p \in Peer, NEW q \in Peer, p # q
        PROVE  (StringsTrue(p, q) /\ InTime(p, q) /\ Counted(p, q) /\ Ended(p, q))'
    <3>1. StringsTrue(p, q) /\ InTime(p, q) /\ Counted(p, q) /\ Ended(p, q)
      BY <2>2 DEF MatchInv
    <3>2. StringsTrue(p, q)'
      BY <3>1 DEF M!vars, StringsTrue, ArrivedTrue, SentTrue, Shows
    <3>3. InTime(p, q)'
      BY <3>1 DEF M!vars, InTime, ResultIsDue, HasString
    <3>4. Counted(p, q)'
      BY <3>1 DEF M!vars, Counted
    <3>5. Ended(p, q)'
      BY <3>1 DEF M!vars, Ended
    <3> QED
      BY <3>2, <3>3, <3>4, <3>5
  <2> QED
    BY <2>1, <2>2 DEF MatchInv
<1> QED
  BY <1>1, <1>2, MatchInitially, PTL DEF M!Spec

-----------------------------------------------------------------------------
(***************************************************************************)
(* The variables of module Match have their types: in particular no        *)
(* machine counts more than UART_PACKET_TRIES + 1 tries, neither clock     *)
(* leads by more than the skew, and only packets are on the cable.         *)
(***************************************************************************)
THEOREM MatchTypes == M!Spec => []M!TypeOK
<1>1. MatchInv => M!TypeOK
  <2> SUFFICES ASSUME Typed PROVE M!TypeOK
    BY DEF MatchInv
  <2>1. ASSUME NEW p \in Peer, NEW i \in DOMAIN batches[p]
        PROVE  batches[p][i].pkts \in Seq(M!Packet) /\ batches[p][i].old \in BOOLEAN
    <3>1. batches[p][i] \in Batch
      BY <2>1 DEF Typed
    <3> QED
      BY <3>1 DEF Batch
  <2> QED
    BY <2>1 DEF Typed, M!TypeOK, M!LateCap
<1> QED
  BY <1>1, MatchInvariant, PTL

(***************************************************************************)
(* Two machines judge a match differently only if their messages cross     *)
(* (update_game_state): one that is told the result shows the opposite of  *)
(* what the other shows, and when no packet is lost it hears of it before  *)
(* it plays a second tick.                                                 *)
(***************************************************************************)
THEOREM MatchResultsAgree == M!Spec => []ResultsAgree
<1>1. MatchInv => ResultsAgree
  <2> SUFFICES ASSUME MatchInv, NEW p \in Peer
               PROVE  /\ (state[p] \in M!Result /\ ~decided[p]) =>
                           state[M!Other(p)] = (CHOOSE r \in M!Result : r # state[p])
                      /\ (state[M!Other(p)] \in M!Result /\ loss = 0) => late[p] <= 1
    BY DEF ResultsAgree, M!ToldIsOpposite, M!HearsOfResult
  <2>1. Ended(p, M!Other(p)) /\ InTime(p, M!Other(p))
    BY Pair DEF MatchInv
  <2>2. ASSUME NEW x \in {"WIN", "LOS"}
        PROVE  Shows(x) = CHOOSE r \in M!Result : r # Told(x)
    BY DEF Shows, Told, M!Result
  <2> QED
    BY <2>1, <2>2 DEF Ended, InTime
<1> QED
  BY <1>1, MatchInvariant, PTL

(***************************************************************************)
(* DISCONNECT is true: no machine gives up a partner that still plays,     *)
(* when UART_PACKET_TRIES is at least the packets lost and twice the skew  *)
(* of the clocks together.                                                 *)
(***************************************************************************)
THEOREM MatchDisconnects == M!Spec => []DisconnectMeansGone
<1>1. MatchInv => DisconnectMeansGone
  BY Pair DEF MatchInv, Ended, DisconnectMeansGone, M!DisconnectMeansGone
<1> QED
  BY <1>1, MatchInvariant, PTL

-----------------------------------------------------------------------------
(***************************************************************************)
(* Module Packets: what the bytes of a match say, read back in order.      *)
(***************************************************************************)
Control == [keys : SUBSET Key, lb : BOOLEAN, gun_index : 0..2, mouse_desl : Int]

\* Membership as a truth value.
LEMMA MemberAsValue ==
    ASSUME NEW x, NEW S, NEW v \in BOOLEAN, (x \in S) <=> v PROVE (x \in S) = v
BY Zenon

\* The elements of a packet.
LEMMA ThreeElements ==
    ASSUME NEW S, NEW s \in Seq(S), Len(s) = 3
    PROVE  s[1] \in S /\ s[2] \in S /\ s[3] \in S
OBVIOUS

FlagNames == {"shoot", "ctrl", "shift", "d", "s", "a", "w", "msb"}

\* The second byte holds eight flags, and each is read back as it was set.
LEMMA FlagsReadBack ==
    ASSUME NEW pkt, pkt.down \subseteq FlagNames, NEW byte,
           byte = Flag(pkt, "shoot") + Flag(pkt, "ctrl") + Flag(pkt, "shift") + Flag(pkt, "d")
                    + Flag(pkt, "s") + Flag(pkt, "a") + Flag(pkt, "w") + Flag(pkt, "msb")
    PROVE  byte \in 0..255 /\ {k \in DOMAIN Bit : (byte \div Bit[k]) % 2 = 1} = pkt.down
<1> DEFINE b(k) == IF k \in pkt.down THEN 1 ELSE 0
<1>1. \A k : b(k) \in {0, 1} /\ (b(k) = 1 <=> k \in pkt.down)
  OBVIOUS
<1>2. DOMAIN Bit = FlagNames
  BY DEF Bit, FlagNames
<1>3. /\ Bit["shoot"] = 1 /\ Bit["ctrl"] = 2 /\ Bit["shift"] = 4 /\ Bit["d"] = 8
      /\ Bit["s"] = 16 /\ Bit["a"] = 32 /\ Bit["w"] = 64 /\ Bit["msb"] = 128
  BY DEF Bit
<1>4. byte = b("shoot") + 2*b("ctrl") + 4*b("shift") + 8*b("d") + 16*b("s") + 32*b("a")
               + 64*b("w") + 128*b("msb")
  BY <1>3 DEF Flag
<1> HIDE DEF b
<1>5. /\ byte \in 0..255
      /\ (byte \div 1) % 2 = b("shoot") /\ (byte \div 2) % 2 = b("ctrl")
      /\ (byte \div 4) % 2 = b("shift") /\ (byte \div 8) % 2 = b("d")
      /\ (byte \div 16) % 2 = b("s") /\ (byte \div 32) % 2 = b("a")
      /\ (byte \div 64) % 2 = b("w") /\ (byte \div 128) % 2 = b("msb")
  <2>1. /\ b("shoot") \in {0, 1} /\ b("ctrl") \in {0, 1} /\ b("shift") \in {0, 1} /\ b("d") \in {0, 1}
        /\ b("s") \in {0, 1} /\ b("a") \in {0, 1} /\ b("w") \in {0, 1} /\ b("msb") \in {0, 1}
    BY <1>1
  <2> DEFINE b0 == b("shoot")
             b1 == b("ctrl")
             b2 == b("shift")
             b3 == b("d")
             b4 == b("s")
             b5 == b("a")
             b6 == b("w")
             b7 == b("msb")
  <2>2. byte = b0 + 2*b1 + 4*b2 + 8*b3 + 16*b4 + 32*b5 + 64*b6 + 128*b7
    BY <1>4
  <2> HIDE DEF b0, b1, b2, b3, b4, b5, b6, b7
  <2>3. /\ b0 \in {0, 1} /\ b1 \in {0, 1} /\ b2 \in {0, 1} /\ b3 \in {0, 1}
        /\ b4 \in {0, 1} /\ b5 \in {0, 1} /\ b6 \in {0, 1} /\ b7 \in {0, 1}
    BY <2>1 DEF b0, b1, b2, b3, b4, b5, b6, b7
  <2>4. /\ byte \in 0..255
        /\ (byte \div 1) % 2 = b0 /\ (byte \div 2) % 2 = b1 /\ (byte \div 4) % 2 = b2
        /\ (byte \div 8) % 2 = b3 /\ (byte \div 16) % 2 = b4 /\ (byte \div 32) % 2 = b5
        /\ (byte \div 64) % 2 = b6 /\ (byte \div 128) % 2 = b7
    BY <2>2, <2>3, SMTT(60)
  <2> QED
    BY <2>4 DEF b0, b1, b2, b3, b4, b5, b6, b7
<1>6. \A k \in FlagNames : (byte \div Bit[k]) % 2 = b(k)
  BY <1>3, <1>5 DEF FlagNames
<1>7. \A k \in FlagNames : (byte \div Bit[k]) % 2 = 1 <=> k \in pkt.down
  BY <1>1, <1>6
<1> HIDE DEF FlagNames
<1>8. {k \in FlagNames : (byte \div Bit[k]) % 2 = 1} = pkt.down
  BY <1>7
<1> QED
  BY <1>2, <1>5, <1>8

\* The limit of the turn, before it is cut into two bytes.
LEMMA TurnBounded ==
    ASSUME NEW m \in 0..255
    PROVE  Magnitude(Clamp(m * Quantum)) \div Quantum \in 0..243
BY DEF Magnitude, Clamp, Quantum, Limit

\* The mouse byte and the sign read back as the turn.
LEMMA MouseByte ==
    ASSUME NEW x \in Int
    PROVE  LET m == (Magnitude(Clamp(x)) \div Quantum) % 256
           IN  m \in 0..243 /\ Magnitude(Clamp(m * Quantum)) \div Quantum = m
BY DEF Magnitude, Clamp, Quantum, Limit

\* The bytes of a packet, and what the other machine makes of them.
LEMMA PacketReadBack ==
    ASSUME NEW c \in Control, NEW e, e = encode_data(encode_packet(c))
    PROVE  /\ e \in Seq(0..255) /\ Len(e) = 3 /\ Confirmed(e[1])
           /\ RemoteEffect(decode_data(e)) = LocalEffect(c)
<1> DEFINE pkt == encode_packet(c)
           m == (Magnitude(Clamp(c.mouse_desl)) \div Quantum) % 256
           d == c.keys \cup (IF c.lb THEN {"shoot"} ELSE {}) \cup (IF c.mouse_desl < 0 THEN {"msb"} ELSE {})
           byte == Flag(pkt, "shoot") + Flag(pkt, "ctrl") + Flag(pkt, "shift") + Flag(pkt, "d")
                     + Flag(pkt, "s") + Flag(pkt, "a") + Flag(pkt, "w") + Flag(pkt, "msb")
<1>0. c.keys \subseteq Key /\ c.lb \in BOOLEAN /\ c.gun_index \in 0..2 /\ c.mouse_desl \in Int
  BY DEF Control
<1>1. pkt.down = d /\ pkt.gun_down = c.gun_index + 1 /\ pkt.mouse_byte = m
  BY DEF encode_packet
<1>2. m \in 0..243 /\ Magnitude(Clamp(m * Quantum)) \div Quantum = m
  BY <1>0, MouseByte
<1>3. d \subseteq FlagNames
  BY <1>0 DEF Key, FlagNames
<1> HIDE DEF pkt, m, d
<1>4. byte \in 0..255 /\ {k \in DOMAIN Bit : (byte \div Bit[k]) % 2 = 1} = d
  BY <1>1, <1>3, FlagsReadBack
<1> HIDE DEF byte
<1> DEFINE h == DATA_CONFIRM_PACKET + DATA_GUN_DOWN[c.gun_index + 1]
<1>5. e = <<h, m, byte>>
  BY <1>1 DEF encode_data, byte, pkt
<1>6. \/ c.gun_index = 0 /\ h = 169
      \/ c.gun_index = 1 /\ h = 170
      \/ c.gun_index = 2 /\ h = 172
  BY <1>0 DEF DATA_CONFIRM_PACKET, DATA_GUN_DOWN
<1> HIDE DEF h
<1>7. e \in Seq(0..255) /\ Len(e) = 3 /\ e[1] = h /\ e[2] = m /\ e[3] = byte
  BY <1>2, <1>4, <1>5, <1>6
<1>8. Confirmed(e[1])
  BY <1>6, <1>7 DEF Confirmed, DATA_CONFIRM_PACKET
<1> DEFINE r == decode_data(e)
<1>9. r.down = d /\ r.mouse_byte = m
  BY <1>4, <1>7 DEF decode_data
<1>10. r.gun_down = c.gun_index + 1
  <2>1. r.gun_down = CASE h % 2 = 1 -> 1
                    [] h % 2 = 0 /\ (h \div 2) % 2 = 1 -> 2
                    [] h % 4 = 0 /\ (h \div 4) % 2 = 1 -> 3
                    [] OTHER -> 0
    BY <1>7 DEF decode_data
  <2>2. CASE c.gun_index = 0 /\ h = 169
    BY <2>1, <2>2
  <2>3. CASE c.gun_index = 1 /\ h = 170
    BY <2>1, <2>3
  <2>4. CASE c.gun_index = 2 /\ h = 172
    BY <2>1, <2>4
  <2> QED
    BY <1>6, <2>2, <2>3, <2>4
<1> HIDE DEF r
<1>11. r.down \ {"shoot", "msb"} = c.keys
  BY <1>0, <1>9 DEF d, Key
<1>12. ("shoot" \in r.down) = c.lb
  <2>1. "shoot" \in d <=> c.lb
    BY <1>0 DEF d, Key
  <2> QED
    BY <1>0, <1>9, <2>1, MemberAsValue, Zenon
<1>13. "msb" \in r.down <=> c.mouse_desl < 0
  BY <1>0, <1>9 DEF d, Key
<1>14. r.gun_down - 1 = c.gun_index
  BY <1>0, <1>10
<1>15. Magnitude(Clamp(r.mouse_byte * Quantum)) \div Quantum = m
  BY <1>2, <1>9
<1>16. (IF "msb" \in r.down THEN -m ELSE m) = (IF c.mouse_desl < 0 THEN -m ELSE m)
  BY <1>13
<1>17. RemoteEffect(r) = [keys |-> r.down \ {"shoot", "msb"}, lb |-> "shoot" \in r.down,
                          gun |-> r.gun_down - 1, turn |-> IF "msb" \in r.down THEN -m ELSE m]
  BY <1>15, Zenon DEF RemoteEffect
<1>18. LocalEffect(c) = [keys |-> c.keys, lb |-> c.lb, gun |-> c.gun_index,
                         turn |-> IF c.mouse_desl < 0 THEN -m ELSE m]
  BY Zenon DEF LocalEffect, m
<1>19. RemoteEffect(r) = LocalEffect(c)
  <2> DEFINE k == r.down \ {"shoot", "msb"}
             l == "shoot" \in r.down
             g == r.gun_down - 1
             t == IF "msb" \in r.down THEN -m ELSE m
             t2 == IF c.mouse_desl < 0 THEN -m ELSE m
  <2>1. k = c.keys /\ l = c.lb /\ g = c.gun_index /\ t = t2
    BY <1>11, <1>12, <1>14, <1>16, Zenon
  <2>2. RemoteEffect(r) = [keys |-> k, lb |-> l, gun |-> g, turn |-> t]
    BY <1>17, Zenon
  <2>3. LocalEffect(c) = [keys |-> c.keys, lb |-> c.lb, gun |-> c.gun_index, turn |-> t2]
    BY <1>18, Zenon
  <2> HIDE DEF k, l, g, t, t2
  <2> QED
    BY <2>1, <2>2, <2>3, Zenon
<1> QED
  BY <1>7, <1>8, <1>19 DEF r

\* Whatever the bytes are, they decode to something a player can do.
LEMMA EffectTypes ==
    ASSUME NEW data \in Seq(0..255), Len(data) = 3
    PROVE  RemoteEffect(decode_data(data)) \in Effect
<1> DEFINE r == decode_data(data)
<1>1. data[1] \in 0..255 /\ data[2] \in 0..255 /\ data[3] \in 0..255
  BY ThreeElements, Zenon
<1>2. r.down \subseteq FlagNames /\ r.mouse_byte \in 0..255
  BY <1>1 DEF decode_data, Bit, FlagNames
<1>3. r.gun_down \in 0..3
  BY <1>1 DEF decode_data
<1> HIDE DEF r
<1>4. r.down \ {"shoot", "msb"} \in SUBSET Key /\ ("shoot" \in r.down) \in BOOLEAN
  BY <1>2 DEF FlagNames, Key
<1>5. r.gun_down - 1 \in -1..2
  BY <1>3
<1> DEFINE x == Magnitude(Clamp(r.mouse_byte * Quantum)) \div Quantum
<1>6. x \in 0..243
  BY <1>2, TurnBounded
<1> HIDE DEF x
<1>7. (IF "msb" \in r.down THEN -x ELSE x) \in -243..243
  BY <1>6
<1>8. RemoteEffect(r) = [keys |-> r.down \ {"shoot", "msb"}, lb |-> "shoot" \in r.down,
                         gun |-> r.gun_down - 1, turn |-> IF "msb" \in r.down THEN -x ELSE x]
  BY Zenon DEF RemoteEffect, x
<1> QED
  BY <1>4, <1>5, <1>7, <1>8 DEF Effect, r

\* What a player does is an effect.
LEMMA LocalTypes == ASSUME NEW c \in Control PROVE LocalEffect(c) \in Effect
BY PacketReadBack, EffectTypes

-----------------------------------------------------------------------------
(* The stream: what is in the array, in the queue and on the cable.        *)

Byte == 0..255
Stream == (bytes \o in_fifo) \o wire

\* What the three bytes from place i on make the copy do.
EffectAt(s, i) == RemoteEffect(decode_data(<<s[i], s[i + 1], s[i + 2]>>))

Ends(e) == e \in {"WIN", "LOSE"}
WordOf(e) == IF e = "WIN" THEN UART_WIN_GAME ELSE UART_LOSE_GAME

\* The stream s is the packets of what is still to do, and the string e.
Framed(s, todo, e) ==
    /\ Len(s) = 3 * Len(todo) + (IF Ends(e) THEN 3 ELSE 0)
    /\ \A k \in 1..Len(todo) : Confirmed(s[3 * k - 2]) /\ EffectAt(s, 3 * k - 2) = todo[k]
    /\ Ends(e) => \A j \in 1..3 : s[3 * Len(todo) + j] = WordOf(e)[j]

\* Packets, for any line; and for a line without noise.
PacketsTyped ==
    /\ TypeOK
    /\ receiving => out = "no"
    /\ out = "no" /\ ~receiving => packet_tries <= PacketTries

Follows ==
    noise = 0 =>
        /\ in_fifo \in Seq(Byte)
        /\ \E todo \in Seq(Effect) :
             sent = applied \o todo /\ (out = "no" => Framed(Stream, todo, ended))
        /\ Ends(out) => ended = out

\* Two streams that agree on a packet agree on its three bytes,
LEMMA SameThree ==
    ASSUME NEW s, NEW t, NEW i, t[1] = s[i], t[2] = s[i + 1], t[3] = s[i + 2]
    PROVE  EffectAt(s, i) = RemoteEffect(decode_data(t))
<1>1. decode_data(t) = decode_data(<<s[i], s[i + 1], s[i + 2]>>)
  <2> DEFINE u == <<s[i], s[i + 1], s[i + 2]>>
  <2>1. u[1] = t[1] /\ u[2] = t[2] /\ u[3] = t[3]
    OBVIOUS
  <2> HIDE DEF u
  <2>2. decode_data(t) = decode_data(u)
    BY <2>1 DEF decode_data
  <2> QED
    BY <2>2 DEF u
<1> QED
  BY <1>1 DEF EffectAt

\* ... and so on what it makes the copy do.
LEMMA SameEffect ==
    ASSUME NEW s, NEW t, NEW i, NEW j, t[j] = s[i], t[j + 1] = s[i + 1], t[j + 2] = s[i + 2]
    PROVE  EffectAt(t, j) = EffectAt(s, i)
BY DEF EffectAt

\* The elements of a concatenation: the first part,
LEMMA ConcatFirst ==
    ASSUME NEW S, NEW s \in Seq(S), NEW t \in Seq(S)
    PROVE  /\ s \o t \in Seq(S) /\ Len(s \o t) = Len(s) + Len(t)
           /\ \A i \in 1..Len(s) : (s \o t)[i] = s[i]
BY ConcatProperties

\* ... and the second.
LEMMA ConcatSecond ==
    ASSUME NEW s \in Seq(Byte), NEW t \in Seq(Byte), NEW u, u = s \o t
    PROVE  \A j \in 1..Len(t) : u[Len(s) + j] = t[j]
<1> SUFFICES ASSUME NEW j \in 1..Len(t) PROVE u[Len(s) + j] = t[j]
  OBVIOUS
<1>1. Len(s) + j \in 1..(Len(s) + Len(t)) /\ ~(Len(s) + j <= Len(s)) /\ Len(s) + j - Len(s) = j
  OBVIOUS
<1> QED
  BY <1>1, ConcatProperties

\* The two strings are three bytes each.
LEMMA WordTyped ==
    ASSUME NEW e PROVE WordOf(e) \in Seq(Byte) /\ Len(WordOf(e)) = 3
<1>1. UART_WIN_GAME \in Seq(Byte) /\ Len(UART_WIN_GAME) = 3
  BY DEF UART_WIN_GAME, Byte
<1>2. UART_LOSE_GAME \in Seq(Byte) /\ Len(UART_LOSE_GAME) = 3
  BY DEF UART_LOSE_GAME, Byte
<1> QED
  BY <1>1, <1>2 DEF WordOf

\* A packet that is sent is one more thing to do.
LEMMA FramedSend ==
    ASSUME NEW s \in Seq(Byte), NEW todo \in Seq(Effect), NEW e, ~Ends(e), Framed(s, todo, e),
           NEW t \in Seq(Byte), Len(t) = 3, Confirmed(t[1]), NEW x \in Effect,
           RemoteEffect(decode_data(t)) = x
    PROVE  Framed(s \o t, Append(todo, x), e)
<1> DEFINE u == s \o t
           n == Len(todo)
<1>1. Len(s) = 3 * n /\ n \in Nat /\ Len(Append(todo, x)) = n + 1
  BY DEF Framed
<1>2. /\ u \in Seq(Byte) /\ Len(u) = 3 * n + 3
      /\ \A i \in 1..(3 * n) : u[i] = s[i]
      /\ u[3 * n + 1] = t[1] /\ u[3 * n + 2] = t[2] /\ u[3 * n + 3] = t[3]
  <2>1. 1 \in 1..Len(t) /\ 2 \in 1..Len(t) /\ 3 \in 1..Len(t)
    OBVIOUS
  <2>2. /\ u \in Seq(Byte) /\ Len(u) = Len(s) + Len(t)
        /\ \A i \in 1..Len(s) : u[i] = s[i]
        /\ \A j \in 1..Len(t) : u[Len(s) + j] = t[j]
    <3>1. u \in Seq(Byte) /\ Len(u) = Len(s) + Len(t)
      BY ConcatFirst
    <3>2. \A i \in 1..Len(s) : u[i] = s[i]
      BY ConcatFirst
    <3>3. \A j \in 1..Len(t) : u[Len(s) + j] = t[j]
      BY ConcatSecond
    <3> QED
      BY <3>1, <3>2, <3>3
  <2> HIDE DEF u
  <2> QED
    BY <1>1, <2>1, <2>2
<1> HIDE DEF u
<1>3. ASSUME NEW k \in 1..(n + 1)
      PROVE  Confirmed(u[3 * k - 2]) /\ EffectAt(u, 3 * k - 2) = Append(todo, x)[k]
  <2>1. CASE k \in 1..n
    <3> DEFINE i == 3 * k - 2
    <3>1. i \in 1..(3 * n) /\ i + 1 \in 1..(3 * n) /\ i + 2 \in 1..(3 * n)
      BY <1>1, <2>1
    <3>2. Confirmed(s[i]) /\ EffectAt(s, i) = todo[k]
      BY <2>1 DEF Framed
    <3> HIDE DEF i
    <3>3. u[i] = s[i] /\ u[i + 1] = s[i + 1] /\ u[i + 2] = s[i + 2]
      BY <1>2, <3>1
    <3>4. EffectAt(u, i) = EffectAt(s, i)
      BY <3>3, SameEffect
    <3>5. Append(todo, x)[k] = todo[k]
      BY <2>1
    <3> QED
      BY <3>2, <3>3, <3>4, <3>5 DEF i
  <2>2. CASE k = n + 1
    <3> DEFINE i == 3 * n + 1
    <3>1. 3 * k - 2 = i /\ 3 * n + 2 = i + 1 /\ 3 * n + 3 = i + 2
      BY <1>1, <2>2
    <3>2. t[1] = u[i] /\ t[2] = u[i + 1] /\ t[3] = u[i + 2]
      BY <1>2, <3>1
    <3> HIDE DEF i
    <3>3. EffectAt(u, i) = x
      BY <3>2, SameThree
    <3>4. Append(todo, x)[k] = x
      BY <2>2
    <3> QED
      BY <3>1, <3>2, <3>3, <3>4
  <2> QED
    BY <1>1, <2>1, <2>2
<1>4. Len(u) = 3 * Len(Append(todo, x))
  BY <1>1, <1>2
<1>5. Framed(u, Append(todo, x), e)
  BY <1>1, <1>3, <1>4 DEF Framed
<1> QED
  BY <1>5 DEF u

\* The string is sent after all packets.
LEMMA FramedWord ==
    ASSUME NEW s \in Seq(Byte), NEW todo \in Seq(Effect), NEW d, ~Ends(d), Framed(s, todo, d),
           NEW e, Ends(e)
    PROVE  Framed(s \o WordOf(e), todo, e)
<1> DEFINE t == WordOf(e)
           u == s \o t
           n == Len(todo)
<1>1. Len(s) = 3 * n /\ n \in Nat
  BY DEF Framed
<1>2. t \in Seq(Byte) /\ Len(t) = 3
  BY WordTyped
<1> HIDE DEF t
<1>3. /\ Len(u) = 3 * n + 3
      /\ \A i \in 1..(3 * n) : u[i] = s[i]
      /\ \A j \in 1..3 : u[3 * n + j] = t[j]
  <2>1. /\ u \in Seq(Byte) /\ Len(u) = Len(s) + Len(t)
        /\ \A i \in 1..Len(s) : u[i] = s[i]
        /\ \A j \in 1..Len(t) : u[Len(s) + j] = t[j]
    <3>1. u \in Seq(Byte) /\ Len(u) = Len(s) + Len(t)
      BY <1>2, ConcatFirst
    <3>2. \A i \in 1..Len(s) : u[i] = s[i]
      BY <1>2, ConcatFirst
    <3>3. \A j \in 1..Len(t) : u[Len(s) + j] = t[j]
      BY <1>2, ConcatSecond
    <3> QED
      BY <3>1, <3>2, <3>3
  <2> HIDE DEF u
  <2> QED
    BY <1>1, <1>2, <2>1
<1> HIDE DEF u
<1>4. ASSUME NEW k \in 1..n
      PROVE  Confirmed(u[3 * k - 2]) /\ EffectAt(u, 3 * k - 2) = todo[k]
  <2> DEFINE i == 3 * k - 2
  <2>1. i \in 1..(3 * n) /\ i + 1 \in 1..(3 * n) /\ i + 2 \in 1..(3 * n)
    BY <1>1
  <2>2. Confirmed(s[i]) /\ EffectAt(s, i) = todo[k]
    BY DEF Framed
  <2> HIDE DEF i
  <2>3. u[i] = s[i] /\ u[i + 1] = s[i + 1] /\ u[i + 2] = s[i + 2]
    BY <1>3, <2>1
  <2>4. EffectAt(u, i) = EffectAt(s, i)
    BY <2>3, SameEffect
  <2> QED
    BY <2>2, <2>3, <2>4 DEF i
<1> QED
  BY <1>3, <1>4 DEF Framed, t, u

\* A full array is the first packet, or the string when there is none left.
LEMMA FramedTake ==
    ASSUME NEW t \in Seq(Byte), Len(t) = 3, NEW r \in Seq(Byte), NEW todo \in Seq(Effect), NEW e,
           Framed(t \o r, todo, e)
    PROVE  /\ todo # <<>> => /\ Confirmed(t[1]) /\ RemoteEffect(decode_data(t)) = Head(todo)
                             /\ Framed(r, Tail(todo), e)
           /\ todo = <<>> => Ends(e) /\ t = WordOf(e)
<1> DEFINE s == t \o r
           n == Len(todo)
<1>1. /\ Len(s) = 3 + Len(r) /\ Len(r) \in Nat /\ n \in Nat
      /\ \A i \in 1..3 : s[i] = t[i]
      /\ \A i \in 1..Len(r) : s[i + 3] = r[i]
  <2>1. Len(r) \in Nat /\ n \in Nat /\ \A i \in 1..Len(r) : i + 3 = Len(t) + i
    OBVIOUS
  <2>2. /\ s \in Seq(Byte) /\ Len(s) = Len(t) + Len(r)
        /\ \A i \in 1..Len(t) : s[i] = t[i]
        /\ \A j \in 1..Len(r) : s[Len(t) + j] = r[j]
    <3>1. s \in Seq(Byte) /\ Len(s) = Len(t) + Len(r)
      BY ConcatFirst
    <3>2. \A i \in 1..Len(t) : s[i] = t[i]
      BY ConcatFirst
    <3>3. \A j \in 1..Len(r) : s[Len(t) + j] = r[j]
      BY ConcatSecond
    <3> QED
      BY <3>1, <3>2, <3>3
  <2> HIDE DEF s
  <2> QED
    BY <2>1, <2>2
<1> HIDE DEF s
<1>2. Framed(s, todo, e)
  BY DEF s
<1>3. ASSUME todo = <<>>
      PROVE  Ends(e) /\ t = WordOf(e)
  <2>1. n = 0
    BY <1>3
  <2>2. Ends(e)
    BY <1>1, <1>2, <2>1 DEF Framed
  <2>3. \A j \in 1..3 : s[j] = WordOf(e)[j]
    BY <1>2, <2>1, <2>2 DEF Framed
  <2>4. WordOf(e) \in Seq(Byte) /\ Len(WordOf(e)) = 3
    BY WordTyped
  <2> QED
    BY <1>1, <2>2, <2>3, <2>4, SeqEqual
<1>4. ASSUME todo # <<>>
      PROVE  /\ Confirmed(t[1]) /\ RemoteEffect(decode_data(t)) = Head(todo)
             /\ Framed(r, Tail(todo), e)
  <2>1. /\ n >= 1 /\ Len(Tail(todo)) = n - 1 /\ Head(todo) = todo[1]
        /\ \A k \in 1..(n - 1) : Tail(todo)[k] = todo[k + 1]
    BY <1>4
  <2>2. Confirmed(s[1]) /\ EffectAt(s, 1) = todo[1]
    <3>1. 1 \in 1..n /\ 3 * 1 - 2 = 1
      BY <1>1, <2>1
    <3> QED
      BY <1>2, <3>1 DEF Framed
  <2>3. EffectAt(s, 1) = RemoteEffect(decode_data(t))
    <3>1. t[1] = s[1] /\ t[2] = s[1 + 1] /\ t[3] = s[1 + 2]
      BY <1>1
    <3> QED
      BY <3>1, SameThree
  <2>4. Len(r) = 3 * (n - 1) + (IF Ends(e) THEN 3 ELSE 0)
    BY <1>1, <1>2 DEF Framed
  <2>5. ASSUME NEW k \in 1..(n - 1)
        PROVE  Confirmed(r[3 * k - 2]) /\ EffectAt(r, 3 * k - 2) = Tail(todo)[k]
    <3> DEFINE i == 3 * k - 2
    <3>1. i \in 1..Len(r) /\ i + 1 \in 1..Len(r) /\ i + 2 \in 1..Len(r)
      <4>1. Len(r) >= 3 * (n - 1)
        BY <1>1, <2>1, <2>4
      <4> QED
        BY <1>1, <4>1
    <3>2. 3 * (k + 1) - 2 = i + 3 /\ k + 1 \in 1..n /\ i \in Int
      BY <1>1
    <3>3. Confirmed(s[i + 3]) /\ EffectAt(s, i + 3) = todo[k + 1]
      BY <1>2, <3>2 DEF Framed
    <3> HIDE DEF i
    <3>4. r[i] = s[i + 3] /\ r[i + 1] = s[(i + 3) + 1] /\ r[i + 2] = s[(i + 3) + 2]
      <4>1. (i + 1) + 3 = (i + 3) + 1 /\ (i + 2) + 3 = (i + 3) + 2
        BY <3>2
      <4>2. \A m \in 1..Len(r) : s[m + 3] = r[m]
        BY <1>1
      <4>3. r[i] = s[i + 3] /\ r[i + 1] = s[(i + 1) + 3] /\ r[i + 2] = s[(i + 2) + 3]
        BY <3>1, <4>2, Zenon
      <4> QED
        BY <4>1, <4>3
    <3>5. EffectAt(r, i) = EffectAt(s, i + 3)
      BY <3>4, SameEffect
    <3> QED
      BY <2>1, <3>3, <3>4, <3>5 DEF i
  <2>6. ASSUME Ends(e), NEW j \in 1..3
        PROVE  r[3 * (n - 1) + j] = WordOf(e)[j]
    <3>1. s[3 * n + j] = WordOf(e)[j]
      BY <1>2, <2>6 DEF Framed
    <3>2. 3 * (n - 1) + j \in 1..Len(r) /\ 3 * (n - 1) + j + 3 = 3 * n + j
      BY <1>1, <2>1, <2>4, <2>6
    <3> QED
      BY <1>1, <3>1, <3>2
  <2>7. Framed(r, Tail(todo), e)
    <3>1. Len(Tail(todo)) = n - 1
      BY <2>1
    <3> QED
      BY <2>4, <2>5, <2>6, <3>1 DEF Framed
  <2>8. s[1] = t[1]
    BY <1>1
  <2> QED
    BY <2>1, <2>2, <2>3, <2>7, <2>8
<1> QED
  BY <1>3, <1>4

\* Bytes move on without changing the stream.
LEMMA MoveOn ==
    ASSUME NEW S, NEW a \in Seq(S), NEW b \in Seq(S), b # <<>>
    PROVE  Append(a, Head(b)) \o Tail(b) = a \o b
<1> DEFINE u == Append(a, Head(b)) \o Tail(b)
           v == a \o b
<1>0. Head(b) \in S /\ Tail(b) \in Seq(S) /\ Len(Tail(b)) = Len(b) - 1 /\ Head(b) = b[1] /\ Len(b) \in Nat
      /\ \A i \in 1..(Len(b) - 1) : Tail(b)[i] = b[i + 1]
  OBVIOUS
<1>1. /\ Append(a, Head(b)) \in Seq(S) /\ Len(Append(a, Head(b))) = Len(a) + 1 /\ Len(a) \in Nat
      /\ \A i \in 1..Len(a) : Append(a, Head(b))[i] = a[i]
      /\ Append(a, Head(b))[Len(a) + 1] = b[1]
  BY <1>0
<1>2. u \in Seq(S) /\ v \in Seq(S) /\ Len(v) = Len(a) + Len(b) /\ Len(u) = Len(a) + Len(b)
  BY <1>0, <1>1
<1>3. ASSUME NEW i \in 1..(Len(a) + Len(b)) PROVE u[i] = v[i]
  <2>1. CASE i <= Len(a)
    BY <1>0, <1>1, <2>1
  <2>2. CASE i = Len(a) + 1
    BY <1>0, <1>1, <2>2
  <2>3. CASE i > Len(a) + 1
    <3>1. u[i] = Tail(b)[i - (Len(a) + 1)]
      BY <1>0, <1>1, <2>3
    <3>2. v[i] = b[i - Len(a)]
      BY <1>0, <1>1, <2>3
    <3>3. i - (Len(a) + 1) \in 1..(Len(b) - 1) /\ (i - (Len(a) + 1)) + 1 = i - Len(a)
      BY <1>0, <1>1, <2>3
    <3> QED
      BY <1>0, <3>1, <3>2, <3>3
  <2> QED
    BY <1>1, <2>1, <2>2, <2>3
<1> HIDE DEF u, v
<1>4. u = v
  BY <1>2, <1>3, SeqEqual
<1> QED
  BY <1>4 DEF u, v

-----------------------------------------------------------------------------
(* The invariant of the packets.                                           *)

\* The queue holds bytes, or -1 for a damaged one.
LEMMA AsByte == \A h \in -1..255 : h % 256 \in 0..255 /\ (h >= 0 => h % 256 = h)
<1> TAKE h \in -1..255
<1>1. ASSUME NEW n \in Int PROVE n % 256 \in 0..255
  OBVIOUS
<1>2. h >= 0 => h % 256 = h
  OBVIOUS
<1> QED
  BY <1>1, <1>2

\* The types are invariant, with what ties the array to the counters.
LEMMA PacketsTypedInv == Spec => []PacketsTyped
<1>1. Init => PacketsTyped
  <2>1. 0 \in 0..(PacketTries + 1) /\ 0 \in 0..MaxNoise /\ 0 <= PacketTries
    BY PacketsConstants
  <2>2. /\ <<>> \in Seq(Effect) /\ <<>> \in Seq(0..255) /\ <<>> \in Seq(-1..255)
        /\ Len(<<>>) = 0 /\ 0 < 3
    OBVIOUS
  <2> QED
    BY <2>1, <2>2 DEF Init, PacketsTyped, TypeOK, packet_idx, DATA_BYTES
<1>2. PacketsTyped /\ [Next]_vars => PacketsTyped'
  <2> SUFFICES ASSUME PacketsTyped, [Next]_vars PROVE PacketsTyped'
    OBVIOUS
  <2>t. /\ TypeOK /\ (receiving => out = "no") /\ (out = "no" /\ ~receiving => packet_tries <= PacketTries)
        /\ PacketTries \in Nat /\ MaxNoise \in Nat
    BY PacketsConstants DEF PacketsTyped
  <2>1. ASSUME NEW c \in Controls, uart_send_data(c) PROVE PacketsTyped'
    <3> DEFINE e == encode_data(encode_packet(c))
    <3>1. c \in Control
      BY PacketsConstants DEF Control
    <3>2. e \in Seq(0..255) /\ LocalEffect(c) \in Effect
      BY <3>1, PacketReadBack, LocalTypes
    <3> HIDE DEF e
    <3>3. sent' = Append(sent, LocalEffect(c)) /\ wire' = wire \o e
      BY <2>1 DEF uart_send_data, e
    <3>4. sent' \in Seq(Effect) /\ wire' \in Seq(0..255)
      BY <2>t, <3>2, <3>3 DEF TypeOK
    <3> QED
      BY <2>1, <2>t, <3>4 DEF uart_send_data, PacketsTyped, TypeOK, packet_idx
  <2>2. ASSUME NEW word \in {UART_WIN_GAME, UART_LOSE_GAME}, uart_send_string(word)
        PROVE  PacketsTyped'
    <3>1. word \in Seq(0..255)
      <4>1. word = WordOf("WIN") \/ word = WordOf("LOSE")
        BY DEF WordOf
      <4> QED
        BY <4>1, WordTyped DEF Byte
    <3>2. wire' \in Seq(0..255)
      BY <2>2, <2>t, <3>1 DEF uart_send_string, TypeOK
    <3> QED
      BY <2>2, <2>t, <3>2 DEF uart_send_string, PacketsTyped, TypeOK, packet_idx
  <2>3. CASE Deliver
    <3>1. wire' \in Seq(0..255) /\ in_fifo' \in Seq(-1..255)
      <4>1. wire \in Seq(0..255) /\ wire # <<>> /\ in_fifo \in Seq(-1..255)
        BY <2>3, <2>t DEF Deliver, TypeOK
      <4>2. Head(wire) \in 0..255 /\ Tail(wire) \in Seq(0..255)
        BY <4>1, HeadTailProperties
      <4>3. Head(wire) \in -1..255
        BY <4>2
      <4> QED
        BY <2>3, <4>1, <4>2, <4>3 DEF Deliver
    <3> QED
      BY <2>3, <2>t, <3>1 DEF Deliver, PacketsTyped, TypeOK, packet_idx
  <2>4. CASE Disturb
    <3>1. wire' \in Seq(0..255) /\ noise' \in 0..MaxNoise
      BY <2>4, <2>t DEF Disturb, TypeOK
    <3>2. in_fifo' \in Seq(-1..255) /\ damaged' \subseteq NoiseByte
      <4>0. in_fifo \in Seq(-1..255) /\ damaged \subseteq NoiseByte
        BY <2>t DEF TypeOK
      <4>1. ASSUME NEW b \in NoiseByte, in_fifo' = in_fifo \o <<UART_ERROR_CODE, b>>,
                   damaged' = damaged \cup {b}
            PROVE  in_fifo' \in Seq(-1..255) /\ damaged' \subseteq NoiseByte
        <5>1. UART_ERROR_CODE \in -1..255 /\ b \in -1..255
          BY PacketsConstants DEF UART_ERROR_CODE
        <5>2. <<UART_ERROR_CODE, b>> \in Seq(-1..255)
          BY <5>1
        <5> QED
          BY <4>0, <4>1, <5>2
      <4> QED
        BY <2>4, <4>0, <4>1 DEF Disturb
    <3> QED
      BY <2>4, <2>t, <3>1, <3>2 DEF Disturb, PacketsTyped, TypeOK, packet_idx
  <2>5. CASE uart_receive_data
    BY <2>5, <2>t DEF uart_receive_data, PacketsTyped, TypeOK, packet_idx
  <2>6. CASE take_byte
    <3> DEFINE h == Head(in_fifo)
               full == Append(bytes, h % 256)
               skip == packet_idx = 0 /\ ~MayStart(h)
               done == ~skip /\ packet_idx + 1 = DATA_BYTES
    <3>1. /\ bytes' = (IF skip \/ done THEN <<>> ELSE full)
          /\ packet_tries' = (IF done THEN 0 ELSE packet_tries)
          /\ out' = (IF done THEN Result(full) ELSE out)
          /\ applied' = (IF done /\ Result(full) = "no"
                           THEN Append(applied, RemoteEffect(decode_data(full))) ELSE applied)
          /\ receiving' = (out' = "no")
          /\ receiving /\ in_fifo # <<>> /\ in_fifo' = Tail(in_fifo)
          /\ UNCHANGED <<sent, ended, wire, noise, matches, damaged>>
      BY <2>6 DEF take_byte
    <3>2. in_fifo \in Seq(-1..255) /\ bytes \in Seq(0..255) /\ Len(bytes) < 3 /\ applied \in Seq(Effect)
      BY <2>t DEF TypeOK, packet_idx, DATA_BYTES
    <3>3. h \in -1..255 /\ in_fifo' \in Seq(-1..255)
      BY <3>1, <3>2, HeadTailProperties
    <3>4. h % 256 \in 0..255
      BY <3>3, AsByte
    <3>5. full \in Seq(0..255) /\ Len(full) = Len(bytes) + 1
      BY <3>2, <3>4
    <3>6. Result(full) \in {"no", "WIN", "LOSE"}
      BY DEF Result
    <3> HIDE DEF h, full, skip
    <3>7. bytes' \in Seq(0..255) /\ Len(bytes') < 3
      <4>1. CASE skip \/ done
        BY <3>1, <4>1
      <4>2. CASE ~(skip \/ done)
        <5>1. Len(bytes) + 1 # 3
          BY <4>2 DEF done, packet_idx, DATA_BYTES
        <5> QED
          BY <3>1, <3>2, <3>5, <4>2, <5>1
      <4> QED
        BY <4>1, <4>2
    <3>8. applied' \in Seq(Effect)
      <4>1. CASE done
        <5>1. Len(full) = 3
          BY <3>2, <3>5, <4>1 DEF done, packet_idx, DATA_BYTES
        <5>2. RemoteEffect(decode_data(full)) \in Effect
          BY <3>5, <5>1, EffectTypes
        <5> HIDE DEF done
        <5> QED
          BY <3>1, <3>2, <5>2
      <4> HIDE DEF done
      <4>2. CASE ~done
        BY <3>1, <3>2, <4>2
      <4> QED
        BY <4>1, <4>2
    <3> HIDE DEF done
    <3>9. out' \in {"no", "WIN", "LOSE"} /\ receiving' \in BOOLEAN /\ (receiving' => out' = "no")
          /\ (out' = "no" => receiving')
      BY <2>t, <3>1, <3>6 DEF TypeOK
    <3>10. packet_tries' \in 0..(PacketTries + 1)
      BY <2>t, <3>1 DEF TypeOK
    <3>11. TypeOK'
      BY <2>t, <3>1, <3>3, <3>7, <3>8, <3>9, <3>10 DEF TypeOK, packet_idx, DATA_BYTES
    <3> QED
      BY <3>9, <3>11 DEF PacketsTyped
  <2>7. CASE queue_emptied
    <3>1. out' = give_up /\ receiving' = FALSE
          /\ UNCHANGED <<sent, ended, wire, in_fifo, bytes, packet_tries, applied, noise, matches, damaged>>
      BY <2>7 DEF queue_emptied
    <3>2. out' \in {"no", "DISCONNECTED"} /\ (out' = "no" => packet_tries <= PacketTries)
      BY <2>t, <3>1 DEF give_up, TypeOK
    <3>3. TypeOK'
      BY <2>t, <3>1, <3>2 DEF TypeOK, packet_idx
    <3> QED
      BY <3>1, <3>2, <3>3 DEF PacketsTyped
  <2>8. CASE SenderStops
    BY <2>8, <2>t DEF SenderStops, PacketsTyped, TypeOK, packet_idx
  <2>9. CASE ReceiverStops
    BY <2>9, <2>t DEF ReceiverStops, PacketsTyped, TypeOK, packet_idx
  <2>10. CASE cleanup
    BY <2>10, <2>t DEF cleanup, NewMatch, PacketsTyped, TypeOK, packet_idx, DATA_BYTES
  <2>11. CASE UNCHANGED vars
    BY <2>11, <2>t DEF vars, PacketsTyped, TypeOK, packet_idx
  <2> QED
    BY <2>1, <2>2, <2>3, <2>4, <2>5, <2>6, <2>7, <2>8, <2>9, <2>10, <2>11 DEF Next
<1> QED
  BY <1>1, <1>2, PTL DEF Spec

\* The stream is made of bytes.
LEMMA StreamTyped ==
    ASSUME TypeOK, in_fifo \in Seq(Byte)
    PROVE  /\ bytes \in Seq(Byte) /\ wire \in Seq(Byte) /\ bytes \o in_fifo \in Seq(Byte)
           /\ Stream \in Seq(Byte)
BY DEF TypeOK, Stream, Byte

\* Concatenation of bytes is associative.
LEMMA BytesAssociate ==
    ASSUME NEW a \in Seq(Byte), NEW b \in Seq(Byte), NEW c \in Seq(Byte)
    PROVE  (a \o b) \o c = a \o (b \o c)
BY ConcatAssociative

\* The first byte of a stream.
LEMMA FirstByte ==
    ASSUME NEW a \in Seq(Byte), NEW b \in Seq(Byte), Len(a) = 1, NEW s, s = a \o b
    PROVE  s[1] = a[1] /\ Len(s) >= 1
<1>1. 1 \in 1..Len(a) /\ Len(b) \in Nat
  OBVIOUS
<1>2. Len(s) = Len(a) + Len(b) /\ s[1] = a[1]
  BY <1>1, ConcatFirst
<1> QED
  BY <1>1, <1>2

\* The next byte goes from the queue into the array: nothing is skipped, and a
\* full array is a packet, which is repeated, or the string.
LEMMA TakeFollows ==
    ASSUME PacketsTyped, Follows, noise = 0, take_byte
    PROVE  Follows'
<1> DEFINE h == Head(in_fifo)
           full == Append(bytes, h % 256)
           skip == packet_idx = 0 /\ ~MayStart(h)
           done == ~skip /\ packet_idx + 1 = DATA_BYTES
<1>1. /\ bytes' = (IF skip \/ done THEN <<>> ELSE full)
      /\ out' = (IF done THEN Result(full) ELSE out)
      /\ applied' = (IF done /\ Result(full) = "no"
                       THEN Append(applied, RemoteEffect(decode_data(full))) ELSE applied)
      /\ receiving /\ in_fifo # <<>> /\ in_fifo' = Tail(in_fifo)
      /\ UNCHANGED <<sent, ended, wire, noise, matches, damaged>>
  BY DEF take_byte
<1>2. out = "no" /\ TypeOK
  BY <1>1 DEF PacketsTyped
<1>3. in_fifo \in Seq(Byte) /\ bytes \in Seq(Byte) /\ wire \in Seq(Byte) /\ Len(bytes) < 3 /\ Len(bytes) \in Nat
  <2>1. in_fifo \in Seq(Byte)
    BY DEF Follows
  <2> QED
    BY <1>2, <2>1 DEF TypeOK, Byte, packet_idx, DATA_BYTES
<1>4. PICK todo \in Seq(Effect) : sent = applied \o todo /\ Framed(Stream, todo, ended)
  BY <1>2 DEF Follows
<1>5. h \in Byte /\ Tail(in_fifo) \in Seq(Byte) /\ h % 256 = h
  <2>1. h \in Byte /\ Tail(in_fifo) \in Seq(Byte)
    BY <1>1, <1>3, HeadTailProperties
  <2> HIDE DEF h
  <2>2. h \in -1..255 /\ h >= 0
    BY <2>1 DEF Byte
  <2> QED
    BY <2>1, <2>2, AsByte
<1> DEFINE rest == Tail(in_fifo) \o wire
<1>6. full \in Seq(Byte) /\ Len(full) = Len(bytes) + 1 /\ full[1] = (IF bytes = <<>> THEN h ELSE bytes[1])
      /\ rest \in Seq(Byte)
  <2>1. full = Append(bytes, h)
    BY <1>5
  <2> HIDE DEF h, full
  <2>2. full \in Seq(Byte) /\ Len(full) = Len(bytes) + 1 /\ rest \in Seq(Byte)
    BY <1>3, <1>5, <2>1
  <2>3. bytes = <<>> => full[1] = h
    BY <1>3, <2>1
  <2>4. bytes # <<>> => full[1] = bytes[1]
    BY <1>3, <1>5, <2>1
  <2> QED
    BY <2>2, <2>3, <2>4
<1>a. (full \o Tail(in_fifo)) \o wire = full \o rest
  <2>1. full \in Seq(Byte) /\ Tail(in_fifo) \in Seq(Byte) /\ wire \in Seq(Byte)
    BY <1>3, <1>5, <1>6
  <2>2. (full \o Tail(in_fifo)) \o wire = full \o (Tail(in_fifo) \o wire)
    <3> HIDE DEF h, full, rest
    <3> QED
      BY <2>1, BytesAssociate, Zenon
  <2> QED
    BY <2>2
<1>7. Stream = full \o rest
  <2>1. full \o Tail(in_fifo) = bytes \o in_fifo
    <3>1. full = Append(bytes, Head(in_fifo))
      BY <1>5
    <3> QED
      BY <1>1, <1>3, <3>1, MoveOn
  <2> HIDE DEF full, rest
  <2> QED
    BY <1>a, <2>1 DEF Stream
<1> HIDE DEF h, full, rest
<1>8. ~skip
  <2> SUFFICES ASSUME bytes = <<>> PROVE MayStart(h)
    BY <1>3 DEF skip, packet_idx
  <2>1. full[1] = h /\ Len(full) = 1
    BY <1>6
  <2>2. Stream[1] = h
    BY <1>6, <1>7, <2>1, FirstByte
  <2>3. CASE todo = <<>>
    <3>1. Len(Stream) >= 1
      BY <1>6, <1>7, <2>1, FirstByte
    <3>2. Ends(ended) /\ \A j \in 1..3 : Stream[j] = WordOf(ended)[j]
      BY <1>4, <2>3, <3>1 DEF Framed
    <3>3. h = WordOf(ended)[1]
      BY <2>2, <3>2
    <3> QED
      BY <3>3 DEF WordOf, MayStart
  <2>4. CASE todo # <<>>
    <3>1. 1 \in 1..Len(todo) /\ 3 * 1 - 2 = 1
      BY <2>4
    <3>2. Confirmed(Stream[1])
      BY <1>4, <3>1 DEF Framed
    <3> QED
      BY <2>2, <3>2 DEF MayStart
  <2> QED
    BY <2>3, <2>4
<1>9. CASE ~done
  <2>1. bytes' = full /\ out' = out /\ applied' = applied
    BY <1>1, <1>8, <1>9
  <2>2. Stream' = Stream
    <3>1. Stream' = (full \o Tail(in_fifo)) \o wire
      BY <1>1, <2>1 DEF Stream
    <3> QED
      BY <1>7, <1>a, <3>1
  <2>3. sent' = applied' \o todo /\ Framed(Stream', todo, ended')
    BY <1>1, <1>4, <2>1, <2>2
  <2>4. in_fifo' \in Seq(Byte) /\ ~Ends(out')
    BY <1>1, <1>2, <1>5, <2>1 DEF Ends
  <2> QED
    BY <2>3, <2>4 DEF Follows
<1>10. CASE done
  <2>1. Len(full) = 3
    BY <1>3, <1>6, <1>10 DEF done, packet_idx, DATA_BYTES
  <2>2. bytes' = <<>> /\ out' = Result(full)
        /\ applied' = (IF Result(full) = "no" THEN Append(applied, RemoteEffect(decode_data(full))) ELSE applied)
    BY <1>1, <1>10
  <2>3. Framed(full \o rest, todo, ended)
    BY <1>4, <1>7
  <2>4. CASE todo = <<>>
    <3>1. Ends(ended) /\ full = WordOf(ended)
      BY <1>6, <2>1, <2>3, <2>4, FramedTake
    <3>2. Result(full) = ended
      BY <3>1 DEF Result, WordOf, Ends, UART_WIN_GAME, UART_LOSE_GAME
    <3>3. out' = ended' /\ Ends(out') /\ applied' = applied /\ sent' = applied' \o todo /\ out' # "no"
      BY <1>1, <1>4, <2>2, <3>1, <3>2 DEF Ends
    <3>4. in_fifo' \in Seq(Byte)
      BY <1>1, <1>5
    <3> QED
      BY <3>3, <3>4 DEF Follows
  <2>5. CASE todo # <<>>
    <3>1. Confirmed(full[1]) /\ RemoteEffect(decode_data(full)) = Head(todo) /\ Framed(rest, Tail(todo), ended)
      BY <1>6, <2>1, <2>3, <2>5, FramedTake
    <3>2. Result(full) = "no"
      <4>1. full[1] # 87 /\ full[1] # 76
        BY <3>1 DEF Confirmed, DATA_CONFIRM_PACKET
      <4>2. full # UART_WIN_GAME /\ full # UART_LOSE_GAME
        BY <4>1 DEF UART_WIN_GAME, UART_LOSE_GAME
      <4> QED
        BY <4>2 DEF Result
    <3>3. out' = "no" /\ applied' = Append(applied, Head(todo))
      BY <2>2, <3>1, <3>2
    <3>4. Append(applied, Head(todo)) \o Tail(todo) = applied \o todo
      BY <1>2, <2>5, MoveOn DEF TypeOK
    <3>5. Stream' = rest
      <4>1. Stream' = (<<>> \o Tail(in_fifo)) \o wire
        BY <1>1, <2>2 DEF Stream
      <4>2. <<>> \o Tail(in_fifo) = Tail(in_fifo)
        BY <1>5, ConcatEmptySeq
      <4> QED
        BY <4>1, <4>2 DEF rest
    <3>6. Tail(todo) \in Seq(Effect) /\ sent' = applied' \o Tail(todo) /\ Framed(Stream', Tail(todo), ended')
      BY <1>1, <1>4, <2>5, <3>1, <3>3, <3>4, <3>5
    <3>7. in_fifo' \in Seq(Byte) /\ ~Ends(out')
      BY <1>1, <1>5, <3>3 DEF Ends
    <3> QED
      BY <3>6, <3>7 DEF Follows
  <2> QED
    BY <2>4, <2>5
<1> QED
  BY <1>9, <1>10

\* Append, seen from the front,
LEMMA AppendMoves ==
    ASSUME NEW S, NEW a \in Seq(S), NEW b \in Seq(S), NEW x \in S
    PROVE  Append(a \o b, x) = a \o Append(b, x)
<1>1. Append(b, x) = b \o <<x>> /\ Append(a \o b, x) = (a \o b) \o <<x>>
  BY AppendIsConcat, ConcatProperties
<1>2. <<x>> \in Seq(S)
  OBVIOUS
<1> QED
  BY <1>1, <1>2, ConcatAssociative

\* ... and of effects.
LEMMA EffectAppended ==
    ASSUME NEW a \in Seq(Effect), NEW b \in Seq(Effect), NEW x \in Effect
    PROVE  Append(a \o b, x) = a \o Append(b, x)
<1>1. Append(b, x) = b \o <<x>> /\ Append(a \o b, x) = (a \o b) \o <<x>>
  BY AppendIsConcat, ConcatProperties
<1>2. <<x>> \in Seq(Effect)
  OBVIOUS
<1> QED
  BY <1>1, <1>2, ConcatAssociative

\* What was done is a prefix of what is to do.
LEMMA PrefixOfConcat ==
    ASSUME NEW S, NEW a \in Seq(S), NEW b \in Seq(S)
    PROVE  IsPrefix(a, a \o b)
<1> DEFINE u == a \o b
           n == Len(a)
<1>1. n \in Nat /\ n <= Len(u) /\ \A i \in 1..n : u[i] = a[i] /\ a[i] \in S
  BY ConcatFirst
<1> HIDE DEF u, n
<1>2. /\ SubSeq(a, 1, n) \in Seq(S) /\ SubSeq(u, 1, n) \in Seq(S)
      /\ Len(SubSeq(a, 1, n)) = n /\ Len(SubSeq(u, 1, n)) = n
      /\ \A i \in 1..n : SubSeq(a, 1, n)[i] = SubSeq(u, 1, n)[i]
  <2>1. \A i \in 1..n : a[i] \in S /\ u[i] \in S
    BY <1>1
  <2>2. /\ SubSeq(a, 1, n) \in Seq(S) /\ Len(SubSeq(a, 1, n)) = (IF 1 <= n THEN n - 1 + 1 ELSE 0)
        /\ \A i \in 1..(n - 1 + 1) : SubSeq(a, 1, n)[i] = a[1 + i - 1]
    BY <1>1, <2>1, SubSeqProperties
  <2>3. /\ SubSeq(u, 1, n) \in Seq(S) /\ Len(SubSeq(u, 1, n)) = (IF 1 <= n THEN n - 1 + 1 ELSE 0)
        /\ \A i \in 1..(n - 1 + 1) : SubSeq(u, 1, n)[i] = u[1 + i - 1]
    BY <1>1, <2>1, SubSeqProperties
  <2>4. n - 1 + 1 = n /\ (IF 1 <= n THEN n - 1 + 1 ELSE 0) = n /\ \A i \in 1..n : 1 + i - 1 = i
    BY <1>1
  <2> QED
    BY <1>1, <2>2, <2>3, <2>4
<1>3. SubSeq(a, 1, n) = SubSeq(u, 1, n)
  BY <1>2, SeqEqual
<1> QED
  BY <1>1, <1>3 DEF IsPrefix, u, n

\* The invariant of the packets on a clean line.
LEMMA PacketsFollow == Spec => [](PacketsTyped /\ Follows)
<1>1. Init => Follows
  <2> SUFFICES ASSUME Init PROVE Follows
    OBVIOUS
  <2>1. Stream = <<>> /\ sent = applied \o <<>> /\ <<>> \in Seq(Effect) /\ in_fifo \in Seq(Byte)
    BY DEF Init, Stream
  <2>2. Framed(<<>>, <<>>, "no")
    BY DEF Framed, Ends
  <2>3. ended = "no" /\ ~Ends(out)
    BY DEF Init, Ends
  <2> QED
    BY <2>1, <2>2, <2>3 DEF Follows
<1>2. PacketsTyped /\ PacketsTyped' /\ Follows /\ [Next]_vars => Follows'
  <2> SUFFICES ASSUME PacketsTyped, PacketsTyped', Follows, [Next]_vars, noise' = 0
               PROVE  Follows'
    BY DEF Follows
  <2>n. noise = 0 /\ ~Disturb
    <3>1. noise \in Nat
      BY PacketsConstants DEF PacketsTyped, TypeOK
    <3>2. ~Disturb
      BY <3>1 DEF Disturb
    <3>3. noise' = noise
      BY <3>2 DEF Next, uart_send_data, uart_send_string, Deliver, uart_receive_data, take_byte,
         queue_emptied, SenderStops, ReceiverStops, cleanup, NewMatch, vars
    <3> QED
      BY <3>2, <3>3
  <2>t. /\ TypeOK /\ in_fifo \in Seq(Byte) /\ bytes \in Seq(Byte) /\ wire \in Seq(Byte)
        /\ Stream \in Seq(Byte) /\ bytes \o in_fifo \in Seq(Byte) /\ (Ends(out) => ended = out)
        /\ applied \in Seq(Effect)
    <3>1. in_fifo \in Seq(Byte) /\ TypeOK /\ (Ends(out) => ended = out)
      BY <2>n DEF Follows, PacketsTyped
    <3> QED
      BY <3>1, StreamTyped DEF TypeOK
  <2>p. PICK todo \in Seq(Effect) :
           sent = applied \o todo /\ (out = "no" => Framed(Stream, todo, ended))
    BY <2>n DEF Follows
  <2>1. ASSUME NEW c \in Controls, uart_send_data(c) PROVE Follows'
    <3> DEFINE e == encode_data(encode_packet(c))
               x == LocalEffect(c)
    <3>1. c \in Control
      BY PacketsConstants DEF Control
    <3>2. e \in Seq(Byte) /\ Len(e) = 3 /\ Confirmed(e[1]) /\ RemoteEffect(decode_data(e)) = x
      BY <3>1, PacketReadBack DEF Byte
    <3>3. x \in Effect
      BY <3>1, LocalTypes
    <3> HIDE DEF e, x
    <3>4. /\ ended = "no" /\ sent' = Append(sent, x) /\ wire' = wire \o e
          /\ UNCHANGED <<ended, in_fifo, bytes, applied, out>>
      BY <2>1 DEF uart_send_data, e, x
    <3>5. Stream' = Stream \o e
      <4>1. Stream' = (bytes \o in_fifo) \o (wire \o e)
        BY <3>4 DEF Stream
      <4> QED
        BY <2>t, <3>2, <4>1, BytesAssociate DEF Stream
    <3>6. Append(todo, x) \in Seq(Effect) /\ sent' = applied' \o Append(todo, x)
      <4>1. Append(todo, x) \in Seq(Effect)
        BY <3>3
      <4>2. Append(applied \o todo, x) = applied \o Append(todo, x)
        <5>1. applied \in Seq(Effect) /\ todo \in Seq(Effect)
          BY <2>t
        <5> QED
          BY <3>3, <5>1, EffectAppended
      <4> QED
        BY <2>p, <3>4, <4>1, <4>2
    <3>7. ~Ends(ended) /\ ended' = ended
      BY <3>4 DEF Ends
    <3>8. out' = "no" => Framed(Stream', Append(todo, x), ended')
      BY <2>p, <2>t, <3>2, <3>3, <3>4, <3>5, <3>7, FramedSend
    <3>9. in_fifo' \in Seq(Byte) /\ (Ends(out') => ended' = out')
      BY <2>t, <3>4
    <3> QED
      BY <3>6, <3>8, <3>9 DEF Follows
  <2>2. ASSUME NEW word \in {UART_WIN_GAME, UART_LOSE_GAME}, uart_send_string(word)
        PROVE  Follows'
    <3>1. /\ ended = "no" /\ ended' = (IF word = UART_WIN_GAME THEN "WIN" ELSE "LOSE")
          /\ wire' = wire \o word /\ UNCHANGED <<sent, in_fifo, bytes, applied, out>>
      BY <2>2 DEF uart_send_string
    <3>2. Ends(ended') /\ word = WordOf(ended') /\ ~Ends(ended)
      BY <3>1 DEF Ends, WordOf
    <3>3. word \in Seq(Byte)
      BY <3>2, WordTyped
    <3>4. Stream' = Stream \o word
      <4>1. Stream' = (bytes \o in_fifo) \o (wire \o word)
        BY <3>1 DEF Stream
      <4> QED
        BY <2>t, <3>3, <4>1, BytesAssociate DEF Stream
    <3>5. out' = "no" => Framed(Stream', todo, ended')
      BY <2>p, <2>t, <3>1, <3>2, <3>4, FramedWord
    <3>6. ~Ends(out)
      BY <2>t, <3>1 DEF Ends
    <3> QED
      BY <2>p, <2>t, <3>1, <3>5, <3>6 DEF Follows
  <2>3. CASE Deliver
    <3>1. /\ wire # <<>> /\ wire' = Tail(wire) /\ in_fifo' = Append(in_fifo, Head(wire))
          /\ UNCHANGED <<sent, ended, bytes, applied, out>>
      BY <2>3 DEF Deliver
    <3>2. Head(wire) \in Byte /\ Tail(wire) \in Seq(Byte)
      BY <2>t, <3>1, HeadTailProperties
    <3>3. Stream' = Stream
      <4>1. Stream' = (bytes \o Append(in_fifo, Head(wire))) \o Tail(wire)
        BY <3>1 DEF Stream
      <4>2. bytes \o Append(in_fifo, Head(wire)) = Append(bytes \o in_fifo, Head(wire))
        BY <2>t, <3>2, AppendMoves
      <4>3. Append(bytes \o in_fifo, Head(wire)) \o Tail(wire) = (bytes \o in_fifo) \o wire
        BY <2>t, <3>1, MoveOn
      <4> QED
        BY <4>1, <4>2, <4>3 DEF Stream
    <3>4. in_fifo' \in Seq(Byte)
      BY <2>t, <3>1, <3>2
    <3> QED
      BY <2>p, <2>t, <3>1, <3>3, <3>4 DEF Follows
  <2>4. CASE take_byte
    BY <2>4, <2>n, TakeFollows
  <2>5. CASE cleanup
    <3>1. /\ bytes' = <<>> /\ in_fifo' = <<>> /\ wire' = <<>> /\ sent' = <<>> /\ applied' = <<>>
          /\ ended' = "no" /\ out' = "no"
      BY <2>5 DEF cleanup, NewMatch
    <3>2. Stream' = <<>> /\ sent' = applied' \o <<>> /\ <<>> \in Seq(Effect) /\ in_fifo' \in Seq(Byte)
      BY <3>1 DEF Stream
    <3>3. Framed(<<>>, <<>>, "no")
      BY DEF Framed, Ends
    <3>4. ~Ends(out')
      BY <3>1 DEF Ends
    <3> QED
      BY <3>1, <3>2, <3>3, <3>4 DEF Follows
  <2>6. CASE uart_receive_data \/ UNCHANGED vars
    <3>1. UNCHANGED <<sent, ended, bytes, in_fifo, wire, applied, out>>
      BY <2>6 DEF uart_receive_data, vars
    <3>2. Stream' = Stream
      BY <3>1 DEF Stream
    <3> QED
      BY <2>p, <2>t, <3>1, <3>2 DEF Follows
  <2>7. CASE queue_emptied \/ ReceiverStops
    <3>1. UNCHANGED <<sent, ended, bytes, in_fifo, wire, applied>> /\ ~Ends(out') /\ (out' = "no" => out = "no")
      BY <2>7 DEF queue_emptied, give_up, ReceiverStops, Ends, PacketsTyped
    <3>2. Stream' = Stream
      BY <3>1 DEF Stream
    <3> QED
      BY <2>p, <2>t, <3>1, <3>2 DEF Follows
  <2>8. CASE SenderStops
    <3>1. UNCHANGED <<sent, bytes, in_fifo, wire, applied, out>> /\ ended = "no" /\ ended' = "stopped"
      BY <2>8 DEF SenderStops
    <3>2. Stream' = Stream /\ ~Ends(out)
      BY <2>t, <3>1 DEF Stream, Ends
    <3>3. Framed(Stream, todo, "no") => Framed(Stream, todo, "stopped")
      BY DEF Framed, Ends
    <3> QED
      BY <2>p, <2>t, <3>1, <3>2, <3>3 DEF Follows
  <2> QED
    BY <2>1, <2>2, <2>3, <2>4, <2>5, <2>6, <2>7, <2>8, <2>n DEF Next
<1> QED
  BY <1>1, <1>2, PacketsTypedInv, PTL DEF Spec

-----------------------------------------------------------------------------
(***************************************************************************)
(* The variables of module Packets have their types: in particular there   *)
(* are never three bytes in the array, whatever is lost or damaged, and    *)
(* packet_tries stops one beyond UART_PACKET_TRIES.                        *)
(***************************************************************************)
THEOREM PacketTypes == Spec => []TypeOK
<1>1. PacketsTyped => TypeOK
  BY DEF PacketsTyped
<1> QED
  BY <1>1, PacketsTypedInv, PTL

(***************************************************************************)
(* On a clean line the copy of a player does exactly what the player did,  *)
(* for any controls and any number of packets and matches                  *)
(* (uart_receive_data, encode_data and decode_data).                       *)
(***************************************************************************)
THEOREM PacketsCopyFollows == Spec => []CopyFollows
<1>1. PacketsTyped /\ Follows => CopyFollows
  <2> SUFFICES ASSUME PacketsTyped, Follows, noise = 0 PROVE IsPrefix(applied, sent)
    BY DEF CopyFollows
  <2>1. PICK todo \in Seq(Effect) : sent = applied \o todo
    BY DEF Follows
  <2>2. applied \in Seq(Effect)
    BY DEF PacketsTyped, TypeOK
  <2> QED
    BY <2>1, <2>2, PrefixOfConcat
<1> QED
  BY <1>1, PacketsFollow, PTL

(***************************************************************************)
(* On a clean line uart_receive_data reports a result only if the other    *)
(* machine has sent that string, whatever bytes the packets hold.          *)
(***************************************************************************)
THEOREM PacketsNoFalseResult == Spec => [](noise = 0 => NoFalseResult)
<1>1. Follows => (noise = 0 => NoFalseResult)
  BY DEF Follows, NoFalseResult, Ends
<1> QED
  BY <1>1, PacketsFollow, PTL

(***************************************************************************)
(* The variables of both modules keep their types.                         *)
(***************************************************************************)
THEOREM MatchTypeCorrect == Spec /\ M!Spec => []MatchTypeOK
BY PacketTypes, MatchTypes, PTL DEF MatchTypeOK
=============================================================================
