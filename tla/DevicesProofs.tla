---------------------------- MODULE DevicesProofs ---------------------------
(***************************************************************************)
(* Theorems about the device drivers: modules Screen, Clock and Kbc, for   *)
(* all values of their constants.                                          *)
(***************************************************************************)
EXTENDS MCDevices, SequenceTheorems, TLAPS

-----------------------------------------------------------------------------
(* Module Screen: the three video pages.                                   *)

\* The three names stand for three pages, and addresses follow scanlines.
PagesDistinct ==
    /\ address = scanline
    /\ address.page # address.third /\ address.page # address.drawing
    /\ address.third # address.drawing

\* The card was asked for drawing_address, and shows it or the page before.
CardLagsOne ==
    /\ asked = address.drawing
    /\ shown \in {address.drawing, address.third}

\* What is in the pages that the card may show, and in the finished page.
PagesWhole ==
    /\ pixels[address.drawing] = flipped
    /\ shown = address.third => pixels[address.third] # PARTIAL
    /\ at = "flip" => pixels[address.page] = frame

ScreenInv == TypeOK /\ PagesDistinct /\ CardLagsOne /\ PagesWhole

-----------------------------------------------------------------------------
\* The pages of a fresh graphics mode meet the invariant.
LEMMA InitScreen == Init => ScreenInv
  BY ScreenConstants DEF Init, ScreenInv, TypeOK, PagesDistinct, CardLagsOne, PagesWhole,
                         Page, Role, PARTIAL

\* Every step of display, put_buffer and the card preserves it.
LEMMA NextScreen == ScreenInv /\ [Next]_vars => ScreenInv'
<1> SUFFICES ASSUME ScreenInv, [Next]_vars PROVE ScreenInv'
  OBVIOUS
<1> USE ScreenConstants DEF ScreenInv, TypeOK, PagesDistinct, CardLagsOne, PagesWhole,
                            Page, Role, PARTIAL
<1>1. CASE StartFrame
  BY <1>1 DEF StartFrame
<1>2. CASE FinishFrame
  BY <1>2 DEF FinishFrame
<1>3. CASE page_flip
  <2>1. /\ address' = [page |-> address.third, third |-> address.drawing,
                       drawing |-> address.page]
        /\ scanline' = address'
    BY <1>3 DEF page_flip, Rotate
  <2>2. /\ address'.page = address.third /\ address'.third = address.drawing
        /\ address'.drawing = address.page
    BY <2>1
  <2>3. address' \in [Role -> Page]
    <3>1. {address.page, address.third, address.drawing} \subseteq Page
      OBVIOUS
    <3>2. QED
      BY <2>1, <3>1
  <2>4. TypeOK'
    BY <1>3, <2>1, <2>2, <2>3 DEF page_flip
  <2>5. PagesDistinct' /\ CardLagsOne'
    BY <1>3, <2>1, <2>2, <2>3 DEF page_flip
  <2>6. PagesWhole'
    BY <1>3, <2>1, <2>2, <2>3 DEF page_flip
  <2>7. QED
    BY <2>4, <2>5, <2>6
<1>4. CASE page_flip_fails
  BY <1>4 DEF page_flip_fails
<1>5. CASE Retrace
  BY <1>5 DEF Retrace
<1>6. CASE UNCHANGED vars
  BY <1>6 DEF vars
<1>7. QED
  BY <1>1, <1>2, <1>3, <1>4, <1>5, <1>6 DEF Next

\* The invariant holds in every state of the specification.
LEMMA ScreenInvariant == Spec => []ScreenInv
<1>1. QED
  BY InitScreen, NextScreen, PTL DEF Spec

(***************************************************************************)
(* The rotation of page_flip never leaves the three pages, and frames are  *)
(* counted within their bound.                                             *)
(***************************************************************************)
THEOREM ScreenTypeCorrect == Spec => []TypeOK
<1>1. ScreenInv => TypeOK
  BY DEF ScreenInv
<1>2. QED
  BY <1>1, ScreenInvariant, PTL

(***************************************************************************)
(* No frame is seen while it is drawn, and the card is asked for the last  *)
(* one flipped, whatever page_flip calls fail and whenever the retrace     *)
(* comes.                                                                  *)
(***************************************************************************)
THEOREM ScreenFramesAreWhole == Spec => []WholeFrames
<1>1. ScreenInv => WholeFrames
  BY DEF ScreenInv, TypeOK, CardLagsOne, PagesWhole, WholeFrames, PARTIAL
<1>2. QED
  BY <1>1, ScreenInvariant, PTL

-----------------------------------------------------------------------------
(* Module Clock: the interrupt line, the date and the rounds.              *)

\* The flags and places that decide whether an interrupt is heard.
LineTypeOK ==
    /\ pie \in BOOLEAN /\ uie \in BOOLEAN /\ pf \in BOOLEAN /\ uf \in BOOLEAN
    /\ noti \in BOOLEAN /\ where \in C!At

\* From drain on, until the end, the program is subscribed.
Listening == where \in {"drain", "loop", "sec", "min"} => subscribed

HeardInv == LineTypeOK /\ Listening /\ C!NoDeadLine

\* While a date is read no update ends, and what was read is of one moment.
MomentKept ==
    /\ curr_date \in [sec : Int, min : Int] /\ now \in Int /\ begun \in Int
    /\ C!Reading => risky = FALSE /\ now = begun
    /\ where = "min" => curr_date.sec = C!Sec(begun)
    /\ ~C!Reading => curr_date \in {C!ZERO, [sec |-> C!Sec(begun), min |-> C!Min(begun)]}

-----------------------------------------------------------------------------
(* The interrupt line.                                                     *)

\* The program starts before it has enabled any interrupt.
LEMMA InitHeard == C!Init => HeardInv
  BY DEF C!Init, HeardInv, LineTypeOK, C!At, Listening, C!NoDeadLine, C!Line

\* Every step that raises the line leaves a notification, and rtc_ih lowers it.
LEMMA NextHeard == HeardInv /\ [C!Next]_(C!vars) => HeardInv'
<1> SUFFICES ASSUME HeardInv, [C!Next]_(C!vars) PROVE HeardInv'
  OBVIOUS
<1> USE DEF HeardInv, LineTypeOK, C!At, Listening, C!NoDeadLine
<1>1. ASSUME C!Edge, where' = where \/ where' = "subscribe", subscribed' = subscribed,
             pie' \in BOOLEAN, uie' \in BOOLEAN, pf' \in BOOLEAN, uf' \in BOOLEAN
      PROVE  HeardInv'
  BY <1>1 DEF C!Edge, C!Line
<1>2. CASE C!HalfSecond
  BY <1>1, <1>2 DEF C!HalfSecond
<1>3. CASE C!UpdateStarts
  BY <1>3 DEF C!UpdateStarts, C!Line, C!chip, C!kernel
<1>4. CASE C!UpdateEnds
  BY <1>1, <1>4 DEF C!UpdateEnds
<1>5. CASE C!FastPeriod
  BY <1>1, <1>5 DEF C!FastPeriod
<1>6. ASSUME C!rtc_ih("loop"), where \in {"loop", "drain"}
      PROVE  HeardInv'
  <2>1. /\ pf' = FALSE /\ uf' = FALSE /\ noti' = FALSE /\ pie' = pie /\ uie' = uie
        /\ subscribed' = subscribed /\ where' \in {"loop", "sec"}
    BY <1>6 DEF C!rtc_ih, C!rtc_set_date
  <2> QED
    BY <1>6, <2>1 DEF C!Line
<1>7. CASE C!interrupt_handler
  BY <1>6, <1>7 DEF C!interrupt_handler
<1>8. CASE C!drain
  BY <1>6, <1>8 DEF C!drain
<1>9. CASE C!read_seconds
  BY <1>9 DEF C!read_seconds, C!Line, C!chip, C!kernel
<1>10. CASE C!read_minutes
  BY <1>10 DEF C!read_minutes, C!Line, C!kernel
<1>11. CASE C!init_rtc_vars
  BY <1>11 DEF C!init_rtc_vars, C!Line, C!chip, C!kernel
<1>12. CASE C!enable_uie_int
  BY <1>1, <1>12 DEF C!enable_uie_int
<1>13. CASE C!rtc_subscribe_int
  BY <1>13 DEF C!rtc_subscribe_int, C!Line, C!chip
<1>14. CASE C!gm_init_game
  BY <1>1, <1>14 DEF C!gm_init_game
<1>15. CASE C!free_level
  BY <1>15 DEF C!free_level, C!Line, C!kernel
<1>16. CASE C!ToMenu
  BY <1>16 DEF C!ToMenu, C!Line, C!chip, C!kernel
<1>17. CASE C!reset_rtc
  BY <1>17 DEF C!reset_rtc
<1>18. CASE UNCHANGED C!vars
  BY <1>18 DEF C!vars, C!Line, C!chip, C!kernel
<1> QED
  BY <1>2, <1>3, <1>4, <1>5, <1>7, <1>8, <1>9, <1>10, <1>11, <1>12, <1>13, <1>14, <1>15,
     <1>16, <1>17, <1>18 DEF C!Next

(***************************************************************************)
(* The clock never goes dead, for any rounds and however late the main     *)
(* loop answers: enabling update interrupts before rtc_subscribe_int loses *)
(* an edge, and only the call of rtc_ih after it makes up for that.        *)
(***************************************************************************)
THEOREM ClockNoDeadLine == C!Spec => []NoDeadLine
<1>1. HeardInv => NoDeadLine
  BY DEF HeardInv, NoDeadLine
<1> QED
  BY <1>1, InitHeard, NextHeard, PTL DEF C!Spec

-----------------------------------------------------------------------------
(* The date.                                                               *)

\* No date has been read yet.
LEMMA InitMoment == C!Init => MomentKept
  BY DEF C!Init, MomentKept, C!Reading, C!ZERO

\* rtc_set_date begins to read outside of an update, and no update ends
\* before it has read the last register.
LEMMA NextMoment == MomentKept /\ [C!Next]_(C!vars) => MomentKept'
<1> SUFFICES ASSUME MomentKept, [C!Next]_(C!vars) PROVE MomentKept'
  OBVIOUS
<1>t. /\ \A t \in Int : C!Sec(t) \in Int /\ C!Min(t) \in Int
      /\ (now + 1) % 4 \in Int /\ C!ZERO \in [sec : Int, min : Int]
  BY DEF MomentKept, C!Sec, C!Min, C!ZERO
<1>1. ASSUME now' = now, curr_date' = curr_date, begun' = begun, risky' = risky,
             where' = where \/ (~C!Reading /\ ~C!Reading')
      PROVE  MomentKept'
  BY <1>1 DEF MomentKept, C!Reading
<1>2. CASE C!HalfSecond
  BY <1>1, <1>2 DEF C!HalfSecond, C!date
<1>3. CASE C!UpdateStarts
  BY <1>1, <1>3 DEF C!UpdateStarts, C!date
<1>4. CASE C!UpdateEnds
  <2>1. ~C!Reading /\ where' = where /\ now' = (now + 1) % 4
        /\ curr_date' = curr_date /\ begun' = begun
    BY <1>4 DEF C!UpdateEnds, C!date, MomentKept
  <2> QED
    BY <1>t, <2>1 DEF MomentKept, C!Reading
<1>5. CASE C!FastPeriod
  BY <1>1, <1>5 DEF C!FastPeriod, C!time, C!date
<1>6. ASSUME C!rtc_ih("loop"), where \in {"loop", "drain"}
      PROVE  MomentKept'
  <2>1. CASE ~uf
    BY <1>1, <1>6, <2>1 DEF C!rtc_ih, C!time, C!date, C!Reading
  <2>2. CASE uf /\ uip
    <3>1. curr_date' = C!ZERO /\ begun' = begun /\ now' = now /\ where' = "loop"
      BY <1>6, <2>2 DEF C!rtc_ih, C!rtc_set_date, C!time
    <3> QED
      BY <1>t, <3>1 DEF MomentKept, C!Reading
  <2>3. CASE uf /\ ~uip
    <3>1. curr_date' = C!ZERO /\ begun' = now /\ now' = now /\ where' = "sec" /\ risky' = FALSE
      BY <1>6, <2>3 DEF C!rtc_ih, C!rtc_set_date, C!time
    <3> QED
      BY <1>t, <3>1 DEF MomentKept, C!Reading
  <2> QED
    BY <2>1, <2>2, <2>3
<1>7. CASE C!interrupt_handler
  BY <1>6, <1>7 DEF C!interrupt_handler
<1>8. CASE C!drain
  BY <1>6, <1>8 DEF C!drain
<1>9. CASE C!read_seconds
  <2>1. /\ where = "sec" /\ where' = "min" /\ now' = now /\ begun' = begun /\ risky' = risky
        /\ curr_date' = [curr_date EXCEPT !.sec = C!Sec(now)]
    BY <1>9 DEF C!read_seconds, C!time
  <2>2. now = begun /\ risky = FALSE
    BY <2>1 DEF MomentKept, C!Reading
  <2>3. curr_date' \in [sec : Int, min : Int] /\ curr_date'.sec = C!Sec(now)
    BY <1>t, <2>1 DEF MomentKept
  <2> QED
    BY <2>1, <2>2, <2>3 DEF MomentKept, C!Reading
<1>10. CASE C!read_minutes
  <2>1. /\ where = "min" /\ where' = "loop" /\ now' = now /\ begun' = begun
        /\ curr_date' = [curr_date EXCEPT !.min = C!Min(now)]
    BY <1>10 DEF C!read_minutes, C!time
  <2>2. now = begun /\ curr_date.sec = C!Sec(begun)
    BY <2>1 DEF MomentKept, C!Reading
  <2>3. curr_date' = [sec |-> C!Sec(begun), min |-> C!Min(begun)]
    BY <2>1, <2>2 DEF MomentKept
  <2>4. curr_date' \in [sec : Int, min : Int]
    BY <1>t, <2>3 DEF MomentKept
  <2> QED
    BY <2>1, <2>3, <2>4 DEF MomentKept, C!Reading
<1>11. CASE C!init_rtc_vars \/ C!enable_uie_int \/ C!rtc_subscribe_int
  BY <1>1, <1>11 DEF C!init_rtc_vars, C!enable_uie_int, C!rtc_subscribe_int, C!time, C!date, C!Reading
<1>12. CASE C!gm_init_game \/ C!free_level \/ C!ToMenu \/ C!reset_rtc
  BY <1>1, <1>12 DEF C!gm_init_game, C!free_level, C!ToMenu, C!reset_rtc, C!time, C!date, C!Reading
<1>13. CASE UNCHANGED C!vars
  BY <1>1, <1>13 DEF C!vars, C!time, C!date
<1> QED
  BY <1>2, <1>3, <1>4, <1>5, <1>7, <1>8, <1>9, <1>10, <1>11, <1>12, <1>13 DEF C!Next

-----------------------------------------------------------------------------
(* The rounds, and the types.                                              *)

\* The types of the other variables.
ClockTyped ==
    /\ rs \in C!Rate /\ config_a \in C!Rate /\ config \in C!Rate
    /\ uip \in BOOLEAN /\ late \in BOOLEAN /\ subscribed \in BOOLEAN /\ risky \in BOOLEAN
    /\ now \in 0..3 /\ half \in 0..1 /\ begun \in 0..3
    /\ screen \in {"menu", "game", "over"}
    /\ curr_date \in [sec : -1..1, min : -1..1]
    /\ game_timer \in -1..RoundTimer /\ pie_state \in 0..1
    /\ elapsed \in 0..(2 * RoundTimer + 2) /\ rounds \in 0..MaxRounds

\* In a round the periodic interrupt is on, whether or not the date is read.
Rates ==
    /\ where = "vars" => rs = "bios"
    /\ where # "vars" => config_a = "bios"
    /\ screen = "game" => pie /\ where \in {"loop", "sec", "min", "done"}
    /\ (screen = "game" /\ where # "done") => rs # "off"
    /\ (screen = "game" /\ C!Reading) => config # "off"
    /\ uip => half = 1

\* A prompt loop lags one period behind, which then waits in register C.
Counted ==
    (screen = "game" /\ ~late) =>
        /\ C!Periods + 1 >= elapsed
        /\ (C!Reading \/ uip \/ ~pf) => C!Periods >= elapsed

\* A date that is no longer current has its update flag set.
Fresh == (~C!Reading /\ ~uf /\ curr_date # C!ZERO) => now = begun

ClockInv == HeardInv /\ MomentKept /\ ClockTyped /\ Rates /\ Counted /\ Fresh

\* What rtc_ih does to the round and to the date.
LEMMA HandlerIs ==
    ASSUME C!rtc_ih("loop")
    PROVE  /\ pf' = FALSE /\ uf' = FALSE /\ noti' = FALSE
           /\ UNCHANGED <<pie, uie, now, half, uip, late, subscribed, config_a, screen, rounds, elapsed>>
           /\ IF pf THEN C!count_period ELSE UNCHANGED <<game_timer, pie_state>>
           /\ uf => curr_date' = C!ZERO
           /\ \/ where' = "loop" /\ UNCHANGED <<rs, config, begun, risky>> /\ (uf \/ curr_date' = curr_date)
              \/ where' = "sec" /\ begun' = now /\ risky' = FALSE /\ config' = rs /\ rs' = config_a /\ uf
<1>1. CASE uf
  BY <1>1 DEF C!rtc_ih, C!rtc_set_date, C!time
<1>2. CASE ~uf
  BY <1>2 DEF C!rtc_ih, C!time, C!date
<1> QED
  BY <1>1, <1>2

\* The types are kept.
LEMMA NextClockTyped == ASSUME HeardInv, MomentKept, ClockTyped, [C!Next]_(C!vars) PROVE ClockTyped'
<1>c. RoundTimer \in Nat \ {0} /\ MaxRounds \in Nat
  BY DevicesConstants DEF C!ClockConstants
<1>t. /\ C!Sec(now) \in -1..1 /\ C!Min(now) \in -1..1 /\ (now + 1) % 4 \in 0..3
      /\ C!ZERO \in [sec : -1..1, min : -1..1]
  BY DEF ClockTyped, C!Sec, C!Min, C!ZERO
<1>e. C!CountHalf => elapsed' \in 0..(2 * RoundTimer + 2)
  BY <1>c DEF C!CountHalf, ClockTyped
<1>p. C!Pass => late' \in BOOLEAN
  BY DEF C!Pass
<1>1. CASE C!HalfSecond
  BY <1>1, <1>e, <1>p DEF C!HalfSecond, C!round, C!date, ClockTyped
<1>2. CASE C!UpdateStarts
  BY <1>2, <1>p DEF C!UpdateStarts, C!chip, C!kernel, C!round, C!date, ClockTyped
<1>3. CASE C!UpdateEnds
  <2>1. uip' \in BOOLEAN
    BY <1>3, Zenon DEF C!UpdateEnds
  <2>2. now' \in 0..3 /\ half' \in 0..1 /\ elapsed' \in 0..(2 * RoundTimer + 2)
    BY <1>3, <1>t, <1>e DEF C!UpdateEnds
  <2>3. UNCHANGED <<rs, config_a, config, late, subscribed, risky, begun, screen, curr_date, game_timer, pie_state, rounds>>
    BY <1>3 DEF C!UpdateEnds, C!round, C!date
  <2> QED
    BY <2>1, <2>2, <2>3 DEF ClockTyped
<1>4. CASE C!FastPeriod
  BY <1>4 DEF C!FastPeriod, C!time, C!round, C!date, ClockTyped
<1>5. ASSUME C!rtc_ih("loop") PROVE ClockTyped'
  <2>1. game_timer' \in -1..RoundTimer /\ pie_state' \in 0..1
    BY <1>5, <1>c, HandlerIs DEF C!count_period, ClockTyped
  <2>2. /\ curr_date' \in [sec : -1..1, min : -1..1] /\ rs' \in C!Rate /\ config' \in C!Rate
        /\ begun' \in 0..3 /\ risky' \in BOOLEAN
    BY <1>5, <1>t, HandlerIs DEF ClockTyped
  <2> QED
    BY <1>5, <2>1, <2>2, HandlerIs DEF ClockTyped
<1>6. CASE C!interrupt_handler \/ C!drain
  BY <1>5, <1>6 DEF C!interrupt_handler, C!drain
<1>7. CASE C!read_seconds \/ C!read_minutes
  <2>1. /\ curr_date' \in [sec : -1..1, min : -1..1] /\ rs' \in C!Rate
        /\ UNCHANGED <<now, half, uip, late, subscribed, config_a, config, screen, game_timer, pie_state, rounds,
                       begun, risky, elapsed>>
    BY <1>7, <1>t DEF C!read_seconds, C!read_minutes, C!chip, C!time, C!kernel, C!round, ClockTyped
  <2> QED
    BY <2>1 DEF ClockTyped
<1>8. CASE C!init_rtc_vars \/ C!enable_uie_int \/ C!rtc_subscribe_int
  BY <1>8 DEF C!init_rtc_vars, C!enable_uie_int, C!rtc_subscribe_int, C!chip, C!time, C!kernel, C!round,
              C!date, ClockTyped
<1>9. CASE C!gm_init_game
  <2>1. rounds' \in 0..MaxRounds /\ game_timer' \in -1..RoundTimer /\ elapsed' \in 0..(2 * RoundTimer + 2)
    BY <1>9, <1>c DEF C!gm_init_game, ClockTyped
  <2> QED
    BY <1>9, <2>1 DEF C!gm_init_game, C!time, C!date, ClockTyped, C!Rate
<1>10. CASE C!free_level \/ C!ToMenu \/ C!reset_rtc
  BY <1>10 DEF C!free_level, C!ToMenu, C!reset_rtc, C!chip, C!time, C!kernel, C!round, C!date, ClockTyped, C!Rate
<1>11. CASE UNCHANGED C!vars
  BY <1>11 DEF C!vars, C!chip, C!time, C!kernel, C!round, C!date, ClockTyped
<1> QED
  BY <1>1, <1>2, <1>3, <1>4, <1>6, <1>7, <1>8, <1>9, <1>10, <1>11 DEF C!Next

\* The rates are kept.
LEMMA NextRates == ASSUME HeardInv, ClockTyped, Rates, [C!Next]_(C!vars) PROVE Rates'
<1>1. CASE C!HalfSecond \/ C!UpdateStarts \/ C!UpdateEnds \/ C!FastPeriod
  BY <1>1 DEF C!HalfSecond, C!UpdateStarts, C!UpdateEnds, C!FastPeriod, C!chip, C!time, C!round, Rates, C!Reading
<1>2. ASSUME C!rtc_ih("loop"), where \in {"loop", "drain"} PROVE Rates'
  <2>1. UNCHANGED <<pie, half, uip, config_a, screen>>
    BY <1>2, HandlerIs
  <2>2. CASE where' = "loop" /\ UNCHANGED <<rs, config>>
    BY <1>2, <2>1, <2>2 DEF Rates, C!Reading
  <2>3. CASE where' = "sec" /\ config' = rs /\ rs' = config_a
    BY <1>2, <2>1, <2>3 DEF Rates, C!Reading
  <2> QED
    BY <1>2, <2>2, <2>3, HandlerIs
<1>3. CASE C!interrupt_handler \/ C!drain
  BY <1>2, <1>3 DEF C!interrupt_handler, C!drain
<1>4. CASE C!read_seconds \/ C!read_minutes
  BY <1>4 DEF C!read_seconds, C!read_minutes, C!chip, C!time, C!round, Rates, C!Reading
<1>5. CASE C!init_rtc_vars \/ C!enable_uie_int \/ C!rtc_subscribe_int
  BY <1>5 DEF C!init_rtc_vars, C!enable_uie_int, C!rtc_subscribe_int, C!chip, C!time, C!round, Rates, C!Reading
<1>6. CASE C!gm_init_game \/ C!free_level \/ C!ToMenu \/ C!reset_rtc
  BY <1>6 DEF C!gm_init_game, C!free_level, C!ToMenu, C!reset_rtc, C!chip, C!time, C!round, Rates, C!Reading
<1>7. CASE UNCHANGED C!vars
  BY <1>7 DEF C!vars, C!chip, C!time, C!round, Rates, C!Reading
<1> QED
  BY <1>1, <1>3, <1>4, <1>5, <1>6, <1>7 DEF C!Next

\* A timer that has run out has counted more periods than a round has.
LEMMA Overtime ==
    ASSUME NEW r \in Nat, NEW p \in 0..1, NEW e \in 0..(2 * r + 2)
    PROVE  2 * (r - (-1)) + p + 1 >= e /\ 2 * (r - (-1)) + p >= e
OBVIOUS

\* A period is counted before the next one comes.
LEMMA NextCounted ==
    ASSUME HeardInv, MomentKept, ClockTyped, Rates, Counted, [C!Next]_(C!vars) PROVE Counted'
<1> SUFFICES ASSUME screen' = "game", ~late'
             PROVE  /\ C!Periods' + 1 >= elapsed'
                    /\ (C!Reading' \/ uip' \/ ~pf') => C!Periods' >= elapsed'
  BY DEF Counted
<1>c. RoundTimer \in Nat \ {0} /\ game_timer \in -1..RoundTimer /\ pie_state \in 0..1
      /\ elapsed \in 0..(2 * RoundTimer + 2) /\ C!Periods \in Int /\ elapsed \in Int
  BY DevicesConstants DEF C!ClockConstants, ClockTyped, C!Periods
<1>a. /\ (screen = "game" /\ ~late) => C!Periods + 1 >= elapsed
      /\ (screen = "game" /\ ~late /\ (C!Reading \/ uip \/ ~pf)) => C!Periods >= elapsed
  BY DEF Counted
<1>h. C!CountHalf => elapsed' \in Int /\ elapsed' <= elapsed + 1
  BY <1>c DEF C!CountHalf
<1>q. ASSUME screen = "game", where = "loop", ~noti PROVE ~pf
  BY <1>q DEF HeardInv, LineTypeOK, C!NoDeadLine, C!Line, Rates
<1>1. CASE C!HalfSecond
  <2>1. /\ screen = "game" /\ ~late /\ ~C!Reading /\ where # "done" /\ ~uip /\ ~uip'
        /\ UNCHANGED <<game_timer, pie_state, where>> /\ pf' = (pf \/ rs # "off") /\ C!CountHalf
        /\ ~(where = "loop" /\ noti)
    <3>1. late' = (late \/ (where = "loop" /\ noti)) /\ half = 0 /\ UNCHANGED <<screen, uip>>
      BY <1>1 DEF C!HalfSecond, C!Pass, C!round
    <3>n. ~late /\ ~(where = "loop" /\ noti)
      BY <3>1, Zenon
    <3>u. ~uip
      BY <3>1 DEF Rates
    <3>2. ~late /\ ~(where = "loop" /\ noti) /\ ~uip /\ ~uip'
      BY <3>1, <3>n, <3>u
    <3> QED
      BY <1>1, <3>1, <3>2 DEF C!HalfSecond, C!round
  <2>2. where = "loop" /\ ~noti /\ rs # "off"
    BY <2>1 DEF Rates, C!Reading
  <2>3. C!Periods >= elapsed /\ pf' /\ ~C!Reading' /\ C!Periods' = C!Periods
    BY <1>a, <1>q, <2>1, <2>2 DEF C!Reading, C!Periods
  <2> QED
    BY <1>c, <1>h, <2>1, <2>3
<1>2. CASE C!UpdateStarts
  <2>1. /\ screen = "game" /\ ~late /\ where # "done" /\ elapsed' = elapsed /\ where' = where
        /\ UNCHANGED <<game_timer, pie_state, pf>> /\ ~(where = "loop" /\ noti)
    BY <1>2 DEF C!UpdateStarts, C!Pass, C!round, C!chip
  <2>2. C!Reading \/ ~pf
    BY <1>q, <2>1 DEF Rates, C!Reading
  <2>3. C!Periods >= elapsed /\ C!Periods' = C!Periods
    BY <1>a, <2>1, <2>2 DEF C!Periods
  <2> QED
    BY <1>c, <2>1, <2>3
<1>3. CASE C!UpdateEnds
  <2>1. /\ screen = "game" /\ ~late /\ where # "done" /\ uip /\ ~uip' /\ (C!Reading => risky)
        /\ UNCHANGED <<game_timer, pie_state, where>> /\ pf' = (pf \/ rs # "off") /\ C!CountHalf
    BY <1>3 DEF C!UpdateEnds, C!round
  <2>2. ~C!Reading /\ ~C!Reading' /\ pf'
    BY <2>1 DEF MomentKept, Rates, C!Reading
  <2>3. C!Periods >= elapsed /\ C!Periods' = C!Periods
    BY <1>a, <2>1 DEF C!Periods
  <2> QED
    BY <1>c, <1>h, <2>1, <2>2, <2>3
<1>4. CASE C!FastPeriod
  <2>1. /\ screen = "game" /\ ~late /\ pf' /\ UNCHANGED <<game_timer, pie_state, where, uip, elapsed>>
    BY <1>4 DEF C!FastPeriod, C!round, C!time
  <2>2. C!Periods' = C!Periods /\ (C!Reading' <=> C!Reading)
    BY <2>1 DEF C!Periods, C!Reading
  <2> QED
    BY <1>a, <2>1, <2>2
<1>5. ASSUME C!rtc_ih("loop"), where \in {"loop", "drain"}
      PROVE  C!Periods' + 1 >= elapsed' /\ C!Periods' >= elapsed'
  <2>1. /\ screen = "game" /\ ~late /\ elapsed' = elapsed
        /\ IF pf THEN C!count_period ELSE UNCHANGED <<game_timer, pie_state>>
    BY <1>5, HandlerIs
  <2>2. CASE pf /\ game_timer > -1
    <3>1. 2 * (RoundTimer - game_timer') + pie_state' = (2 * (RoundTimer - game_timer) + pie_state) + 1
      BY <1>c, <2>1, <2>2 DEF C!count_period
    <3>2. C!Periods' = C!Periods + 1
      BY <3>1 DEF C!Periods
    <3> QED
      BY <1>a, <1>c, <2>1, <3>2
  <2>3. CASE pf /\ ~(game_timer > -1)
    <3>1. game_timer = -1 /\ game_timer' = -1 /\ pie_state' \in 0..1
      BY <1>c, <2>1, <2>3 DEF C!count_period
    <3>2. C!Periods' = 2 * (RoundTimer - (-1)) + pie_state'
      BY <3>1 DEF C!Periods
    <3> QED
      BY <1>c, <2>1, <3>1, <3>2, Overtime
  <2>4. CASE ~pf
    <3>1. C!Periods' = C!Periods
      BY <2>1, <2>4 DEF C!Periods
    <3> QED
      BY <1>a, <1>c, <2>1, <2>4, <3>1
  <2> QED
    BY <2>2, <2>3, <2>4
<1>6. CASE C!interrupt_handler \/ C!drain
  BY <1>5, <1>6 DEF C!interrupt_handler, C!drain
<1>7. CASE C!gm_init_game
  <2>1. game_timer' = RoundTimer /\ pie_state' = 0 /\ elapsed' = 0
    BY <1>7 DEF C!gm_init_game
  <2>2. C!Periods' = 0
    BY <1>c, <2>1 DEF C!Periods
  <2> QED
    BY <2>1, <2>2
<1>8. CASE /\ UNCHANGED <<screen, late, game_timer, pie_state, uip, elapsed, pf>>
           /\ C!Reading' => C!Reading
  <2>1. C!Periods' = C!Periods
    BY <1>8 DEF C!Periods
  <2> QED
    BY <1>8, <1>a, <2>1
<1>9. CASE C!read_seconds \/ C!read_minutes
  BY <1>8, <1>9 DEF C!read_seconds, C!read_minutes, C!chip, C!time, C!round, C!Reading
<1>10. CASE C!init_rtc_vars \/ C!enable_uie_int \/ C!rtc_subscribe_int
  BY <1>8, <1>10 DEF C!init_rtc_vars, C!enable_uie_int, C!rtc_subscribe_int, C!chip, C!time, C!round, C!Reading
<1>11. CASE C!reset_rtc
  BY <1>8, <1>11 DEF C!reset_rtc, C!time, C!round, C!Reading
<1>12. CASE C!free_level \/ C!ToMenu
  BY <1>12 DEF C!free_level, C!ToMenu
<1>13. CASE UNCHANGED C!vars
  BY <1>8, <1>13 DEF C!vars, C!chip, C!time, C!round, C!Reading
<1> QED
  BY <1>1, <1>2, <1>3, <1>4, <1>6, <1>7, <1>9, <1>10, <1>11, <1>12, <1>13 DEF C!Next

\* The update flag is cleared only by reading the date.
LEMMA NextFresh == ASSUME HeardInv, MomentKept, Fresh, [C!Next]_(C!vars) PROVE Fresh'
<1>1. CASE /\ UNCHANGED <<now, curr_date, begun, uf>>
           /\ where' = where \/ (~C!Reading /\ ~C!Reading')
  BY <1>1 DEF Fresh, C!Reading
<1>2. CASE C!HalfSecond \/ C!UpdateStarts \/ C!FastPeriod
  BY <1>1, <1>2 DEF C!HalfSecond, C!UpdateStarts, C!FastPeriod, C!chip, C!time, C!date
<1>3. CASE C!UpdateEnds
  BY <1>3 DEF C!UpdateEnds, Fresh
<1>4. ASSUME C!rtc_ih("loop"), where \in {"loop", "drain"} PROVE Fresh'
  <2>1. CASE where' = "sec" \/ uf
    BY <1>4, <2>1, HandlerIs DEF Fresh, C!Reading
  <2>2. CASE where' # "sec" /\ ~uf
    <3>1. UNCHANGED <<now, curr_date, begun>> /\ ~C!Reading
      BY <1>4, <2>2, HandlerIs DEF C!Reading
    <3> QED
      BY <2>2, <3>1 DEF Fresh
  <2> QED
    BY <2>1, <2>2
<1>5. CASE C!interrupt_handler \/ C!drain
  BY <1>4, <1>5 DEF C!interrupt_handler, C!drain
<1>6. CASE C!read_seconds
  BY <1>6 DEF C!read_seconds, C!Reading, Fresh
<1>7. CASE C!read_minutes
  BY <1>7 DEF C!read_minutes, C!time, C!Reading, Fresh, MomentKept
<1>8. CASE C!init_rtc_vars \/ C!enable_uie_int \/ C!rtc_subscribe_int
  BY <1>1, <1>8 DEF C!init_rtc_vars, C!enable_uie_int, C!rtc_subscribe_int, C!chip, C!time, C!date, C!Reading
<1>9. CASE C!gm_init_game \/ C!free_level \/ C!ToMenu \/ C!reset_rtc
  BY <1>1, <1>9 DEF C!gm_init_game, C!free_level, C!ToMenu, C!reset_rtc, C!chip, C!time, C!date, C!Reading
<1>10. CASE UNCHANGED C!vars
  BY <1>1, <1>10 DEF C!vars, C!chip, C!time, C!date
<1> QED
  BY <1>2, <1>3, <1>5, <1>6, <1>7, <1>8, <1>9, <1>10 DEF C!Next

\* The invariant holds.
LEMMA ClockInvariant == C!Spec => []ClockInv
<1>1. C!Init => ClockInv
  <2> SUFFICES ASSUME C!Init PROVE ClockInv
    OBVIOUS
  <2>1. ClockTyped
    <3>1. uip \in BOOLEAN /\ late \in BOOLEAN /\ subscribed \in BOOLEAN /\ risky \in BOOLEAN
      BY Zenon DEF C!Init
    <3>2. RoundTimer \in Nat \ {0} /\ MaxRounds \in Nat
      BY DevicesConstants DEF C!ClockConstants
    <3> QED
      BY <3>1, <3>2 DEF C!Init, ClockTyped, C!Rate, C!ZERO
  <2>2. Rates /\ Counted /\ Fresh
    BY DEF C!Init, Rates, Counted, Fresh, C!Reading
  <2> QED
    BY <2>1, <2>2, InitHeard, InitMoment DEF ClockInv
<1>2. ClockInv /\ [C!Next]_(C!vars) => ClockInv'
  BY NextHeard, NextMoment, NextClockTyped, NextRates, NextCounted, NextFresh DEF ClockInv
<1> QED
  BY <1>1, <1>2, PTL DEF C!Spec

(***************************************************************************)
(* The date on the menu is that of one moment, and of the last second      *)
(* whenever the update interrupt is on and no notification waits, however  *)
(* late the main loop answers; and a loop that has answered within half a  *)
(* second so far has missed no half second of the round: for any length    *)
(* and number of rounds.                                                   *)
(***************************************************************************)
THEOREM ClockReads == C!Spec => []ClockIsRead
<1>1. ASSUME ClockInv PROVE ClockIsRead
  <2>1. C!DateNotTorn
    BY <1>1 DEF ClockInv, MomentKept, C!Reading, C!DateNotTorn
  <2>2. C!NoPeriodMissed
    <3> SUFFICES ASSUME screen = "game", where = "loop", ~noti, ~late PROVE C!Periods >= elapsed
      BY DEF C!NoPeriodMissed, C!Idle
    <3>1. ~pf
      BY <1>1 DEF ClockInv, HeardInv, LineTypeOK, C!NoDeadLine, C!Line, Rates
    <3> QED
      BY <1>1, <3>1 DEF ClockInv, Counted
  <2>3. C!DateIsCurrent
    <3> SUFFICES ASSUME uie, where = "loop", ~noti, curr_date # C!ZERO
                 PROVE  curr_date = [sec |-> C!Sec(now), min |-> C!Min(now)]
      BY DEF C!DateIsCurrent, C!Idle
    <3>1. ~uf /\ ~C!Reading
      BY <1>1 DEF ClockInv, HeardInv, LineTypeOK, C!NoDeadLine, C!Line, C!Reading
    <3>2. now = begun
      BY <1>1, <3>1 DEF ClockInv, Fresh
    <3> QED
      BY <1>1, <3>1, <3>2 DEF ClockInv, MomentKept
  <2> QED
    BY <2>1, <2>2, <2>3 DEF ClockIsRead
<1> QED
  BY <1>1, ClockInvariant, PTL

-----------------------------------------------------------------------------
(* Module Kbc: the controller while it is polled.                          *)

Buffered == [src : K!Source, err : BOOLEAN, data : {"key", "move", "ACK", "NAK"}]

\* Types, with the shapes of what TypeOK leaves open.
KbcTyped ==
    /\ K!TypeOK /\ obf \in Seq(Buffered)
    /\ count \in [keys : 0..MaxKeys, reports : Nat, errors : Nat, early : Nat]
    /\ keys <= count.keys

\* The program is at a step of its script, and at one of the right kind.
Placed ==
    (pc.phase \in {"init", "free"}) =>
        /\ pc.k \in 1..Len(K!Script(pc.phase))
        /\ pc.at # "cmd" => K!Current.op \in {"mouse", "cmdbyte"}
        /\ pc.at = "ack" => K!Current.op = "mouse"

\* Between kbc_disable_int and kbc_enable_int nothing is notified, and the byte
\* of a notification is not read while it waits.
Masked ==
    /\ \A s \in irq : obf # <<>> /\ obf[1].src = s
    /\ (pc.phase \in {"init", "free"} /\ pc.k > 1) => masked
    /\ (pc.phase \in {"init", "free"} /\ pc.at \in {"arg", "ack"}) => irq = {}

\* Until data reporting is on, an undisturbed mouse only answers.
Answers ==
    /\ keys = 0 /\ pc.i = 1 /\ mouse.awaits = "none"
    /\ obf # <<>> => ~obf[1].err
    /\ (pc.k < 4 \/ (pc.k = 4 /\ pc.at # "ack")) => ~mouse.reporting
    /\ (pc.k <= 4 /\ pc.at # "ack") => obf = <<>> /\ mq = <<>>
    /\ (pc.k <= 4 /\ pc.at = "ack") =>
          \/ obf = <<>> /\ mq # <<>> /\ mq[1] = "ACK" /\ (pc.k < 4 => Len(mq) = 1)
          \/ obf # <<>> /\ obf[1].data = "ACK" /\ (pc.k < 4 => mq = <<>>)
Calm == count.early = 0 => K!Started /\ (pc.phase = "init" /\ pc.k <= 5 => Answers)

KbcInv == KbcTyped /\ Placed /\ Masked /\ Calm

-----------------------------------------------------------------------------
\* The steps of the two scripts.
Here ==
    /\ pc.phase = "init" /\ pc.k = 1 => K!Current.op = "disable"
    /\ pc.phase = "init" /\ pc.k \in {2, 3, 4, 6, 7} => K!Current.op = "mouse"
    /\ pc.phase = "init" /\ pc.k = 5 => K!Current.op = "byte"
    /\ pc.phase = "init" /\ pc.k = 8 => K!Current.op = "enable"
    /\ pc.phase = "free" /\ pc.k = 1 => K!Current.op = "disable"
    /\ pc.phase = "free" /\ pc.k \in {2, 3} => K!Current.op = "mouse"
    /\ pc.phase = "free" /\ pc.k = 4 => K!Current.op = "cmdbyte"
    /\ pc.phase = "free" /\ pc.k = 5 => K!Current.op = "enable"
    /\ pc.phase = "init" /\ pc.k = 2 => K!Current.args[1] = "F5"
    /\ pc.phase = "init" /\ pc.k = 3 => K!Current.args[1] = "EA"
    /\ pc.phase = "init" /\ pc.k = 4 => K!Current.args[1] = "F4"
    /\ pc.phase = "init" /\ pc.k \in 2..4 => Len(K!Current.args) = 1
    /\ Len(K!Current.args) \in 0..2

\* The lengths of init_game and free_game.
LEMMA ScriptLengths ==
    Len(K!Script("init")) = 8 /\ Len(K!Script("free")) = 5
  BY DEF K!Script, K!init_game, K!free_game, K!Step

\* The step that the program is at is one of the steps in the source.
LEMMA HereIs ==
    ASSUME KbcTyped, Placed, pc.phase \in {"init", "free"}
    PROVE  /\ Here
           /\ pc.phase = "init" => pc.k \in 1..8
           /\ pc.phase = "free" => pc.k \in 1..5
<1>1. CASE pc.phase = "init"
  <2>1. pc.k \in 1..8
    BY <1>1, ScriptLengths DEF Placed
  <2>2. K!Current = K!init_game[pc.k]
    BY <1>1 DEF K!Current, K!Script
  <2>3. Here
    BY <1>1, <2>1, <2>2 DEF Here, K!init_game, K!Step
  <2>4. QED
    BY <1>1, <2>1, <2>3
<1>2. CASE pc.phase = "free"
  <2>1. pc.k \in 1..5
    BY <1>2, ScriptLengths DEF Placed
  <2>2. K!Current = K!free_game[pc.k]
    BY <1>2 DEF K!Current, K!Script
  <2>3. Here
    BY <1>2, <2>1, <2>2 DEF Here, K!free_game, K!Step
  <2>4. QED
    BY <1>2, <2>1, <2>3
<1>3. QED
  BY <1>1, <1>2

\* What the end of a step leads to.
Onward ==
    /\ pc' \in K!Position /\ pc'.at = "cmd" /\ pc'.i = 1
    /\ pc'.phase \in {"init", "free"} => pc'.phase = pc.phase
    /\ pc'.phase = "init" => pc'.k = pc.k + 1 /\ pc'.k <= 8
    /\ pc'.phase = "free" => pc'.k > pc.k /\ pc'.k <= 5
Recorded == failed' \in {failed, failed \cup {<<pc.phase, pc.k>>}}

\* A step that ends takes the program to a later step or out of the script.
LEMMA ReturnIs ==
    ASSUME KbcTyped, Placed, pc.phase \in {"init", "free"}, NEW ok \in BOOLEAN, K!Return(ok)
    PROVE  /\ Onward /\ Recorded
           /\ ok => failed' = failed
<1> DEFINE next == pc.k + (IF ~ok /\ pc.phase = "free" /\ pc.k = K!Disable THEN 2 ELSE 1)
           leave == ~ok /\ pc.phase = "init" /\ pc.k \in K!Required
<1>1. failed' = IF ok THEN failed ELSE failed \cup {<<pc.phase, pc.k>>}
  BY DEF K!Return
<1>2. pc' = IF leave \/ next > Len(K!Script(pc.phase))
              THEN K!Start(IF pc.phase = "init" THEN "loop" ELSE "done", 1)
              ELSE K!Start(pc.phase, next)
  BY DEF K!Return
<1>3. /\ pc.k \in 1..8 /\ next \in Nat /\ next > pc.k
      /\ pc.phase = "init" => next = pc.k + 1
  BY DEF KbcTyped, K!TypeOK, K!Position, K!Disable
<1>4. KBC_MAX_TRIES \in Nat \ {0}
  BY DevicesConstants DEF K!KbcConstants
<1> HIDE DEF next, leave
<1>5. CASE leave \/ next > Len(K!Script(pc.phase))
  <2>1. pc' = K!Start(IF pc.phase = "init" THEN "loop" ELSE "done", 1)
    BY <1>2, <1>5
  <2>2. Onward
    BY <2>1, <1>4 DEF Onward, K!Start, K!Position
  <2>3. QED
    BY <1>1, <2>2 DEF Recorded
<1>6. CASE ~(leave \/ next > Len(K!Script(pc.phase)))
  <2>1. pc' = K!Start(pc.phase, next)
    BY <1>2, <1>6
  <2>2. /\ pc.phase = "init" => next <= 8
        /\ pc.phase = "free" => next <= 5
    <3>1. ~(next > Len(K!Script(pc.phase)))
      BY <1>6
    <3>2. ASSUME pc.phase = "init" PROVE next <= 8
      <4>1. ~(next > 8)
        BY <3>1, <3>2, ScriptLengths, Zenon
      <4>2. QED
        BY <4>1, <1>3
    <3>3. ASSUME pc.phase = "free" PROVE next <= 5
      <4>1. ~(next > 5)
        BY <3>1, <3>3, ScriptLengths, Zenon
      <4>2. QED
        BY <4>1, <1>3
    <3>4. QED
      BY <3>2, <3>3
  <2>3. Onward
    BY <2>1, <2>2, <1>3, <1>4 DEF Onward, K!Start, K!Position
  <2>4. QED
    BY <1>1, <2>3 DEF Recorded
<1>7. QED
  BY <1>5, <1>6

\* The program stays within the step, and nothing has failed.
Within(spot, i) ==
    /\ pc' \in K!Position /\ pc'.phase = pc.phase /\ pc'.k = pc.k
    /\ pc'.at = spot /\ pc'.i = i /\ failed' = failed

\* write_ms_cmd begins again, or the step has failed.
LEMMA RetryIs ==
    ASSUME KbcTyped, Placed, pc.phase \in {"init", "free"}, K!Retry
    PROVE  (K!Current.op = "mouse" /\ Within("cmd", 1)) \/ (Onward /\ Recorded)
<1>1. CASE K!Current.op = "mouse" /\ pc.tries + 1 < KBC_MAX_TRIES
  <2>1. pc' = [pc EXCEPT !.tries = @ + 1, !.i = 1, !.at = "cmd"] /\ failed' = failed
    BY <1>1 DEF K!Retry
  <2>2. KBC_MAX_TRIES \in Nat \ {0} /\ pc \in K!Position
    BY DevicesConstants DEF K!KbcConstants, KbcTyped, K!TypeOK
  <2>3. Within("cmd", 1)
    <3>1. pc.tries + 1 \in 0..(KBC_MAX_TRIES - 1)
      BY <1>1, <2>2 DEF K!Position
    <3>2. pc' \in K!Position
      <4> DEFINE a == [pc EXCEPT !.tries = pc.tries + 1]
                 b == [a EXCEPT !.i = 1]
      <4>1. a \in K!Position
        BY <2>2, <3>1 DEF K!Position
      <4> HIDE DEF a
      <4>2. b \in K!Position
        BY <4>1 DEF K!Position
      <4> HIDE DEF b
      <4>3. [b EXCEPT !.at = "cmd"] \in K!Position
        BY <4>2 DEF K!Position
      <4>4. QED
        BY <2>1, <4>3 DEF a, b
    <3>3. QED
      BY <2>1, <2>2, <3>2 DEF Within, K!Position
  <2>4. QED
    BY <1>1, <2>3
<1>2. CASE ~(K!Current.op = "mouse" /\ pc.tries + 1 < KBC_MAX_TRIES)
  <2>1. K!Return(FALSE)
    BY <1>2 DEF K!Retry
  <2>2. QED
    BY <2>1, ReturnIs
<1>3. QED
  BY <1>1, <1>2

\* The program goes on within the step.
LEMMA WithinIs ==
    ASSUME KbcTyped, NEW at1 \in {"cmd", "poll", "arg", "ack"}, NEW i1 \in 1..2,
           pc' = [pc EXCEPT !.i = i1, !.at = at1], failed' = failed
    PROVE  Within(at1, i1)
<1> DEFINE a == [pc EXCEPT !.i = i1]
<1>1. pc \in K!Position
  BY DEF KbcTyped, K!TypeOK
<1>2. a \in K!Position /\ a.i = i1 /\ a.phase = pc.phase /\ a.k = pc.k
  BY <1>1 DEF K!Position
<1>3. pc' = [a EXCEPT !.at = at1]
  OBVIOUS
<1> HIDE DEF a
<1>4. QED
  BY <1>2, <1>3 DEF Within, K!Position

\* The same when the argument stays.
LEMMA WithinArgument ==
    ASSUME KbcTyped, NEW at1 \in {"cmd", "poll", "arg", "ack"},
           pc' = [pc EXCEPT !.at = at1], failed' = failed
    PROVE  Within(at1, pc.i)
<1>1. pc \in K!Position
  BY DEF KbcTyped, K!TypeOK
<1>2. QED
  BY <1>1 DEF Within, K!Position

\* A step has ended with an error, or write_ms_cmd begins again.
Again == (K!Current.op = "mouse" /\ Within("cmd", 1)) \/ (Onward /\ Recorded)

\* The outcomes of write_byte_kbc.
LEMMA WriteByteIs ==
    ASSUME KbcTyped, Placed, K!write_byte_kbc
    PROVE  /\ \/ Again
              \/ K!Current.op \in {"mouse", "cmdbyte"} /\ Within("poll", pc.i)
           /\ ~K!Error => \/ K!Current.op = "byte" /\ Onward /\ failed' = failed
                          \/ K!Current.op \in {"mouse", "cmdbyte"} /\ Within("poll", pc.i)
<1>1. pc.phase \in {"init", "free"} /\ K!Current.op \in {"mouse", "byte", "cmdbyte"}
  BY DEF K!write_byte_kbc, K!Polling
<1>2. CASE K!Error
  <2>1. K!Retry
    BY <1>2 DEF K!write_byte_kbc
  <2>2. QED
    BY <1>1, <1>2, <2>1, RetryIs DEF Again
<1>3. CASE ~K!Error /\ K!Current.op = "byte"
  <2>1. K!Return(TRUE)
    BY <1>3 DEF K!write_byte_kbc
  <2>2. Onward /\ failed' = failed
    BY <1>1, <2>1, ReturnIs
  <2>3. QED
    BY <1>3, <2>2 DEF Again, Recorded
<1>4. CASE ~K!Error /\ K!Current.op # "byte"
  <2>1. pc' = [pc EXCEPT !.at = "poll"] /\ failed' = failed
    BY <1>4 DEF K!write_byte_kbc
  <2>2. Within("poll", pc.i)
    BY <2>1, WithinArgument
  <2>3. QED
    BY <1>1, <1>4, <2>2
<1>5. QED
  BY <1>2, <1>3, <1>4

\* The outcomes of the first half of write_arg_kbc.
LEMMA PollIs ==
    ASSUME KbcTyped, Placed, K!write_arg_kbc_poll
    PROVE  IF obf = <<>> THEN Within("arg", pc.i) ELSE Again
<1>1. pc.phase \in {"init", "free"}
  BY DEF K!write_arg_kbc_poll, K!Polling
<1>2. CASE obf = <<>>
  <2>1. pc' = [pc EXCEPT !.at = "arg"] /\ failed' = failed
    BY <1>2 DEF K!write_arg_kbc_poll
  <2>2. QED
    BY <1>2, <2>1, WithinArgument
<1>3. CASE obf # <<>>
  <2>1. K!Retry
    BY <1>3 DEF K!write_arg_kbc_poll
  <2>2. QED
    BY <1>1, <1>3, <2>1, RetryIs DEF Again
<1>4. QED
  BY <1>2, <1>3

\* The outcomes of its second half.
LEMMA WriteArgIs ==
    ASSUME KbcTyped, Placed, K!write_arg_kbc
    PROVE  IF K!Current.op = "cmdbyte"
             THEN Onward /\ failed' = failed /\ UNCHANGED <<mq, mouse>>
             ELSE K!MouseTakes(K!Current.args[pc.i]) /\ Within("ack", pc.i)
<1>1. pc.phase \in {"init", "free"}
  BY DEF K!write_arg_kbc, K!Polling
<1>2. CASE K!Current.op = "cmdbyte"
  <2>1. K!Return(TRUE) /\ UNCHANGED <<mq, mouse>>
    BY <1>2 DEF K!write_arg_kbc
  <2>2. QED
    BY <1>1, <1>2, <2>1, ReturnIs
<1>3. CASE K!Current.op # "cmdbyte"
  <2>1. /\ K!MouseTakes(K!Current.args[pc.i])
        /\ pc' = [pc EXCEPT !.at = "ack"] /\ failed' = failed
    BY <1>3 DEF K!write_arg_kbc
  <2>2. QED
    BY <1>3, <2>1, WithinArgument
<1>4. QED
  BY <1>2, <1>3

\* A script step has at most two arguments.
LEMMA NextOfTwo == ASSUME NEW i \in 1..2, NEW n \in 0..2, i < n PROVE i + 1 \in 1..2
  OBVIOUS

\* The outcomes of read_byte_kbc.
LEMMA ReadByteIs ==
    ASSUME KbcTyped, Placed, K!read_byte_kbc
    PROVE  /\ \/ Again
              \/ pc.i < Len(K!Current.args) /\ Within("cmd", pc.i + 1)
           /\ ~K!Error /\ obf[1].data = "ACK" =>
                \/ Onward /\ failed' = failed
                \/ pc.i < Len(K!Current.args) /\ Within("cmd", pc.i + 1)
<1>1. pc.phase \in {"init", "free"}
  BY DEF K!read_byte_kbc, K!Polling
<1>2. CASE K!Error \/ obf[1].data # "ACK"
  <2>1. K!Retry
    BY <1>2 DEF K!read_byte_kbc
  <2>2. QED
    BY <1>1, <1>2, <2>1, RetryIs DEF Again
<1>3. CASE ~K!Error /\ obf[1].data = "ACK" /\ pc.i < Len(K!Current.args)
  <2>1. pc' = [pc EXCEPT !.i = @ + 1, !.at = "cmd"] /\ failed' = failed
    BY <1>3 DEF K!read_byte_kbc
  <2>2. pc.i + 1 \in 1..2
    <3>1. Len(K!Current.args) \in 0..2
      BY <1>1, HereIs DEF Here
    <3>2. pc.i \in 1..2
      BY DEF KbcTyped, K!TypeOK, K!Position
    <3>3. pc.i < Len(K!Current.args)
      BY <1>3
    <3>4. QED
      BY <3>1, <3>2, <3>3, NextOfTwo, Zenon
  <2>3. Within("cmd", pc.i + 1)
    BY <2>1, <2>2, WithinIs
  <2>4. QED
    BY <1>3, <2>3
<1>4. CASE ~K!Error /\ obf[1].data = "ACK" /\ ~(pc.i < Len(K!Current.args))
  <2>1. K!Return(TRUE)
    BY <1>4 DEF K!read_byte_kbc
  <2>2. Onward /\ failed' = failed
    BY <1>1, <2>1, ReturnIs
  <2>3. QED
    BY <2>2 DEF Again, Recorded
<1>5. QED
  BY <1>2, <1>3, <1>4

\* The outcomes of kbc_disable_int and kbc_enable_int.
LEMMA LinesAre ==
    ASSUME KbcTyped, Placed, K!kbc_disable_int \/ K!kbc_enable_int
    PROVE  Onward /\ failed' = failed
<1>1. pc.phase \in {"init", "free"} /\ K!Return(TRUE)
  BY DEF K!kbc_disable_int, K!kbc_enable_int, K!Polling
<1>2. QED
  BY <1>1, ReturnIs

-----------------------------------------------------------------------------
\* The program has left the step, or is still in it at a place of the same kind.
Moved ==
    \/ Onward /\ Recorded
    \/ pc' \in K!Position /\ pc'.phase = pc.phase /\ pc'.k = pc.k /\ failed' = failed

\* Every action of a polling program moves it on in its script.
LEMMA PollingMoves ==
    ASSUME KbcTyped, Placed,
           \/ K!kbc_disable_int \/ K!kbc_enable_int \/ K!write_byte_kbc
           \/ K!write_arg_kbc_poll \/ K!write_arg_kbc \/ K!read_byte_kbc
    PROVE  Moved /\ pc.phase \in {"init", "free"}
<1>1. pc.phase \in {"init", "free"}
  BY DEF K!kbc_disable_int, K!kbc_enable_int, K!write_byte_kbc, K!write_arg_kbc_poll,
         K!write_arg_kbc, K!read_byte_kbc, K!Polling
<1>2. CASE K!kbc_disable_int \/ K!kbc_enable_int
  BY <1>1, <1>2, LinesAre DEF Moved, Recorded
<1>3. CASE K!write_byte_kbc
  BY <1>1, <1>3, WriteByteIs DEF Moved, Again, Within
<1>4. CASE K!write_arg_kbc_poll
  BY <1>1, <1>4, PollIs DEF Moved, Again, Within
<1>5. CASE K!write_arg_kbc
  BY <1>1, <1>5, WriteArgIs DEF Moved, Recorded, Within
<1>6. CASE K!read_byte_kbc
  BY <1>1, <1>6, ReadByteIs DEF Moved, Again, Within
<1>7. QED
  BY <1>2, <1>3, <1>4, <1>5, <1>6

\* The mouse has its type after any byte of a script.
LEMMA MouseTyped ==
    ASSUME KbcTyped, NEW b, K!MouseTakes(b)
    PROVE  /\ mq' \in Seq({"move", "ACK", "NAK"})
           /\ mouse' \in [reporting : BOOLEAN, awaits : {"none", "F3", "E8"},
                          rate : {"default", "60"}, resolution : {"default", "0"}]
<1> DEFINE M == [reporting : BOOLEAN, awaits : {"none", "F3", "E8"},
                 rate : {"default", "60"}, resolution : {"default", "0"}]
           known == IF mouse.awaits # "none"
                      THEN <<mouse.awaits, b>> \in {<<"F3", "60">>, <<"E8", "0">>}
                      ELSE b \in K!Command
<1>1. mouse \in M
  BY DEF KbcTyped, K!TypeOK
<1>2. mq' = <<IF known THEN "ACK" ELSE "NAK">>
  BY DEF K!MouseTakes
<1>3. mq' \in Seq({"move", "ACK", "NAK"})
  BY <1>2
<1>4. \/ mouse' = mouse
      \/ b = "60" /\ mouse' = [mouse EXCEPT !.awaits = "none", !.rate = b]
      \/ b = "0" /\ mouse' = [mouse EXCEPT !.awaits = "none", !.resolution = b]
      \/ b \in {"F3", "E8"} /\ mouse' = [mouse EXCEPT !.awaits = b]
      \/ mouse' = [mouse EXCEPT !.reporting = TRUE]
      \/ mouse' = [mouse EXCEPT !.reporting = FALSE]
      \/ mouse' = [reporting |-> FALSE, awaits |-> "none", rate |-> "default",
                   resolution |-> "default"]
  BY DEF K!MouseTakes
<1>5. mouse' \in M
  <2>1. /\ [mouse EXCEPT !.awaits = "none"] \in M
        /\ [mouse EXCEPT !.reporting = TRUE] \in M
        /\ [mouse EXCEPT !.reporting = FALSE] \in M
    BY <1>1
  <2>2. CASE b = "60" /\ mouse' = [mouse EXCEPT !.awaits = "none", !.rate = b]
    BY <2>1, <2>2
  <2>3. CASE b = "0" /\ mouse' = [mouse EXCEPT !.awaits = "none", !.resolution = b]
    BY <2>1, <2>3
  <2>4. CASE b \in {"F3", "E8"} /\ mouse' = [mouse EXCEPT !.awaits = b]
    BY <1>1, <2>4
  <2>5. [reporting |-> FALSE, awaits |-> "none", rate |-> "default",
         resolution |-> "default"] \in M
    OBVIOUS
  <2> HIDE DEF M
  <2>6. QED
    BY <1>1, <1>4, <2>1, <2>2, <2>3, <2>4, <2>5, Zenon
<1>6. QED
  BY <1>3, <1>5

\* Every byte that the controller takes over has its type, and a place.
LEMMA FillTyped ==
    ASSUME KbcTyped, NEW err \in BOOLEAN, K!FromKeyboard(err) \/ K!FromMouse(err)
    PROVE  KbcTyped'
<1> USE DEF KbcTyped, K!TypeOK
<1>1. \E s \in K!Source, d \in {"key", "move", "ACK", "NAK"} :
          obf' = <<[src |-> s, err |-> err, data |-> d]>>
            /\ irq' = IF masked THEN irq ELSE irq \cup {s}
  <2>1. CASE K!FromKeyboard(err)
    BY <2>1 DEF K!FromKeyboard, K!Fill, K!Source
  <2>2. CASE K!FromMouse(err)
    <3>1. Head(mq) \in {"move", "ACK", "NAK"}
      BY <2>2 DEF K!FromMouse
    <3>2. QED
      BY <2>2, <3>1 DEF K!FromMouse, K!Fill, K!Source
  <2>3. QED
    BY <2>1, <2>2
<1>2. obf' \in Seq(Buffered) /\ Len(obf') \in 0..1
  BY <1>1 DEF Buffered
<1>3. \A n \in 1..Len(obf') : obf'[n] \in Buffered
  BY <1>2, ElementOfSeq
<1>4. irq' \subseteq K!Source
  BY <1>1
<1>5. /\ count'.keys = count.keys
      /\ count' \in [keys : 0..MaxKeys, reports : Nat, errors : Nat, early : Nat]
  <2> DEFINE N == 0..MaxKeys
             e == IF err THEN count.errors + 1 ELSE count.errors
             f == IF err /\ pc.phase = "init" THEN count.early + 1 ELSE count.early
  <2>1. count' = [[count EXCEPT !.errors = e] EXCEPT !.early = f]
    BY DEF K!FromKeyboard, K!FromMouse, K!Fill
  <2>2. e \in Nat /\ f \in Nat
    OBVIOUS
  <2>3. count \in [keys : N, reports : Nat, errors : Nat, early : Nat]
    OBVIOUS
  <2> HIDE DEF N, e, f
  <2>4. [count EXCEPT !.errors = e] \in [keys : N, reports : Nat, errors : Nat, early : Nat]
    BY <2>2, <2>3
  <2>5. count' \in [keys : N, reports : Nat, errors : Nat, early : Nat]
    BY <2>1, <2>2, <2>4
  <2>6. count'.keys = count.keys
    BY <2>1, <2>3
  <2>7. QED
    BY <2>5, <2>6 DEF N
<1>6. keys' \in 0..MaxKeys /\ keys' <= count'.keys
  <2>1. MaxKeys \in Nat
    BY DevicesConstants DEF K!KbcConstants
  <2>2. keys' = keys \/ (keys > 0 /\ keys' = keys - 1)
    BY DEF K!FromKeyboard, K!FromMouse
  <2>3. QED
    BY <1>5, <2>1, <2>2
<1>7. mq' \in Seq({"move", "ACK", "NAK"})
  <2>1. CASE K!FromKeyboard(err)
    BY <2>1 DEF K!FromKeyboard
  <2>2. CASE K!FromMouse(err)
    BY <2>2 DEF K!FromMouse
  <2>3. QED
    BY <2>1, <2>2
<1>8. pc' = pc /\ failed' = failed /\ masked' = masked /\ mouse' = mouse
  BY DEF K!FromKeyboard, K!FromMouse, K!Fill
<1>9. QED
  BY <1>2, <1>3, <1>4, <1>5, <1>6, <1>7, <1>8 DEF Buffered

\* A step of a polling program leaves the program's own variables typed.
LEMMA MovedTyped ==
    ASSUME KbcTyped, Moved, pc.phase \in {"init", "free"}
    PROVE  pc' \in K!Position /\ failed' \subseteq {"init", "free"} \X (1..8)
<1>1. <<pc.phase, pc.k>> \in {"init", "free"} \X (1..8)
  BY DEF KbcTyped, K!TypeOK, K!Position
<1>2. failed \subseteq {"init", "free"} \X (1..8)
  BY DEF KbcTyped, K!TypeOK
<1>3. failed' \in {failed, failed \cup {<<pc.phase, pc.k>>}}
  BY DEF Moved, Recorded
<1>4. failed' \subseteq {"init", "free"} \X (1..8)
  BY <1>1, <1>2, <1>3, Zenon
<1>5. QED
  BY <1>4 DEF Moved, Onward

\* A key or a movement that is counted.
LEMMA CountTyped ==
    ASSUME KbcTyped, K!KeyByte \/ K!MouseMoves
    PROVE  KbcTyped'
<1> USE DEF KbcTyped
<1> DEFINE N == 0..MaxKeys
           T == [keys : N, reports : Nat, errors : Nat, early : Nat]
<1>1. count \in T /\ MaxKeys \in Nat
  BY DevicesConstants DEF K!KbcConstants
<1>2. CASE K!KeyByte
  <2> DEFINE e == IF pc.phase = "init" THEN count.early + 1 ELSE count.early
             c == count.keys + 1
  <2>1. e \in Nat /\ c \in N /\ keys' \in N /\ keys' <= c
    BY <1>1, <1>2 DEF K!KeyByte, K!TypeOK
  <2>2. count' = [[count EXCEPT !.keys = c] EXCEPT !.early = e]
    BY <1>2 DEF K!KeyByte
  <2> HIDE DEF N, e, c
  <2>3. [count EXCEPT !.keys = c] \in T /\ [count EXCEPT !.keys = c].keys = c
    BY <1>1, <2>1
  <2>4. count' \in T /\ count'.keys = c
    BY <2>1, <2>2, <2>3
  <2>5. /\ pc' = pc /\ failed' = failed /\ masked' = masked /\ irq' = irq /\ obf' = obf
        /\ mq' = mq /\ mouse' = mouse
    BY <1>2 DEF K!KeyByte
  <2>6. QED
    BY <2>1, <2>4, <2>5 DEF N, K!TypeOK
<1>3. CASE K!MouseMoves
  <2>1. count' = [count EXCEPT !.reports = count.reports + 1] /\ mq' = Append(mq, "move")
    BY <1>3 DEF K!MouseMoves
  <2>2. count.reports + 1 \in Nat /\ mq \in Seq({"move", "ACK", "NAK"})
    BY <1>1 DEF K!TypeOK
  <2>3. mq' \in Seq({"move", "ACK", "NAK"})
    BY <2>1, <2>2
  <2> HIDE DEF N
  <2>4. count' \in T /\ count'.keys = count.keys
    BY <1>1, <2>1, <2>2
  <2>5. /\ pc' = pc /\ failed' = failed /\ masked' = masked /\ irq' = irq /\ obf' = obf
        /\ keys' = keys /\ mouse' = mouse
    BY <1>3 DEF K!MouseMoves
  <2>6. QED
    BY <2>3, <2>4, <2>5 DEF N, K!TypeOK
<1>4. QED
  BY <1>2, <1>3

\* A sequence of at most one byte is emptied or kept.
LEMMA KeptOrEmpty ==
    ASSUME KbcTyped, obf' \in {obf, <<>>}
    PROVE  /\ obf' \in Seq(Buffered) /\ Len(obf') \in 0..1
           /\ \A n \in 1..Len(obf') : obf'[n] \in Buffered
<1>1. obf' \in Seq(Buffered) /\ Len(obf') \in 0..1
  <2>1. obf \in Seq(Buffered) /\ Len(obf) \in 0..1
    BY DEF KbcTyped, K!TypeOK
  <2>2. CASE obf' = obf
    BY <2>1, <2>2
  <2>3. CASE obf' = <<>>
    BY <2>3
  <2>4. QED
    BY <2>2, <2>3
<1>2. QED
  BY <1>1, ElementOfSeq

\* Every step preserves the types.
LEMMA NextKbcTyped ==
    ASSUME KbcTyped, Placed, [K!Next]_(K!vars)
    PROVE  KbcTyped'
<1>1. CASE K!KeyByte \/ K!MouseMoves
  BY <1>1, CountTyped
<1>2. CASE K!Controller
  BY <1>2, FillTyped DEF K!Controller
<1>3. ASSUME Moved, pc.phase \in {"init", "free"}, masked' \in BOOLEAN, irq' \subseteq K!Source,
             obf' \in {obf, <<>>}, UNCHANGED <<keys, count>>,
             \/ UNCHANGED <<mq, mouse>>
             \/ \E b : K!MouseTakes(b)
      PROVE  KbcTyped'
  <2>1. pc' \in K!Position /\ failed' \subseteq {"init", "free"} \X (1..8)
    BY <1>3, MovedTyped
  <2>2. /\ obf' \in Seq(Buffered) /\ Len(obf') \in 0..1
        /\ \A n \in 1..Len(obf') : obf'[n] \in Buffered
    BY <1>3, KeptOrEmpty
  <2>3. /\ mq' \in Seq({"move", "ACK", "NAK"})
        /\ mouse' \in [reporting : BOOLEAN, awaits : {"none", "F3", "E8"},
                       rate : {"default", "60"}, resolution : {"default", "0"}]
    <3>1. CASE UNCHANGED <<mq, mouse>>
      BY <3>1 DEF KbcTyped, K!TypeOK
    <3>2. CASE \E b : K!MouseTakes(b)
      BY <3>2, MouseTyped
    <3>3. QED
      BY <1>3, <3>1, <3>2
  <2>4. QED
    BY <1>3, <2>1, <2>2, <2>3 DEF KbcTyped, K!TypeOK, Buffered
<1>4. masked \in BOOLEAN /\ irq \subseteq K!Source
  BY DEF KbcTyped, K!TypeOK
<1>5. CASE K!kbc_disable_int
  <2>1. masked' = TRUE /\ irq' = irq /\ obf' = obf /\ UNCHANGED <<keys, count, mq, mouse>>
    BY <1>5 DEF K!kbc_disable_int, K!hardware
  <2>2. Moved /\ pc.phase \in {"init", "free"}
    BY <1>5, PollingMoves
  <2>3. QED
    BY <2>1, <2>2, <1>3, <1>4
<1>6. CASE K!kbc_enable_int
  <2>1. /\ masked' = FALSE /\ irq' = irq \cup {obf[n].src : n \in DOMAIN obf}
        /\ obf' = obf /\ UNCHANGED <<keys, count, mq, mouse>>
    BY <1>6 DEF K!kbc_enable_int, K!hardware
  <2>2. \A n \in DOMAIN obf : obf[n].src \in K!Source
    <3>1. obf \in Seq(Buffered)
      BY DEF KbcTyped
    <3>2. \A n \in DOMAIN obf : obf[n] \in Buffered
      BY <3>1
    <3>3. QED
      BY <3>2 DEF Buffered
  <2>3. irq' \subseteq K!Source
    BY <2>1, <2>2, <1>4
  <2>4. Moved /\ pc.phase \in {"init", "free"}
    BY <1>6, PollingMoves
  <2>5. QED
    BY <2>1, <2>3, <2>4, <1>3, <1>4
<1>7. CASE K!write_byte_kbc
  <2>1. UNCHANGED <<masked, irq, obf, keys, count, mq, mouse>>
    BY <1>7 DEF K!write_byte_kbc, K!hardware
  <2>2. Moved /\ pc.phase \in {"init", "free"}
    BY <1>7, PollingMoves
  <2>3. QED
    BY <2>1, <2>2, <1>3, <1>4
<1>8. CASE K!write_arg_kbc_poll
  <2>1. UNCHANGED <<masked, irq, obf, keys, count, mq, mouse>>
    BY <1>8 DEF K!write_arg_kbc_poll, K!hardware
  <2>2. Moved /\ pc.phase \in {"init", "free"}
    BY <1>8, PollingMoves
  <2>3. QED
    BY <2>1, <2>2, <1>3, <1>4
<1>9. CASE K!write_arg_kbc
  <2>1. UNCHANGED <<masked, irq, obf, keys, count>>
    BY <1>9 DEF K!write_arg_kbc
  <2>2. UNCHANGED <<mq, mouse>> \/ \E b : K!MouseTakes(b)
    BY <1>9, WriteArgIs
  <2>3. Moved /\ pc.phase \in {"init", "free"}
    BY <1>9, PollingMoves
  <2>4. QED
    BY <2>1, <2>2, <2>3, <1>3, <1>4
<1>10. CASE K!read_byte_kbc
  <2>1. UNCHANGED <<masked, irq, keys, count, mq, mouse>> /\ obf' \in {obf, <<>>}
    BY <1>10 DEF K!read_byte_kbc
  <2>2. Moved /\ pc.phase \in {"init", "free"}
    BY <1>10, PollingMoves
  <2>3. QED
    BY <2>1, <2>2, <1>3, <1>4
<1>11. CASE \E s \in K!Source : K!interrupt_handler(s)
  <2>1. /\ \E phase \in {"loop", "free"} : pc' = K!Start(phase, 1)
        /\ irq' \subseteq irq /\ obf' = <<>>
        /\ UNCHANGED <<failed, masked, keys, mq, mouse, count>>
    BY <1>11 DEF K!interrupt_handler
  <2>2. pc' \in K!Position
    BY <2>1, DevicesConstants DEF K!Start, K!Position, K!KbcConstants
  <2>3. /\ obf' \in Seq(Buffered) /\ Len(obf') \in 0..1
        /\ \A n \in 1..Len(obf') : obf'[n] \in Buffered
    BY <2>1, KeptOrEmpty
  <2>4. QED
    BY <2>1, <2>2, <2>3, <1>4 DEF KbcTyped, K!TypeOK, Buffered
<1>12. CASE UNCHANGED K!vars
  BY <1>12 DEF KbcTyped, K!TypeOK, K!vars, K!hardware
<1>13. QED
  BY <1>1, <1>2, <1>5, <1>6, <1>7, <1>8, <1>9, <1>10, <1>11, <1>12 DEF K!Next, K!Program

\* The program stays at a step of its script, whatever it does there.
LEMMA NextPlaced ==
    ASSUME KbcTyped, Placed, [K!Next]_(K!vars)
    PROVE  Placed'
<1>1. ASSUME Onward, pc.phase \in {"init", "free"}, Placed PROVE Placed'
  <2>1. pc.k \in 1..8 /\ pc'.k \in 1..8
    BY <1>1 DEF KbcTyped, K!TypeOK, Onward, K!Position
  <2>2. pc'.phase = "init" => pc'.k \in 1..Len(K!Script("init"))
    <3>1. pc'.phase = "init" => pc'.k \in 1..8
      BY <1>1, <2>1 DEF Onward
    <3>2. QED
      BY <3>1, ScriptLengths, Zenon
  <2>3. pc'.phase = "free" => pc'.k \in 1..Len(K!Script("free"))
    <3>1. pc'.phase = "free" => pc'.k \in 1..5
      BY <1>1, <2>1 DEF Onward
    <3>2. QED
      BY <3>1, ScriptLengths, Zenon
  <2>4. pc'.at = "cmd"
    BY <1>1 DEF Onward
  <2>5. pc'.phase \in {"init", "free"} => pc'.k \in 1..Len(K!Script(pc'.phase))
    BY <2>2, <2>3
  <2>6. QED
    BY <2>4, <2>5 DEF Placed
<1>2. ASSUME NEW at1, NEW i1, Within(at1, i1), Placed, pc.phase \in {"init", "free"},
             at1 # "cmd" => K!Current.op \in {"mouse", "cmdbyte"},
             at1 = "ack" => K!Current.op = "mouse"
      PROVE  Placed'
  <2>1. pc'.phase = pc.phase /\ pc'.k = pc.k /\ pc'.at = at1
    BY <1>2 DEF Within
  <2>2. K!Current' = K!Current
    BY <2>1 DEF K!Current
  <2>3. pc.k \in 1..Len(K!Script(pc.phase))
    BY <1>2 DEF Placed
  <2>4. pc'.k \in 1..Len(K!Script(pc'.phase))
    BY <2>1, <2>3, Zenon
  <2>5. QED
    BY <1>2, <2>1, <2>2, <2>4 DEF Placed
<1>3. ASSUME Again, Placed, pc.phase \in {"init", "free"} PROVE Placed'
  BY <1>1, <1>2, <1>3 DEF Again
<1>4. CASE K!kbc_disable_int \/ K!kbc_enable_int
  BY <1>1, <1>4, LinesAre, PollingMoves
<1>5. CASE K!write_byte_kbc
  BY <1>2, <1>3, <1>5, WriteByteIs, PollingMoves
<1>6. CASE K!write_arg_kbc_poll
  <2>1. K!Current.op \in {"mouse", "cmdbyte"} /\ pc.phase \in {"init", "free"}
    BY <1>6 DEF K!write_arg_kbc_poll, Placed, K!Polling
  <2>2. QED
    BY <1>2, <1>3, <1>6, <2>1, PollIs
<1>7. CASE K!write_arg_kbc
  <2>1. K!Current.op \in {"mouse", "cmdbyte"} /\ pc.phase \in {"init", "free"}
    BY <1>7 DEF K!write_arg_kbc, Placed, K!Polling
  <2>2. QED
    BY <1>1, <1>2, <1>7, <2>1, WriteArgIs
<1>8. CASE K!read_byte_kbc
  BY <1>2, <1>3, <1>8, ReadByteIs, PollingMoves
<1>9. CASE \E s \in K!Source : K!interrupt_handler(s)
  <2>1. \E phase \in {"loop", "free"} : pc' = K!Start(phase, 1)
    BY <1>9 DEF K!interrupt_handler
  <2>2. pc'.at = "cmd" /\ pc'.k = 1 /\ pc'.phase \in {"loop", "free"}
    BY <2>1 DEF K!Start
  <2>3. 1 \in 1..Len(K!Script("free"))
    BY ScriptLengths
  <2>4. QED
    BY <2>2, <2>3 DEF Placed
<1>10. CASE K!KeyByte \/ K!MouseMoves \/ K!Controller \/ UNCHANGED K!vars
  <2>1. pc' = pc
    BY <1>10 DEF K!KeyByte, K!MouseMoves, K!Controller, K!FromKeyboard, K!FromMouse, K!Fill,
                 K!vars
  <2>2. K!Current' = K!Current
    BY <2>1 DEF K!Current
  <2>3. QED
    BY <2>1, <2>2 DEF Placed
<1>11. QED
  BY <1>4, <1>5, <1>6, <1>7, <1>8, <1>9, <1>10 DEF K!Next, K!Program

\* Notifications and the polling functions keep off each other's bytes.
LEMMA NextMasked ==
    ASSUME KbcTyped, Placed, Masked, [K!Next]_(K!vars)
    PROVE  Masked'
<1> DEFINE polling == pc.phase \in {"init", "free"}
<1>1. obf = <<>> => irq = {}
  BY DEF Masked
<1>2. polling /\ K!Current.op # "disable" => pc.k > 1 /\ masked
  BY HereIs DEF Here, Masked
<1>3. polling /\ pc.at \in {"arg", "ack"} => masked /\ irq = {}
  BY <1>2 DEF Placed, Masked
<1>4. ASSUME polling, Onward, UNCHANGED <<irq, obf>>, pc.k >= 1, masked' PROVE Masked'
  BY <1>4 DEF Masked, Onward
<1>5. ASSUME polling, NEW at1, NEW i1, Within(at1, i1), UNCHANGED <<irq, obf, masked>>,
             at1 \in {"arg", "ack"} => irq = {}
      PROVE  Masked'
  BY <1>5 DEF Masked, Within
<1>6. ASSUME polling, Again, UNCHANGED <<irq, obf, masked>>, K!Current.op # "disable"
      PROVE  Masked'
  <2>1. pc.k >= 1 /\ masked'
    BY <1>2, <1>6 DEF KbcTyped, K!TypeOK, K!Position
  <2>2. CASE Within("cmd", 1)
    BY <1>5, <1>6, <2>2
  <2>3. CASE Onward
    BY <1>4, <1>6, <2>1, <2>3
  <2>4. QED
    BY <1>6, <2>2, <2>3 DEF Again
<1>7. CASE K!kbc_disable_int
  <2>1. polling /\ masked' = TRUE /\ irq' = irq /\ obf' = obf /\ pc.k >= 1
    BY <1>7 DEF K!kbc_disable_int, K!hardware, K!Polling, KbcTyped, K!TypeOK, K!Position
  <2>2. QED
    BY <1>4, <1>7, <2>1, LinesAre
<1>8. CASE K!kbc_enable_int
  <2>1. polling /\ K!Current.op = "enable" /\ irq' = irq \cup {obf[n].src : n \in DOMAIN obf}
          /\ obf' = obf
    BY <1>8 DEF K!kbc_enable_int, K!hardware, K!Polling
  <2>2. (pc.phase = "init" => pc.k = 8) /\ (pc.phase = "free" => pc.k = 5)
    BY <2>1, HereIs DEF Here
  <2>3. ~(pc'.phase \in {"init", "free"})
    <3>1. Onward
      BY <1>8, LinesAre
    <3>2. QED
      BY <2>1, <2>2, <3>1 DEF Onward, K!Position
  <2>4. \A s \in irq' : obf # <<>> /\ obf[1].src = s
    <3>1. obf \in Seq(Buffered) /\ Len(obf) \in 0..1
      BY DEF KbcTyped, K!TypeOK
    <3>2. \A n \in DOMAIN obf : n = 1 /\ obf # <<>>
      BY <3>1
    <3>3. QED
      BY <2>1, <3>2 DEF Masked
  <2>5. QED
    BY <2>1, <2>3, <2>4 DEF Masked
<1>9. CASE K!write_byte_kbc
  <2>1. polling /\ K!Current.op # "disable" /\ UNCHANGED <<irq, obf, masked>>
    BY <1>9 DEF K!write_byte_kbc, K!hardware, K!Polling
  <2>2. QED
    BY <1>5, <1>6, <1>9, <2>1, WriteByteIs
<1>10. CASE K!write_arg_kbc_poll
  <2>1. polling /\ K!Current.op # "disable" /\ UNCHANGED <<irq, obf, masked>>
    BY <1>10 DEF K!write_arg_kbc_poll, K!hardware, K!Polling, Placed
  <2>2. QED
    BY <1>1, <1>5, <1>6, <1>10, <2>1, PollIs
<1>11. CASE K!write_arg_kbc
  <2>1. polling /\ pc.at = "arg" /\ UNCHANGED <<irq, obf, masked>> /\ pc.k >= 1
    BY <1>11 DEF K!write_arg_kbc, K!Polling, KbcTyped, K!TypeOK, K!Position
  <2>2. irq = {} /\ masked'
    BY <1>3, <2>1
  <2>3. QED
    BY <1>4, <1>5, <1>11, <2>1, <2>2, WriteArgIs
<1>12. CASE K!read_byte_kbc
  <2>1. polling /\ pc.at = "ack" /\ UNCHANGED <<irq, masked>> /\ pc.k >= 1
    BY <1>12 DEF K!read_byte_kbc, K!Polling, KbcTyped, K!TypeOK, K!Position
  <2>2. irq' = {} /\ masked'
    BY <1>3, <2>1
  <2>3. QED
    BY <2>2 DEF Masked
<1>13. CASE \E s \in K!Source : K!interrupt_handler(s)
  <2>1. PICK s \in K!Source : K!interrupt_handler(s)
    BY <1>13
  <2>2. irq' = {}
    BY <2>1 DEF K!interrupt_handler, Masked
  <2>3. pc'.k = 1 /\ pc'.at = "cmd"
    BY <2>1 DEF K!interrupt_handler, K!Start
  <2>4. QED
    BY <2>2, <2>3 DEF Masked
<1>14. CASE K!Controller
  <2>1. PICK err \in BOOLEAN : K!FromKeyboard(err) \/ K!FromMouse(err)
    BY <1>14 DEF K!Controller
  <2>2. ASSUME NEW s, NEW d, K!Fill(s, d, err) PROVE Masked'
    <3>1. irq = {} /\ irq' \in {{}, {s}} /\ (masked => irq' = {}) /\ pc' = pc /\ masked' = masked
      BY <1>1, <2>2 DEF K!Fill
    <3>2. obf' # <<>> /\ obf'[1].src = s
      BY <2>2 DEF K!Fill
    <3>3. QED
      BY <1>3, <3>1, <3>2 DEF Masked
  <2>3. QED
    BY <2>1, <2>2 DEF K!FromKeyboard, K!FromMouse
<1>15. CASE K!KeyByte \/ K!MouseMoves \/ UNCHANGED K!vars
  BY <1>15 DEF K!KeyByte, K!MouseMoves, K!vars, K!hardware, Masked
<1>16. QED
  BY <1>7, <1>8, <1>9, <1>10, <1>11, <1>12, <1>13, <1>14, <1>15 DEF K!Next, K!Program

\* A byte to a mouse that awaits no argument.
LEMMA MouseAnswers ==
    ASSUME KbcTyped, mouse.awaits = "none", NEW b \in {"F5", "EA", "F4"}, K!MouseTakes(b)
    PROVE  /\ mq' = <<"ACK">> /\ mouse'.awaits = "none"
           /\ b # "F4" => (mouse'.reporting => mouse.reporting)
<1>1. b \in K!Command
  BY DEF K!Command
<1>2. mq' = <<"ACK">>
  BY <1>1 DEF K!MouseTakes
<1>3. mouse' \in {mouse, [mouse EXCEPT !.reporting = TRUE], [mouse EXCEPT !.reporting = FALSE]}
        /\ (b # "F4" => mouse' \in {mouse, [mouse EXCEPT !.reporting = FALSE]})
  BY <1>1 DEF K!MouseTakes
<1>4. QED
  BY <1>2, <1>3 DEF KbcTyped, K!TypeOK

\* What has been said of the steps that may fail says nothing of the others.
LEMMA StartedStays ==
    ASSUME K!Started, \/ failed' = failed
                      \/ Recorded /\ ~(pc.phase = "init" /\ pc.k \in 2..5)
    PROVE  K!Started'
  BY DEF K!Started, K!Required, Recorded

\* An undisturbed start goes on undisturbed.
LEMMA NextCalm ==
    ASSUME KbcTyped, Placed, Calm, [K!Next]_(K!vars)
    PROVE  Calm'
<1> DEFINE early == pc.phase = "init" /\ pc.k <= 5
<1>1. SUFFICES ASSUME count'.early = 0
               PROVE  K!Started' /\ (pc'.phase = "init" /\ pc'.k <= 5 => Answers')
  BY DEF Calm
<1>2. count.early \in Nat /\ pc.k \in 1..8 /\ pc \in K!Position
  BY DEF KbcTyped, K!TypeOK, K!Position
<1>3. CASE K!KeyByte
  <2>1. /\ pc.phase # "init" => count'.early = count.early
        /\ pc.phase = "init" => count'.early = count.early + 1
        /\ pc' = pc /\ failed' = failed
    BY <1>3 DEF K!KeyByte, KbcTyped
  <2>2. pc.phase # "init" /\ count.early = 0
    BY <1>1, <1>2, <2>1
  <2>3. QED
    BY <2>1, <2>2, StartedStays DEF Calm
<1>4. CASE K!MouseMoves
  <2>1. /\ count'.early = count.early /\ mouse.reporting /\ mq' = Append(mq, "move")
        /\ UNCHANGED <<pc, failed, obf, keys, mouse>>
    BY <1>4 DEF K!MouseMoves, KbcTyped
  <2>2. K!Started /\ (early => Answers)
    BY <1>1, <2>1 DEF Calm
  <2>3. ASSUME early PROVE Answers'
    <3>1. pc.k = 5 \/ (pc.k = 4 /\ pc.at = "ack")
      BY <1>2, <2>1, <2>2, <2>3 DEF Answers
    <3>2. mq # <<>> => mq' # <<>> /\ mq'[1] = mq[1]
      BY <2>1 DEF KbcTyped, K!TypeOK
    <3>3. QED
      BY <2>1, <2>2, <2>3, <3>1, <3>2 DEF Answers
  <2>4. QED
    BY <2>1, <2>2, <2>3, StartedStays
<1>5. CASE K!Controller
  <2>1. PICK err \in BOOLEAN : K!FromKeyboard(err) \/ K!FromMouse(err)
    BY <1>5 DEF K!Controller
  <2>2. /\ err /\ pc.phase = "init" => count'.early = count.early + 1
        /\ ~(err /\ pc.phase = "init") => count'.early = count.early
        /\ UNCHANGED <<pc, failed, mouse>> /\ obf = <<>>
    BY <2>1 DEF K!FromKeyboard, K!FromMouse, K!Fill, KbcTyped
  <2>3. count.early = 0 /\ (pc.phase = "init" => ~err)
    BY <1>1, <1>2, <2>2
  <2>4. K!Started /\ (early => Answers)
    BY <2>3 DEF Calm
  <2>5. ASSUME early PROVE Answers'
    <3>1. keys = 0 /\ ~err
      BY <2>3, <2>4, <2>5 DEF Answers
    <3>2. /\ mq # <<>> /\ mq' = Tail(mq) /\ keys' = keys
          /\ obf' = <<[src |-> "MOUSE", err |-> err, data |-> Head(mq)]>>
      BY <2>1, <3>1 DEF K!FromKeyboard, K!FromMouse, K!Fill
    <3>3. obf' # <<>> /\ ~obf'[1].err /\ obf'[1].data = mq[1]
      BY <3>1, <3>2 DEF KbcTyped, K!TypeOK
    <3>4. pc.k <= 4 => pc.at = "ack" /\ mq[1] = "ACK" /\ (pc.k < 4 => mq' = <<>>)
      <4>1. ASSUME pc.k <= 4
            PROVE  pc.at = "ack" /\ mq[1] = "ACK" /\ (pc.k < 4 => Len(mq) = 1)
        BY <2>2, <2>4, <2>5, <3>2, <4>1 DEF Answers
      <4>2. Len(mq) = 1 => Tail(mq) = <<>>
        <5>1. mq \in Seq({"move", "ACK", "NAK"})
          BY DEF KbcTyped, K!TypeOK
        <5>2. Tail(mq) \in Seq({"move", "ACK", "NAK"}) /\ Len(Tail(mq)) = Len(mq) - 1
          BY <3>2, <5>1
        <5>3. ASSUME Len(mq) = 1 PROVE Tail(mq) = <<>>
          <6>1. Len(Tail(mq)) = 0
            BY <5>2, <5>3
          <6>2. QED
            BY <5>2, <6>1, EmptySeq, Zenon
        <5>4. QED
          BY <5>3
      <4>3. QED
        BY <3>2, <4>1, <4>2
    <3>5. QED
      BY <2>2, <2>4, <2>5, <3>2, <3>3, <3>4 DEF Answers
  <2>6. QED
    BY <2>2, <2>4, <2>5, StartedStays
<1>6. CASE K!kbc_disable_int \/ K!kbc_enable_int
  <2>1. UNCHANGED <<obf, keys, mq, mouse, count>> /\ K!Current.op \in {"disable", "enable"}
    BY <1>6 DEF K!kbc_disable_int, K!kbc_enable_int, K!hardware
  <2>2. Onward /\ failed' = failed /\ pc.phase \in {"init", "free"}
    BY <1>6, LinesAre, PollingMoves
  <2>3. K!Started /\ (early => Answers)
    BY <1>1, <2>1 DEF Calm
  <2>4. pc.phase = "init" => pc.k \in {1, 8}
    BY <1>2, <2>1, <2>2, HereIs DEF Here
  <2>5. ASSUME pc'.phase = "init", pc'.k <= 5 PROVE Answers'
    <3>1. /\ pc.phase = "init" /\ pc.k = 1 /\ pc'.k = 2 /\ pc'.at = "cmd" /\ pc'.i = 1
          /\ pc.at = "cmd"
      BY <2>1, <2>2, <2>4, <2>5 DEF Onward, Placed, K!Position, KbcTyped, K!TypeOK
    <3>2. QED
      BY <2>1, <2>3, <3>1 DEF Answers
  <2>6. QED
    BY <2>2, <2>3, <2>5, StartedStays
<1>7. CASE K!write_byte_kbc
  <2>1. /\ UNCHANGED <<obf, keys, mq, mouse, count>> /\ pc.at = "cmd"
        /\ K!Current.op \in {"mouse", "byte", "cmdbyte"}
    BY <1>7 DEF K!write_byte_kbc, K!hardware
  <2>2. Moved /\ pc.phase \in {"init", "free"}
    BY <1>7, PollingMoves
  <2>3. K!Started /\ (early => Answers)
    BY <1>1, <2>1 DEF Calm
  <2>4. CASE early
    <3>1. ~K!Error
      BY <2>3, <2>4 DEF Answers, K!Error
    <3>2. \/ K!Current.op = "byte" /\ Onward /\ failed' = failed
          \/ K!Current.op \in {"mouse", "cmdbyte"} /\ Within("poll", pc.i)
      BY <1>7, <3>1, WriteByteIs
    <3>3. CASE K!Current.op = "byte" /\ Onward /\ failed' = failed
      <4>1. pc.k = 5
        BY <1>2, <2>2, <2>4, <3>3, HereIs DEF Here
      <4>2. ~(pc'.phase = "init" /\ pc'.k <= 5)
        BY <3>3, <4>1 DEF Onward
      <4>3. QED
        BY <2>3, <3>3, <4>2, StartedStays
    <3>4. CASE Within("poll", pc.i)
      <4>1. /\ pc'.phase = "init" /\ pc'.k = pc.k /\ pc'.at = "poll" /\ pc'.i = pc.i
            /\ failed' = failed
        BY <2>4, <3>4 DEF Within
      <4>2. Answers'
        BY <2>1, <2>3, <2>4, <4>1 DEF Answers
      <4>3. QED
        BY <2>3, <4>1, <4>2, StartedStays
    <3>5. QED
      BY <3>2, <3>3, <3>4
  <2>5. CASE ~early
    <3>1. ~(pc'.phase = "init" /\ pc'.k <= 5) /\ ~(pc.phase = "init" /\ pc.k \in 2..5)
      BY <1>2, <2>2, <2>5 DEF Moved, Onward
    <3>2. QED
      BY <2>2, <2>3, <3>1, StartedStays DEF Moved
  <2>6. QED
    BY <2>4, <2>5
<1>8. CASE K!write_arg_kbc_poll
  <2>1. UNCHANGED <<obf, keys, mq, mouse, count>> /\ pc.at = "poll"
    BY <1>8 DEF K!write_arg_kbc_poll, K!hardware
  <2>2. Moved /\ pc.phase \in {"init", "free"}
    BY <1>8, PollingMoves
  <2>3. K!Started /\ (early => Answers)
    BY <1>1, <2>1 DEF Calm
  <2>4. CASE early
    <3>1. pc.k \in 2..4
      BY <1>2, <2>1, <2>2, <2>4, HereIs DEF Here, Placed
    <3>2. obf = <<>>
      BY <2>1, <2>3, <2>4, <3>1 DEF Answers
    <3>3. Within("arg", pc.i)
      BY <1>8, <3>2, PollIs
    <3>4. /\ pc'.phase = "init" /\ pc'.k = pc.k /\ pc'.at = "arg" /\ pc'.i = pc.i
          /\ failed' = failed
      BY <2>4, <3>3 DEF Within
    <3>5. Answers'
      BY <2>1, <2>3, <2>4, <3>4 DEF Answers
    <3>6. QED
      BY <2>3, <3>4, <3>5, StartedStays
  <2>5. CASE ~early
    <3>1. ~(pc'.phase = "init" /\ pc'.k <= 5) /\ ~(pc.phase = "init" /\ pc.k \in 2..5)
      BY <1>2, <2>2, <2>5 DEF Moved, Onward
    <3>2. QED
      BY <2>2, <2>3, <3>1, StartedStays DEF Moved
  <2>6. QED
    BY <2>4, <2>5
<1>9. CASE K!write_arg_kbc
  <2>1. UNCHANGED <<obf, keys, count>> /\ pc.at = "arg"
    BY <1>9 DEF K!write_arg_kbc
  <2>2. Moved /\ pc.phase \in {"init", "free"}
    BY <1>9, PollingMoves
  <2>3. K!Started /\ (early => Answers)
    BY <1>1, <2>1 DEF Calm
  <2>4. CASE early
    <3>1. pc.k \in 2..4 /\ K!Current.op = "mouse"
      BY <1>2, <2>1, <2>2, <2>4, HereIs DEF Here, Placed
    <3>2. obf = <<>> /\ pc.i = 1 /\ mouse.awaits = "none" /\ ~mouse.reporting
      BY <2>1, <2>3, <2>4, <3>1 DEF Answers
    <3>3. K!MouseTakes(K!Current.args[1]) /\ Within("ack", 1)
      BY <1>9, <3>1, <3>2, WriteArgIs
    <3>4. /\ K!Current.args[1] \in {"F5", "EA", "F4"}
          /\ pc.k < 4 => K!Current.args[1] # "F4"
      BY <2>2, <2>4, <3>1, HereIs DEF Here
    <3>5. /\ mq' = <<"ACK">> /\ mouse'.awaits = "none"
          /\ K!Current.args[1] # "F4" => (mouse'.reporting => mouse.reporting)
      BY <3>2, <3>3, <3>4, MouseAnswers
    <3>6. /\ pc'.phase = "init" /\ pc'.k = pc.k /\ pc'.at = "ack" /\ pc'.i = 1
          /\ failed' = failed
      BY <2>4, <3>3 DEF Within
    <3>7. mq' # <<>> /\ mq'[1] = "ACK" /\ Len(mq') = 1
      BY <3>5
    <3>8. Answers'
      BY <2>1, <2>3, <2>4, <3>1, <3>2, <3>4, <3>5, <3>6, <3>7 DEF Answers
    <3>9. QED
      BY <2>3, <3>6, <3>8, StartedStays
  <2>5. CASE ~early
    <3>1. ~(pc'.phase = "init" /\ pc'.k <= 5) /\ ~(pc.phase = "init" /\ pc.k \in 2..5)
      BY <1>2, <2>2, <2>5 DEF Moved, Onward
    <3>2. QED
      BY <2>2, <2>3, <3>1, StartedStays DEF Moved
  <2>6. QED
    BY <2>4, <2>5
<1>10. CASE K!read_byte_kbc
  <2>1. /\ UNCHANGED <<keys, mq, mouse, count>> /\ pc.at = "ack" /\ obf # <<>>
        /\ obf' = IF K!Error THEN obf ELSE <<>>
    BY <1>10 DEF K!read_byte_kbc
  <2>2. Moved /\ pc.phase \in {"init", "free"}
    BY <1>10, PollingMoves
  <2>3. K!Started /\ (early => Answers)
    BY <1>1, <2>1 DEF Calm
  <2>4. CASE early
    <3>1. pc.k \in 2..4
      BY <1>2, <2>1, <2>2, <2>4, HereIs DEF Here, Placed
    <3>2. /\ obf[1].data = "ACK" /\ ~obf[1].err /\ pc.i = 1 /\ (pc.k < 4 => mq = <<>>)
          /\ (pc.k < 4 => ~mouse.reporting) /\ mouse.awaits = "none" /\ keys = 0
      BY <2>1, <2>3, <2>4, <3>1 DEF Answers
    <3>3. ~K!Error /\ obf' = <<>>
      BY <2>1, <3>2 DEF K!Error
    <3>4. Len(K!Current.args) = 1
      BY <2>2, <2>4, <3>1, HereIs DEF Here
    <3>5. Onward /\ failed' = failed
      BY <1>10, <3>2, <3>3, <3>4, ReadByteIs
    <3>6. ASSUME pc'.phase = "init", pc'.k <= 5 PROVE Answers'
      <4>1. pc'.k = pc.k + 1 /\ pc'.at = "cmd" /\ pc'.i = 1
        BY <3>5, <3>6 DEF Onward
      <4>2. QED
        BY <2>1, <3>1, <3>2, <3>3, <4>1 DEF Answers
    <3>7. QED
      BY <2>3, <3>5, <3>6, StartedStays
  <2>5. CASE ~early
    <3>1. ~(pc'.phase = "init" /\ pc'.k <= 5) /\ ~(pc.phase = "init" /\ pc.k \in 2..5)
      BY <1>2, <2>2, <2>5 DEF Moved, Onward
    <3>2. QED
      BY <2>2, <2>3, <3>1, StartedStays DEF Moved
  <2>6. QED
    BY <2>4, <2>5
<1>11. CASE \E s \in K!Source : K!interrupt_handler(s)
  <2>1. /\ \E phase \in {"loop", "free"} : pc' = K!Start(phase, 1)
        /\ failed' = failed /\ count' = count
    BY <1>11 DEF K!interrupt_handler
  <2>2. pc'.phase # "init"
    BY <2>1 DEF K!Start
  <2>3. QED
    BY <1>1, <2>1, <2>2, StartedStays DEF Calm
<1>12. CASE UNCHANGED K!vars
  BY <1>1, <1>12 DEF Calm, Answers, K!Started, K!vars, K!hardware
<1>13. QED
  BY <1>3, <1>4, <1>5, <1>6, <1>7, <1>8, <1>9, <1>10, <1>11, <1>12 DEF K!Next, K!Program

\* The state that the controller is subscribed in meets the invariant.
LEMMA InitKbc == K!Init => KbcInv
<1> SUFFICES ASSUME K!Init PROVE KbcInv
  OBVIOUS
<1>1. KbcTyped
  <2>1. pc \in K!Position
    BY DevicesConstants DEF K!Init, K!Start, K!Position, K!KbcConstants
  <2>2. /\ obf \in Seq(Buffered) /\ Len(obf) = 0 /\ mq \in Seq({"move", "ACK", "NAK"})
        /\ masked \in BOOLEAN /\ irq \subseteq K!Source
        /\ failed \subseteq {"init", "free"} \X (1..8)
    <3>1. obf = <<>> /\ mq = <<>> /\ masked = FALSE /\ irq = {} /\ failed = {}
      BY Zenon DEF K!Init
    <3>2. obf \in Seq(Buffered) /\ Len(obf) = 0 /\ mq \in Seq({"move", "ACK", "NAK"})
      BY <3>1
    <3>3. QED
      BY <3>1, <3>2, Zenon
  <2>3. /\ keys \in 0..MaxKeys /\ keys <= count.keys
        /\ count \in [keys : 0..MaxKeys, reports : Nat, errors : Nat, early : Nat]
    BY DevicesConstants DEF K!Init, K!KbcConstants
  <2>4. mouse \in [reporting : BOOLEAN, awaits : {"none", "F3", "E8"},
                   rate : {"default", "60"}, resolution : {"default", "0"}]
    BY DEF K!Init
  <2>5. QED
    BY <2>1, <2>2, <2>3, <2>4 DEF KbcTyped, K!TypeOK
<1>2. Placed
  <2>1. pc.phase = "init" /\ pc.k = 1 /\ pc.at = "cmd"
    BY DEF K!Init, K!Start
  <2>2. 1 \in 1..Len(K!Script("init"))
    BY ScriptLengths
  <2>3. QED
    BY <2>1, <2>2 DEF Placed
<1>3. Masked
  BY DEF K!Init, K!Start, Masked
<1>4. Calm
  BY DEF K!Init, K!Start, Calm, Answers, K!Started
<1>5. QED
  BY <1>1, <1>2, <1>3, <1>4 DEF KbcInv

\* The invariant of the polled controller holds in every state.
LEMMA KbcInvariant == K!Spec => []KbcInv
<1>1. KbcInv /\ [K!Next]_(K!vars) => KbcInv'
  BY NextKbcTyped, NextPlaced, NextMasked, NextCalm DEF KbcInv
<1>2. QED
  BY <1>1, InitKbc, PTL DEF K!Spec

(***************************************************************************)
(* With any number of attempts, keys, movements and damaged bytes, a       *)
(* notification that waits still finds its own byte in the output buffer   *)
(* that the polling functions of kbc.c read too; and init_game does not    *)
(* return early because of a mouse that moves as soon as it may.           *)
(***************************************************************************)
THEOREM KbcPollingIsSafe == K!Spec => []PollingIsSafe
<1>1. KbcInv => PollingIsSafe
  BY DEF KbcInv, Masked, Calm, PollingIsSafe, K!NotifiedByteIsThere, K!StartsUp
<1>2. QED
  BY <1>1, KbcInvariant, PTL

(***************************************************************************)
(* The variables of all three drivers have their types: page_flip stays    *)
(* within three pages, the attempts of write_ms_cmd stay below             *)
(* KBC_MAX_TRIES and its arguments within the script, and rtc_ih counts    *)
(* pie_state in 0 and 1.                                                   *)
(***************************************************************************)
THEOREM DevicesTypeCorrect == Spec /\ K!Spec /\ C!Spec => []DevicesTypeOK
<1>1. KbcInv => K!TypeOK
  BY DEF KbcInv, KbcTyped
<1>2. ClockInv => C!TypeOK
  BY Zenon DEF ClockInv, HeardInv, LineTypeOK, ClockTyped, C!TypeOK
<1>3. TypeOK /\ K!TypeOK /\ C!TypeOK => DevicesTypeOK
  BY DEF DevicesTypeOK
<1>4. QED
  BY <1>1, <1>2, <1>3, ScreenTypeCorrect, KbcInvariant, ClockInvariant, PTL
=============================================================================
