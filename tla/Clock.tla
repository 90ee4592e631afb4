-------------------------------- MODULE Clock -------------------------------
(***************************************************************************)
(* The real-time clock: lib/rtc_controller.c, the calls that init_game,    *)
(* gm_init_game, set_state, free_level and free_game make to it, and the   *)
(* chip itself, an MC146818 on interrupt line 8.                           *)
(*                                                                         *)
(* The chip sets the periodic and the update flag of register C whether or *)
(* not their interrupts are enabled; reading C clears both.  Its line is   *)
(* edge triggered, so a line that stays high is not heard again.  Time     *)
(* passes in half seconds.  The date is a number of seconds modulo 4, read *)
(* as two registers; the other four are like the second one.               *)
(***************************************************************************)
EXTENDS Integers

CONSTANTS
    RoundTimer,      \* ROUND_TIMER
    MaxRounds        \* bound: rounds played

ClockConstants == RoundTimer \in Nat \ {0} /\ MaxRounds \in Nat

VARIABLES
    rs, pie, uie,    \* rate (register A) and interrupt enables (register B)
    pf, uf,          \* the flags of register C
    now, half, uip,  \* the date, the half of the second, update in progress
    late,            \* the main loop has let an interrupt wait for half a second
    subscribed, noti,   \* the kernel's side of interrupt 8
    at,              \* where the program is: see At
    screen, config_a, config,   \* config is the local of rtc_set_date
    curr_date, begun, risky,   \* the date read, when reading it began, and
                     \* whether UIP was set then
    game_timer, pie_state,
    elapsed, rounds  \* half seconds of this round; counter for the bound

chip == <<rs, pie, uie, pf, uf>>
time == <<now, half, uip, late>>
kernel == <<subscribed, noti>>
round == <<screen, game_timer, pie_state, rounds>>
date == <<curr_date, begun, risky>>
vars == <<chip, time, kernel, at, config_a, config, round, date, elapsed>>

Rate == {"bios", "500ms", "off"}
At == {"vars", "uie", "subscribe", "drain",   \* init_game
       "loop", "sec", "min", "done"}          \* sec, min: inside rtc_set_date

Sec(t) == t % 2
Min(t) == t \div 2
ZERO == [sec |-> -1, min |-> -1]     \* as memset leaves it: day and month are 0

TypeOK ==
    /\ rs \in Rate /\ config_a \in Rate /\ config \in Rate
    /\ {pie, uie, pf, uf, uip, late, subscribed, noti} \subseteq BOOLEAN
    /\ now \in 0..3 /\ half \in 0..1 /\ begun \in 0..3 /\ risky \in BOOLEAN
    /\ at \in At /\ screen \in {"menu", "game", "over"}
    /\ curr_date \in [sec : -1..1, min : -1..1]
    /\ game_timer \in -1..RoundTimer /\ pie_state \in 0..1
    /\ elapsed \in 0..(2 * RoundTimer + 2) /\ rounds \in 0..MaxRounds

-----------------------------------------------------------------------------
(* The chip and the kernel.                                                *)

Line == (pf /\ pie) \/ (uf /\ uie)

\* A rising edge becomes a notification, if anybody has subscribed.
Edge == noti' = (noti \/ (Line' /\ ~Line /\ subscribed))

Reading == at \in {"sec", "min"}

\* Time passes: interrupts should be answered well within half a second, and a
\* tick ends a round whose timer has run out.
Pass == /\ screen = "game" => game_timer > 0
        /\ late' = (late \/ (at = "loop" /\ noti))

CountHalf == elapsed' = IF screen = "game" /\ elapsed < 2 * RoundTimer + 2
                          THEN elapsed + 1 ELSE elapsed

HalfSecond ==
    /\ half = 0 /\ Pass /\ ~Reading /\ at # "done"
    /\ half' = 1 /\ pf' = (pf \/ rs # "off")
    /\ CountHalf
    /\ UNCHANGED <<rs, pie, uie, uf, now, uip, subscribed, at, config_a, config, round, date>>
    /\ Edge

UpdateStarts ==
    /\ half = 1 /\ ~uip /\ Pass /\ at # "done"
    /\ uip' = TRUE
    /\ UNCHANGED <<chip, now, half, kernel, at, config_a, config, round, date, elapsed>>

\* A date whose reading began before UIP was set is read before the update.
UpdateEnds ==
    /\ uip /\ (Reading => risky) /\ at # "done"
    /\ uip' = FALSE /\ half' = 0 /\ now' = (now + 1) % 4
    /\ uf' = TRUE /\ pf' = (pf \/ rs # "off")
    /\ CountHalf
    /\ UNCHANGED <<rs, pie, uie, late, subscribed, at, config_a, config, round, date>>
    /\ Edge

\* At the rate the BIOS has set, a period is about a millisecond.
FastPeriod ==
    /\ rs = "bios" /\ ~pf /\ at # "done"
    /\ pf' = TRUE
    /\ UNCHANGED <<rs, pie, uie, uf, time, subscribed, at, config_a, config, round, date, elapsed>>
    /\ Edge

-----------------------------------------------------------------------------
(* rtc_controller.c.                                                       *)

\* The periodic flag: every second one counts down the round.
count_period ==
    IF pie_state = 1 THEN game_timer' = (IF game_timer > -1 THEN game_timer - 1 ELSE -1)
                          /\ pie_state' = 0
                     ELSE pie_state' = pie_state + 1 /\ UNCHANGED game_timer

\* rtc_set_date up to its first register, from `here`.
rtc_set_date_unchecked(here) ==
    /\ curr_date' = ZERO /\ begun' = now /\ risky' = uip
    /\ config' = rs /\ rs' = config_a /\ at' = "sec"
rtc_set_date(here) ==
    /\ curr_date' = ZERO
    /\ IF uip THEN at' = here /\ UNCHANGED <<rs, config, begun, risky>>
       ELSE /\ begun' = now /\ risky' = FALSE /\ config' = rs /\ rs' = config_a
            /\ at' = "sec"

rtc_ih_else(here) ==
    /\ noti' = FALSE /\ pf' = FALSE /\ uf' = FALSE
    /\ IF uf THEN rtc_set_date(here) /\ UNCHANGED <<game_timer, pie_state>>
       ELSE /\ IF pf THEN count_period ELSE UNCHANGED <<game_timer, pie_state>>
            /\ at' = here /\ UNCHANGED <<rs, config, date>>
    /\ UNCHANGED <<pie, uie, time, subscribed, config_a, screen, rounds, elapsed>>

rtc_ih_period_first(here) ==
    /\ noti' = FALSE /\ pf' = FALSE /\ uf' = FALSE
    /\ IF pf THEN count_period /\ at' = here /\ UNCHANGED <<rs, config, date>>
       ELSE /\ IF uf THEN rtc_set_date(here) ELSE at' = here /\ UNCHANGED <<rs, config, date>>
            /\ UNCHANGED <<game_timer, pie_state>>
    /\ UNCHANGED <<pie, uie, time, subscribed, config_a, screen, rounds, elapsed>>

rtc_ih(here) ==
    /\ noti' = FALSE /\ pf' = FALSE /\ uf' = FALSE
    /\ IF pf THEN count_period ELSE UNCHANGED <<game_timer, pie_state>>
    /\ IF uf THEN rtc_set_date(here) ELSE at' = here /\ UNCHANGED <<rs, config, date>>
    /\ UNCHANGED <<pie, uie, time, subscribed, config_a, screen, rounds, elapsed>>

interrupt_handler == at = "loop" /\ noti /\ rtc_ih("loop")

read_seconds ==
    /\ at = "sec" /\ at' = "min"
    /\ curr_date' = [curr_date EXCEPT !.sec = Sec(now)]
    /\ UNCHANGED <<chip, time, kernel, config_a, config, round, begun, risky, elapsed>>

\* The other registers, and register A as it was.
read_minutes ==
    /\ at = "min" /\ at' = "loop"
    /\ curr_date' = [curr_date EXCEPT !.min = Min(now)]
    /\ rs' = config
    /\ UNCHANGED <<pie, uie, pf, uf, time, kernel, config_a, config, round, begun, risky, elapsed>>

-----------------------------------------------------------------------------
(* init_game, in its order.                                                *)

init_rtc_vars ==
    /\ at = "vars" /\ at' = "uie" /\ config_a' = rs
    /\ UNCHANGED <<chip, time, kernel, config, round, date, elapsed>>

enable_uie_int ==
    /\ at = "uie" /\ at' = "subscribe"
    /\ uie' = TRUE
    /\ UNCHANGED <<rs, pie, pf, uf, time, subscribed, config_a, config, round, date, elapsed>>
    /\ Edge

rtc_subscribe_int ==
    /\ at = "subscribe" /\ at' = "drain"
    /\ subscribed' = TRUE
    /\ UNCHANGED <<chip, time, noti, config_a, config, round, date, elapsed>>

drain_not == at = "drain" /\ at' = "loop"
             /\ UNCHANGED <<chip, time, kernel, config_a, config, round, date, elapsed>>
drain == at = "drain" /\ rtc_ih("loop")

(* The screens.                                                            *)

\* set_state enables UIE again if the state it leaves is MAIN_MENU.
gm_init_game ==
    /\ at = "loop" /\ screen \in {"menu", "over"} /\ rounds < MaxRounds
    /\ uie' = (screen = "menu") /\ rs' = "500ms" /\ pie' = TRUE
    /\ screen' = "game" /\ game_timer' = RoundTimer /\ pie_state' = 0
    /\ elapsed' = 0 /\ rounds' = rounds + 1
    /\ UNCHANGED <<pf, uf, time, subscribed, at, config_a, config, date>>
    /\ Edge

\* free_level, when the round is won, lost or left.
free_level ==
    /\ at = "loop" /\ screen = "game" /\ screen' = "over"
    /\ pie' = FALSE /\ rs' = "off"
    /\ UNCHANGED <<uie, pf, uf, time, kernel, at, config_a, config, game_timer, pie_state,
                   rounds, date, elapsed>>

ToMenu ==
    /\ at = "loop" /\ screen = "over" /\ screen' = "menu"
    /\ UNCHANGED <<chip, time, kernel, at, config_a, config, game_timer, pie_state, rounds,
                   date, elapsed>>

\* The loop ends, and free_game calls reset_rtc and rtc_unsubscribe_int.
reset_rtc ==
    /\ at = "loop" /\ at' = "done"
    /\ rs' = config_a /\ subscribed' = FALSE
    /\ UNCHANGED <<pie, uie, pf, uf, time, noti, config_a, config, round, date, elapsed>>

-----------------------------------------------------------------------------
Init ==
    /\ rs = "bios" /\ pie = FALSE /\ uie = FALSE /\ pf \in BOOLEAN /\ uf \in BOOLEAN
    /\ now = 0 /\ half = 0 /\ uip = FALSE /\ late = FALSE /\ subscribed = FALSE /\ noti = FALSE
    /\ at = "vars" /\ config_a = "off" /\ config = "off"
    /\ curr_date = ZERO /\ begun = 0 /\ risky = FALSE
    /\ screen = "menu" /\ game_timer = 0 /\ pie_state = 0 /\ elapsed = 0 /\ rounds = 0

Next ==
    \/ HalfSecond \/ UpdateStarts \/ UpdateEnds \/ FastPeriod
    \/ interrupt_handler \/ read_seconds \/ read_minutes
    \/ init_rtc_vars \/ enable_uie_int \/ rtc_subscribe_int \/ drain
    \/ gm_init_game \/ free_level \/ ToMenu \/ reset_rtc

Spec == Init /\ [][Next]_vars

-----------------------------------------------------------------------------
Periods == 2 * (RoundTimer - game_timer) + pie_state
Idle == at = "loop" /\ ~noti

(***************************************************************************)
(* The clock never goes dead: while the main loop runs, a high line has a  *)
(* notification waiting, because no edge fell between enable_uie_int and   *)
(* rtc_subscribe_int without rtc_ih being called after them, and every     *)
(* handler run lowers the line by reading register C.                      *)
(***************************************************************************)
NoDeadLine == (Line /\ at \in {"loop", "sec", "min"}) => noti

(***************************************************************************)
(* The date on the menu is one moment's: an update between the reading of  *)
(* two of its registers would show a minute that never was.  rtc_set_date  *)
(* relies on UIP for that.                                                 *)
(***************************************************************************)
DateNotTorn ==
    (at = "loop" /\ curr_date # ZERO) =>
        \E t \in {begun, (begun + 1) % 4} : curr_date = [sec |-> Sec(t), min |-> Min(t)]

(***************************************************************************)
(* No half second of a round is missed, although game_manager.c suspects   *)
(* that the clock "Probably loses some interrupt sometimes mid game", as   *)
(* long as the main loop answers within half a second: also when the       *)
(* period and the update of the date fall together, and when the rate was  *)
(* changed to read the date.                                               *)
(***************************************************************************)
NoPeriodMissed == (screen = "game" /\ Idle /\ ~late) => Periods >= elapsed

(***************************************************************************)
(* While the menu shows the date and its interrupt is on, the date is that *)
(* of the last second whenever no notification waits, because a finished   *)
(* update raises the line and rtc_ih reads the date whenever it clears the *)
(* update flag.  A zeroed date is exempt: rtc_set_date clears the date and *)
(* returns without reading it while the chip is about to update (UIP).     *)
(***************************************************************************)
DateIsCurrent ==
    (screen = "menu" /\ uie /\ Idle /\ curr_date # ZERO) =>
        curr_date = [sec |-> Sec(now), min |-> Min(now)]

(***************************************************************************)
(* rtc_controller.h says of rtc_set_periodic_500ms "Set periodic           *)
(* interrupts to 500ms": a round does not count more periods than half     *)
(* seconds have passed, but for one that was pending when it began.        *)
(***************************************************************************)
PeriodsAre500ms == (screen = "game" /\ Idle) => Periods <= elapsed + 1

(***************************************************************************)
(* rtc_controller.h says that init_rtc_vars saves the configuration "to    *)
(* restore it later" and reset_rtc "Resets rtc to minix default".          *)
(***************************************************************************)
ClockRestored == at = "done" => (rs = "bios" /\ ~pie /\ ~uie)
=============================================================================
