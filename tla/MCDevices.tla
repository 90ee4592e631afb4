------------------------------ MODULE MCDevices -----------------------------
(***************************************************************************)
(* The device drivers beside the serial line, for TLC: the video pages     *)
(* (module Screen), the keyboard controller while it is polled (module     *)
(* Kbc) and the real-time clock (module Clock).  They share no state, and  *)
(* in a behaviour one part moves.                                          *)
(***************************************************************************)
EXTENDS Screen, Sequences

CONSTANTS
    KBC_MAX_TRIES, MaxKeys, MaxReports, MaxErrors,   \* of module Kbc
    RoundTimer, MaxRounds                            \* of module Clock

VARIABLES
    part,
    pc, failed, masked, irq, obf, keys, mq, mouse, count,
    rs, pie, uie, pf, uf, now, half, uip, late, subscribed, noti, where, screen, config_a,
    config, curr_date, begun, risky, game_timer, pie_state, elapsed, rounds

K == INSTANCE Kbc
C == INSTANCE Clock WITH at <- where

ASSUME DevicesConstants == K!KbcConstants /\ C!ClockConstants

kbc == <<pc, failed, masked, irq, obf, keys, mq, mouse, count>>
clock == <<rs, pie, uie, pf, uf, now, half, uip, late, subscribed, noti, where, screen, config_a,
           config, curr_date, begun, risky, game_timer, pie_state, elapsed, rounds>>

MCInit ==
    /\ part \in {"screen", "kbc", "clock"}
    /\ Init /\ K!Init /\ C!Init
    /\ part # "clock" => ~pf /\ ~uf

MCNext ==
    \/ part = "screen" /\ Next /\ UNCHANGED <<part, kbc, clock>>
    \/ part = "kbc" /\ K!Next /\ UNCHANGED <<part, vars, clock>>
    \/ part = "clock" /\ C!Next /\ UNCHANGED <<part, vars, kbc>>

\* The fairness of module Kbc, for the behaviours in which it moves.
MCFairness == WF_kbc(part = "kbc" /\ K!Controller) /\ WF_kbc(part = "kbc" /\ K!Program)

MCSpec == MCInit /\ [][MCNext]_<<part, vars, kbc, clock>> /\ MCFairness

-----------------------------------------------------------------------------
(***************************************************************************)
(* The variables of the three drivers have their types: page_flip stays    *)
(* within three pages, the attempts of write_ms_cmd stay below             *)
(* KBC_MAX_TRIES, and rtc_ih counts pie_state in 0 and 1.                  *)
(***************************************************************************)
DevicesTypeOK == TypeOK /\ K!TypeOK /\ C!TypeOK

(***************************************************************************)
(* Polling, interrupts and the mouse share one buffer and do not get into  *)
(* each other's way: a notification that waits still finds its own byte,   *)
(* which the polling functions of kbc.c could have read; and as long as no *)
(* key is touched and no byte damaged, init_game does not return early,    *)
(* even when the mouse moves as soon as enable_data_reporting lets it.     *)
(***************************************************************************)
PollingIsSafe == K!NotifiedByteIsThere /\ K!StartsUp

(***************************************************************************)
(* The controller is never stuck: init_game and free_game come to an end   *)
(* whatever the devices do, because write_ms_cmd gives up after            *)
(* KBC_MAX_TRIES; and in a game that started up no byte stays in the       *)
(* output buffer, where it would block both devices.                       *)
(***************************************************************************)
ControllerGoesOn == part = "kbc" => K!PollingEnds /\ K!LoopHears

(***************************************************************************)
(* The clock never goes dead: no edge of its line falls between            *)
(* enable_uie_int and rtc_subscribe_int, or while rtc_ih runs, without a   *)
(* notification or another reading of register C.                          *)
(***************************************************************************)
NoDeadLine == C!NoDeadLine

(***************************************************************************)
(* The date on the menu is one moment's: no update of the chip falls       *)
(* between the registers that rtc_set_date reads. It is that of the last   *)
(* second whenever the update interrupt is on and no notification waits.   *)
(* And a main loop that answers within half a second misses no half second *)
(* of a round, when a period and an update fall together, too.             *)
(***************************************************************************)
ClockIsRead == C!DateNotTorn /\ C!DateIsCurrent /\ C!NoPeriodMissed
=============================================================================
