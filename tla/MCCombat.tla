----------------------------- MODULE MCCombat -------------------------------
(***************************************************************************)
(* The levels of module Combat for TLC.  The times keep the order they     *)
(* have in init_guns: the automatic minigun cools down faster than it      *)
(* charges, the BLMG charges faster than it cools down, and reloading      *)
(* takes longest.                                                          *)
(***************************************************************************)
EXTENDS Combat

Minigun == [automatic |-> TRUE, charge_time |-> 2, cooldown_time |-> 1, reload_time |-> 3,
            damage |-> 1, ammo_per_packet |-> 2, max_packets |-> 1, ammo_index |-> 0]

BLMG == [automatic |-> FALSE, charge_time |-> 1, cooldown_time |-> 2, reload_time |-> 3,
         damage |-> 3, ammo_per_packet |-> 2, max_packets |-> 1, ammo_index |-> 1]

MCGunType == <<Minigun, BLMG>>

MCBotGun == [automatic |-> TRUE, charge_time |-> 0, cooldown_time |-> 1, reload_time |-> 1,
             damage |-> 1, ammo_per_packet |-> 1, max_packets |-> 1, ammo_index |-> 0]

MCPickup == {"ammo", "medkit", "armor"}
MCDetails == [ammo |-> [kind |-> "ammo", amount |-> 2, ammo_index |-> 0],
              medkit |-> [kind |-> "medkit", amount |-> 1, ammo_index |-> 0],
              armor |-> [kind |-> "armor", amount |-> 1, ammo_index |-> 0]]

\* create_gun_instance(3, 30, 2), and the first bot of level 1, which has the
\* player's empty gun.
MCBotLoad == {[ammo |-> 2, packets |-> 1], [ammo |-> 0, packets |-> 0]}
=============================================================================
