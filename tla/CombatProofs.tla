---------------------------- MODULE CombatProofs ----------------------------
(***************************************************************************)
(* Theorems about module Combat, for any guns, pickups and number of bots. *)
(***************************************************************************)
EXTENDS Combat, WellFoundedInduction, TLAPS

(***************************************************************************)
(* What update_gun_state relies on: a gun that is about to be READY is     *)
(* loaded, and one that is being reloaded has a packet to take.            *)
(***************************************************************************)
GunOK(g, data) ==
    /\ g \in GunInstance
    /\ g.state \in {"CHARGING", "READY", "COOLDOWN"} => g.ammo > 0
    /\ g.state = "RELOADING" => g.packets > 0
    /\ g.ammo <= data.ammo_per_packet /\ g.packets <= data.max_packets

\* A person whose guns are of the types that G gives.
PlayerOK(q, G) ==
    /\ q \in Player
    /\ \A i \in 1..NumGuns : GunOK(q.guns[i], G[i])
    /\ \A i \in 1..NumGuns : q.guns[i].state = "INVENTORY" <=> i # q.gun_index
    /\ ~q.should_render => q.health = 0

Guns(p) == [i \in 1..NumGuns |-> gun(p, i)]

\* While a match is on, its network player is alive when packets come.
OpponentLives ==
    mode = "MP_GAME" /\ level = "on" /\ turn \in {"timer", "player"} => ply[1].health > 0

PeopleOK == \A p \in Person : PlayerOK(ply[p], Guns(p))

IInv == TypeOK /\ PeopleOK /\ ply[0].should_render /\ OpponentLives

-----------------------------------------------------------------------------
(* Operators on one gun.                                                   *)

\* gun_t's are what the constants say.
LEMMA GunsTyped == \A p \in Person : Guns(p) \in [1..NumGuns -> GunData]
  BY CombatConstants DEF Guns, gun

\* Enter changes the state and the time only.
LEMMA EnterFields ==
    ASSUME NEW g \in GunInstance, NEW s \in GunState
    PROVE  /\ Enter(g, s) \in GunInstance
           /\ Enter(g, s).state = s /\ Enter(g, s).ammo = g.ammo
           /\ Enter(g, s).packets = g.packets
  BY DEF Enter, GunInstance

\* reload_gun fills the magazine if there is a packet.
LEMMA ReloadFields ==
    ASSUME NEW g \in GunInstance, NEW data \in GunData, g.packets > 0
    PROVE  /\ reload_gun(g, data) \in GunInstance
           /\ reload_gun(g, data).ammo = data.ammo_per_packet
           /\ reload_gun(g, data).packets = g.packets - 1
<1>1. reload_gun(g, data) = [g EXCEPT !.packets = @ - 1, !.ammo = data.ammo_per_packet]
  BY DEF reload_gun
<1>2. data.ammo_per_packet \in Nat /\ g.packets - 1 \in Nat
  BY DEF GunInstance, GunData
<1> QED
  BY <1>1, <1>2 DEF GunInstance

\* A tick of the timer leaves a gun as good as it was.
LEMMA OlderOK ==
    ASSUME NEW data \in GunData, NEW g, GunOK(g, data)
    PROVE  GunOK(Older(g, data), data) /\ Older(g, data).state = g.state
<1>1. wait(g.state, data) \in Nat
  BY DEF wait, GunData
<1> QED
  BY <1>1 DEF Older, GunOK, GunInstance

\* update_gun_state mends a READY gun whose last bullet was just fired.
LEMMA UpdateOK ==
    ASSUME NEW data \in GunData, NEW h \in GunInstance, NEW shot \in BOOLEAN,
           h.state \in {"CHARGING", "COOLDOWN"} => h.ammo > 0,
           h.state = "RELOADING" => h.packets > 0,
           h.ammo <= data.ammo_per_packet, h.packets <= data.max_packets
    PROVE  /\ GunOK(update_gun_state(h, data, shot), data)
           /\ update_gun_state(h, data, shot).state = "INVENTORY" <=> h.state = "INVENTORY"
<1> DEFINE u == update_gun_state(h, data, shot)
<1>e. h.ammo \in Nat /\ h.packets \in Nat /\ h.state \in GunState
  BY DEF GunInstance
<1> HIDE DEF u
<1>2. CASE h.state = "INITIAL"
  <2>1. u = IF h.ammo = 0 THEN EmptyGun(h) ELSE Enter(h, "CHARGING")
    BY <1>2 DEF u, update_gun_state
  <2> QED
    BY <1>e, <1>2, <2>1, EnterFields DEF EmptyGun, GunOK, GunState, u
<1>3. CASE h.state \in {"CHARGING", "COOLDOWN"}
  <2>1. u = Enter(h, "READY") \/ u = h
    BY <1>3 DEF u, update_gun_state
  <2> QED
    BY <1>3, <2>1, EnterFields DEF GunOK, GunState, u
<1>4. CASE h.state = "READY"
  <2>1. u = (IF h.ammo = 0 THEN EmptyGun(h) ELSE IF shot THEN Enter(h, "COOLDOWN") ELSE h)
    BY <1>4 DEF u, update_gun_state
  <2>2. CASE h.ammo = 0
    BY <1>e, <1>4, <2>1, <2>2, EnterFields DEF EmptyGun, GunOK, GunState, u
  <2>3. CASE h.ammo # 0
    BY <1>e, <1>4, <2>1, <2>3, EnterFields DEF GunOK, GunState, u
  <2> QED
    BY <2>2, <2>3
<1>6. CASE h.state = "RELOADING"
  <2>1. u = Enter(reload_gun(h, data), "READY") \/ u = h
    BY <1>6 DEF u, update_gun_state
  <2> QED
    BY <1>e, <1>6, <2>1, EnterFields, ReloadFields DEF GunOK, GunState, GunData, u
<1>7. CASE h.state = "NO_AMMO"
  <2>1. u = IF h.packets # 0 THEN Enter(h, "RELOADING") ELSE h
    BY <1>7 DEF u, update_gun_state
  <2> QED
    BY <1>e, <1>7, <2>1, EnterFields DEF GunOK, GunState, u
<1>8. CASE h.state = "INVENTORY"
  <2>1. u = h
    BY <1>8 DEF u, update_gun_state
  <2> QED
    BY <1>8, <2>1 DEF GunOK, u
<1> QED
  BY <1>e, <1>2, <1>3, <1>4, <1>6, <1>7, <1>8 DEF GunState

\* Firing takes a bullet, and update_gun_state comes right after it.
LEMMA FireOK ==
    ASSUME NEW data \in GunData, NEW g, GunOK(g, data), NEW bullet \in BOOLEAN,
           NEW shot \in BOOLEAN, bullet => g.state = "READY" /\ g.ammo > 0
    PROVE  LET u == update_gun_state(IF bullet THEN [g EXCEPT !.ammo = @ - 1] ELSE g, data, shot)
           IN  GunOK(u, data) /\ (u.state = "INVENTORY" <=> g.state = "INVENTORY")
<1> DEFINE h == IF bullet THEN [g EXCEPT !.ammo = @ - 1] ELSE g
<1>1. g \in GunInstance
  BY DEF GunOK
<1>2. h \in GunInstance /\ h.state = g.state /\ h.packets = g.packets
      /\ (bullet => h.ammo = g.ammo - 1) /\ (~bullet => h.ammo = g.ammo)
  BY <1>1 DEF GunInstance
<1> HIDE DEF h
<1>3. /\ h.state \in {"CHARGING", "COOLDOWN"} => h.ammo > 0
      /\ h.state = "RELOADING" => h.packets > 0
      /\ h.ammo <= data.ammo_per_packet /\ h.packets <= data.max_packets
  <2>1. g.ammo \in Nat /\ data.ammo_per_packet \in Nat
    BY <1>1 DEF GunInstance, GunData
  <2> QED
    BY <1>2, <2>1 DEF GunOK
<1>4. /\ GunOK(update_gun_state(h, data, shot), data)
      /\ update_gun_state(h, data, shot).state = "INVENTORY" <=> h.state = "INVENTORY"
  BY <1>2, <1>3, UpdateOK
<1> QED
  BY <1>2, <1>4 DEF h

-----------------------------------------------------------------------------
(* Operators on one person.                                                *)

\* A set of numbers that is not empty has a least one.
LEMMA LeastExists ==
    ASSUME NEW S \in SUBSET Nat, S # {}
    PROVE  \E j \in S : \A k \in S : j <= k
<1>1. PICK x \in S : \A y \in S : ~(<<y, x>> \in OpToRel(<, Nat))
  BY NatLessThanWellFounded, WFMin
<1>2. \A y \in S : ~(y < x)
  BY <1>1 DEF OpToRel
<1> QED
  BY <1>2

\* switch_gun puts one gun away and takes another one out.
LEMMA SwitchOK ==
    ASSUME NEW G \in [1..NumGuns -> GunData], NEW q, PlayerOK(q, G), NEW i \in 1..NumGuns
    PROVE  PlayerOK(switch_gun(q, i), G) /\ switch_gun(q, i).health = q.health
<1>1. CASE q.gun_index = i
  BY <1>1 DEF switch_gun
<1>2. CASE q.gun_index # i
  <2> DEFINE r == switch_gun(q, i)
             k == q.gun_index
  <2>1. q \in Player /\ k \in 1..NumGuns /\ q.guns \in [1..NumGuns -> GunInstance]
    BY DEF PlayerOK, Player
  <2>2. /\ Enter(q.guns[k], "INVENTORY") \in GunInstance
        /\ Enter(q.guns[i], "INITIAL") \in GunInstance
    BY <2>1, EnterFields DEF GunState
  <2>3. /\ r \in Player /\ r.gun_index = i /\ r.health = q.health
        /\ r.should_render = q.should_render
        /\ r.guns = [q.guns EXCEPT ![k] = Enter(@, "INVENTORY"), ![i] = Enter(@, "INITIAL")]
    BY <1>2, <2>1, <2>2 DEF switch_gun, Player
  <2> HIDE DEF r
  <2>4. ASSUME NEW j \in 1..NumGuns
        PROVE  /\ GunOK(r.guns[j], G[j])
               /\ r.guns[j].state = "INVENTORY" <=> j # i
    <3>1. GunOK(q.guns[j], G[j]) /\ (q.guns[j].state = "INVENTORY" <=> j # k)
      BY DEF PlayerOK
    <3>2. CASE j = k
      <4>1. r.guns[j] = Enter(q.guns[j], "INVENTORY") /\ q.guns[j] \in GunInstance
        BY <1>2, <2>1, <2>3, <3>2
      <4> QED
        BY <1>2, <3>1, <3>2, <4>1, EnterFields DEF GunOK, GunState
    <3>3. CASE j = i
      <4>1. r.guns[j] = Enter(q.guns[j], "INITIAL") /\ q.guns[j] \in GunInstance
        BY <1>2, <2>1, <2>3, <3>3
      <4> QED
        BY <3>1, <3>3, <4>1, EnterFields DEF GunOK, GunState
    <3>4. CASE j # i /\ j # k
      BY <2>1, <2>3, <3>1, <3>4
    <3> QED
      BY <3>2, <3>3, <3>4
  <2> QED
    BY <2>3, <2>4 DEF PlayerOK, r
<1> QED
  BY <1>1, <1>2

\* update_player_controls touches the buttons only.
LEMMA UpdateControlsOK ==
    ASSUME NEW G, NEW q, PlayerOK(q, G), NEW lb \in BOOLEAN
    PROVE  /\ PlayerOK(update_player_controls(q, lb), G)
           /\ update_player_controls(q, lb).health = q.health
<1> DEFINE r == update_player_controls(q, lb)
<1>1. q \in Player
  BY DEF PlayerOK
<1>2. /\ r \in Player /\ r.guns = q.guns /\ r.gun_index = q.gun_index
      /\ r.health = q.health /\ r.should_render = q.should_render
  BY <1>1 DEF update_player_controls, Player
<1> QED
  BY <1>2 DEF PlayerOK

\* Half of what the armor does not stop, rounded towards zero.
LEMMA HalfInRange ==
    ASSUME NEW armor \in Nat, NEW max \in Nat, armor <= max, NEW damage \in Nat
    PROVE  /\ 2 * armor - damage >= 0 => ((2 * armor - damage) \div 2) \in 0..max
           /\ 2 * armor - damage < 0 => ((-(2 * armor - damage)) \div 2) \in Nat
<1> DEFINE twice == 2 * armor - damage
<1>1. twice \in Int /\ twice <= 2 * max
  OBVIOUS
<1> HIDE DEF twice
<1>2. \A t \in Nat : (t \div 2) \in Nat /\ 2 * (t \div 2) <= t
  OBVIOUS
<1>3. twice >= 0 => (twice \div 2) \in 0..max
  BY <1>1, <1>2
<1>4. twice < 0 => ((-twice) \div 2) \in Nat
  BY <1>1, <1>2
<1> QED
  BY <1>3, <1>4 DEF twice

\* A bullet takes armor and health within their limits, and revives nobody.
LEMMA DamagedOK ==
    ASSUME NEW G, NEW q, PlayerOK(q, G), NEW damage \in Nat
    PROVE  /\ PlayerOK(damaged(q, damage), G)
           /\ damaged(q, damage).should_render = q.should_render
<1> DEFINE r == damaged(q, damage)
           twice == 2 * q.armor - damage
           kept == twice \div 2
           hurt == IF q.armor = 0 THEN damage ELSE (-twice) \div 2
           rest == IF q.health > hurt THEN q.health - hurt ELSE 0
<1>1. q \in Player /\ q.armor \in 0..MaxArmor /\ q.health \in 0..MaxHealth
  BY DEF PlayerOK, Player
<1>2. /\ twice >= 0 => kept \in 0..MaxArmor
      /\ twice < 0 => ((-twice) \div 2) \in Nat
  <2>1. q.armor \in Nat /\ q.armor <= MaxArmor /\ MaxArmor \in Nat
    BY <1>1, CombatConstants
  <2> QED
    BY <2>1, HalfInRange
<1>3. twice \in Int
  BY <1>1, CombatConstants
<1>4. /\ r \in Player /\ r.guns = q.guns /\ r.gun_index = q.gun_index
      /\ r.health <= q.health /\ r.should_render = q.should_render
  <2>1. CASE q.armor > 0 /\ twice >= 0
    <3>1. r = [q EXCEPT !.armor = kept] /\ kept \in 0..MaxArmor
      BY <1>2, <2>1 DEF damaged
    <3> HIDE DEF kept, r
    <3> QED
      BY <1>1, <3>1 DEF Player
  <2>2. CASE ~(q.armor > 0 /\ twice >= 0)
    <3>1. hurt \in Nat
      <4>1. q.armor # 0 => twice < 0
        BY <1>1, <1>3, <2>2, CombatConstants
      <4> QED
        BY <1>2, <4>1
    <3>2. r = [q EXCEPT !.armor = 0, !.health = rest]
      BY <2>2 DEF damaged
    <3> HIDE DEF hurt, r
    <3>3. rest \in 0..MaxHealth /\ rest <= q.health /\ 0 \in 0..MaxArmor
      BY <1>1, <3>1, CombatConstants
    <3> HIDE DEF rest
    <3> QED
      BY <1>1, <3>2, <3>3 DEF Player
  <2> QED
    BY <2>1, <2>2
<1> HIDE DEF r
<1>5. r.health = 0 \/ q.health # 0
  BY <1>1, <1>4 DEF Player
<1> QED
  BY <1>4, <1>5 DEF PlayerOK, r

\* pickup_ammo fills one gun's packets up to its limit.
LEMMA PickupAmmoOK ==
    ASSUME NEW p \in Person, NEW q, PlayerOK(q, Guns(p)),
           NEW d, d.amount \in Nat
    PROVE  /\ PlayerOK(pickup_ammo(q, p, d).q, Guns(p))
           /\ pickup_ammo(q, p, d).q.health = q.health
           /\ pickup_ammo(q, p, d).q.should_render = q.should_render
<1> DEFINE of == {i \in 1..(IF type(p) = "BOT" THEN 1 ELSE NumGuns) :
                    gun(p, i).ammo_index = d.ammo_index}
           c == CHOOSE j \in of : \A k \in of : j <= k
           r == pickup_ammo(q, p, d).q
           sum == q.guns[c].packets + d.amount
           new == IF sum > gun(p, c).max_packets THEN gun(p, c).max_packets ELSE sum
<1>1. q \in Player /\ q.guns \in [1..NumGuns -> GunInstance]
  BY DEF PlayerOK, Player
<1>2. CASE of = {}
  BY <1>2 DEF pickup_ammo
<1>3. CASE of # {}
  <2>1. of \in SUBSET Nat /\ of \subseteq 1..NumGuns
    BY CombatConstants
  <2>2. c \in 1..NumGuns
    <3>1. \E j \in of : \A k \in of : j <= k
      BY <1>3, <2>1, LeastExists
    <3> QED
      BY <2>1, <3>1
  <2>3. r = q \/ r = [q EXCEPT !.guns[c].packets = new]
    BY <1>3 DEF pickup_ammo
  <2> HIDE DEF c
  <2>4. /\ GunOK(q.guns[c], gun(p, c)) /\ gun(p, c) \in GunData
        /\ q.guns[c] \in GunInstance /\ q.guns[c].packets \in Nat
        /\ gun(p, c).max_packets \in Nat /\ q.guns[c].packets <= gun(p, c).max_packets
    BY <1>1, <2>2, GunsTyped DEF PlayerOK, Guns, GunOK, GunInstance, GunData
  <2>5. new \in Nat /\ new >= q.guns[c].packets /\ new <= gun(p, c).max_packets
    BY <2>4
  <2> HIDE DEF new
  <2>6. CASE r = [q EXCEPT !.guns[c].packets = new]
    <3> DEFINE g == [q.guns[c] EXCEPT !.packets = new]
    <3>1. /\ g \in GunInstance /\ g.state = q.guns[c].state /\ g.ammo = q.guns[c].ammo
          /\ g.packets = new
      BY <2>4, <2>5 DEF GunInstance
    <3> HIDE DEF g
    <3>2. r = [q EXCEPT !.guns = [q.guns EXCEPT ![c] = g]]
      BY <2>6 DEF g
    <3> HIDE DEF r
    <3>3. /\ r \in Player /\ r.guns = [q.guns EXCEPT ![c] = g] /\ r.health = q.health
          /\ r.gun_index = q.gun_index /\ r.should_render = q.should_render
      BY <1>1, <2>2, <3>1, <3>2 DEF Player
    <3>4. GunOK(g, gun(p, c))
      BY <2>4, <2>5, <3>1 DEF GunOK
    <3>5. \A i \in 1..NumGuns : GunOK(r.guns[i], Guns(p)[i])
                                /\ r.guns[i].state = q.guns[i].state
      BY <1>1, <2>2, <3>1, <3>3, <3>4 DEF PlayerOK, Guns
    <3> QED
      BY <3>3, <3>5 DEF PlayerOK, r
  <2> QED
    BY <2>3, <2>6
<1> QED
  BY <1>2, <1>3

\* A medkit and armor stay within their limits.
LEMMA PickupBodyOK ==
    ASSUME NEW G, NEW q, PlayerOK(q, G), NEW d, d.amount \in Nat
    PROVE  /\ PlayerOK(pickup_armor(q, d).q, G) /\ pickup_armor(q, d).q.health = q.health
           /\ pickup_medkit(q, d).q.health >= q.health
           /\ (q.should_render => PlayerOK(pickup_medkit(q, d).q, G))
           /\ pickup_armor(q, d).q.should_render = q.should_render
           /\ pickup_medkit(q, d).q.should_render = q.should_render
<1> DEFINE more == IF q.health + d.amount > MaxHealth THEN MaxHealth ELSE q.health + d.amount
           iron == IF q.armor + d.amount > MaxArmor THEN MaxArmor ELSE q.armor + d.amount
<1>1. q \in Player /\ q.armor \in 0..MaxArmor /\ q.health \in 0..MaxHealth
  BY DEF PlayerOK, Player
<1>2. more \in 0..MaxHealth /\ more >= q.health /\ iron \in 0..MaxArmor
  BY <1>1, CombatConstants
<1>3. /\ pickup_medkit(q, d).q = [q EXCEPT !.health = more]
      /\ pickup_armor(q, d).q = [q EXCEPT !.armor = iron]
  BY DEF pickup_medkit, pickup_armor
<1> HIDE DEF more, iron
<1>4. /\ PlayerOK([q EXCEPT !.armor = iron], G) /\ [q EXCEPT !.armor = iron].health = q.health
      /\ [q EXCEPT !.armor = iron].should_render = q.should_render
  BY <1>1, <1>2 DEF PlayerOK, Player
<1>5. /\ [q EXCEPT !.health = more].health = more
      /\ [q EXCEPT !.health = more].should_render = q.should_render
      /\ q.should_render => PlayerOK([q EXCEPT !.health = more], G)
  BY <1>1, <1>2 DEF PlayerOK, Player
<1> QED
  BY <1>2, <1>3, <1>4, <1>5

\* Whatever a person stands on, collecting it keeps the person in order.
LEMMA PickupOK ==
    ASSUME NEW p \in Person, NEW q, PlayerOK(q, Guns(p)), q.should_render,
           left \subseteq Pickup, NEW under
    PROVE  /\ PlayerOK(pickup_index(q, p, under).q, Guns(p))
           /\ pickup_index(q, p, under).q.health >= q.health
           /\ pickup_index(q, p, under).q.should_render
<1>1. q.health \in Nat
  BY CombatConstants DEF PlayerOK, Player
<1>2. CASE under \notin left
  BY <1>1, <1>2 DEF pickup_index
<1>3. CASE under \in left
  <2> DEFINE d == Details[under]
  <2>1. d.kind \in {"ammo", "medkit", "armor"} /\ d.amount \in Nat
    BY <1>3, CombatConstants
  <2> HIDE DEF d
  <2>2. pickup_index(q, p, under) = pickup_handler(q, p, d)
    BY <1>3 DEF pickup_index, d
  <2>3. CASE d.kind = "ammo"
    BY <1>1, <2>1, <2>2, <2>3, PickupAmmoOK DEF pickup_handler
  <2>4. CASE d.kind = "medkit"
    BY <1>1, <2>1, <2>2, <2>4, PickupBodyOK DEF pickup_handler
  <2>5. CASE d.kind = "armor"
    BY <1>1, <2>1, <2>2, <2>5, PickupBodyOK DEF pickup_handler
  <2> QED
    BY <2>1, <2>3, <2>4, <2>5
<1> QED
  BY <1>2, <1>3

-----------------------------------------------------------------------------
(* The steps of a tick.                                                    *)

\* player_int_ih: p collects, fires and advances its gun; somebody is hit.
LEMMA PlayerIntOK ==
    ASSUME TypeOK, PeopleOK, NEW p \in Person, NEW q0, PlayerOK(q0, Guns(p)), q0.should_render,
           NEW under, NEW ended \in BOOLEAN, player_int_ih(p, q0, under, ended)
    PROVE  /\ ply' \in [Person -> Player] /\ left' \subseteq Pickup
           /\ level' \in {level, "crashed"}
           /\ \A x \in Person : PlayerOK(ply'[x], Guns(x))
           /\ ply'[p].health >= q0.health
           /\ p = 0 => ply'[p].should_render
           /\ \A x \in Person \ {p} : ply'[x].should_render = ply[x].should_render
<1> DEFINE pick == pickup_index(q0, p, under)
           q == pick.q
           k == q.gun_index
           data == gun(p, k)
           g == q.guns[k]
           shot == trigger(p, q) /\ g.state = "READY"
           bullet == shot /\ g.ammo > 0
           u == update_gun_state(IF bullet THEN [g EXCEPT !.ammo = @ - 1] ELSE g, data, shot)
           seen == q.should_render /\ ~(p # 0 /\ q.health = 0 /\ ended)
           after == [q EXCEPT !.guns[k] = u, !.should_render = seen]
<1>1. PICK hit \in IF bullet THEN Shot(p) ELSE {NOBODY} :
        /\ ply' = [x \in Person |-> CASE x = p -> after
                                      [] x # p /\ x = hit -> damaged(ply[x], data.damage)
                                      [] OTHER -> ply[x]]
        /\ left' = IF pick.taken THEN left \ {under} ELSE left
        /\ level' = IF hit = STRAY THEN "crashed" ELSE level
  BY DEF player_int_ih
<1>2. PlayerOK(q, Guns(p)) /\ q.health >= q0.health
  BY PickupOK DEF TypeOK
<1> HIDE DEF pick, q
<1>3. /\ q \in Player /\ k \in 1..NumGuns /\ q.guns \in [1..NumGuns -> GunInstance]
      /\ q.should_render \in BOOLEAN /\ q.health \in 0..MaxHealth
  BY <1>2 DEF PlayerOK, Player
<1>4. data \in GunData /\ data = Guns(p)[k] /\ data.damage \in Nat
  BY <1>3, GunsTyped DEF Guns, GunData
<1>5. GunOK(g, data)
  BY <1>2, <1>3, <1>4 DEF PlayerOK
<1> HIDE DEF data
<1>6. GunOK(u, data) /\ (u.state = "INVENTORY" <=> g.state = "INVENTORY")
  <2>1. bullet \in BOOLEAN /\ shot \in BOOLEAN /\ (bullet => g.state = "READY" /\ g.ammo > 0)
    OBVIOUS
  <2> HIDE DEF bullet, shot, g
  <2> QED
    BY <1>4, <1>5, <2>1, FireOK
<1> HIDE DEF u
<1>7. /\ after \in Player /\ after.guns = [q.guns EXCEPT ![k] = u]
      /\ after.gun_index = k /\ after.health = q.health /\ after.should_render = seen
  <2>1. u \in GunInstance
    BY <1>6 DEF GunOK
  <2>2. seen \in BOOLEAN
    BY <1>3
  <2> HIDE DEF seen
  <2> QED
    BY <1>3, <2>1, <2>2 DEF Player
<1> HIDE DEF after
<1>8. PlayerOK(after, Guns(p))
  <2>1. \A i \in 1..NumGuns : /\ GunOK(after.guns[i], Guns(p)[i])
                              /\ after.guns[i].state = "INVENTORY" <=> i # k
    BY <1>2, <1>3, <1>4, <1>6, <1>7 DEF PlayerOK
  <2>2. ~seen => q.health = 0
    BY <1>2 DEF PlayerOK
  <2> QED
    BY <1>7, <2>1, <2>2 DEF PlayerOK
<1>9. ASSUME NEW x \in Person
      PROVE  /\ PlayerOK(ply'[x], Guns(x)) /\ ply'[x] \in Player
             /\ x # p => ply'[x].should_render = ply[x].should_render
  <2>1. PlayerOK(ply[x], Guns(x))
    BY DEF PeopleOK
  <2>2. CASE x = p
    <3>1. ply'[x] = after
      BY <1>1, <2>2
    <3> QED
      BY <1>8, <2>2, <3>1 DEF PlayerOK
  <2>3. CASE x # p /\ x = hit
    <3>1. ply'[x] = damaged(ply[x], data.damage)
      BY <1>1, <2>3
    <3>2. PlayerOK(ply'[x], Guns(x)) /\ ply'[x].should_render = ply[x].should_render
      BY <1>4, <2>1, <3>1, DamagedOK
    <3> QED
      BY <3>2 DEF PlayerOK
  <2>4. CASE x # p /\ x # hit
    <3>1. ply'[x] = ply[x]
      BY <1>1, <2>4
    <3> QED
      BY <2>1, <3>1 DEF PlayerOK
  <2> QED
    BY <2>2, <2>3, <2>4
<1>10. ply'[p] = after
  BY <1>1
<1>11. q.should_render = TRUE
  BY PickupOK DEF TypeOK, q, pick
<1> QED
  BY <1>1, <1>2, <1>7, <1>9, <1>10, <1>11 DEF TypeOK

\* The guns are those of the level until it ends.
LEMMA GunsStay == ASSUME mode' = mode PROVE \A p \in Person : Guns(p)' = Guns(p)
  BY DEF Guns, gun, type

\* The keys and buttons of a person leave it in order.
LEMMA ControlsOK ==
    ASSUME PeopleOK, NEW p \in Person, NEW lb \in BOOLEAN, NEW keys \in SUBSET (1..NumGuns)
    PROVE  /\ PlayerOK(controls(p, lb, keys), Guns(p))
           /\ controls(p, lb, keys).health = ply[p].health
           /\ ply[p].should_render => controls(p, lb, keys).should_render
<1> DEFINE first == CHOOSE k \in keys : \A j \in keys : k <= j
           q == IF keys = {} THEN ply[p] ELSE switch_gun(ply[p], first)
<1>1. PlayerOK(ply[p], Guns(p)) /\ Guns(p) \in [1..NumGuns -> GunData]
  BY GunsTyped DEF PeopleOK
<1>2. keys # {} => first \in 1..NumGuns
  <2>1. keys # {} => \E k \in keys : \A j \in keys : k <= j
    BY LeastExists, CombatConstants
  <2> QED
    BY <2>1
<1> HIDE DEF first
<1>3. /\ PlayerOK(q, Guns(p)) /\ q.health = ply[p].health
      /\ q.should_render = ply[p].should_render
  <2>1. CASE keys = {}
    BY <1>1, <2>1
  <2>2. CASE keys # {}
    <3>1. switch_gun(ply[p], first).should_render = ply[p].should_render
      BY <1>1 DEF switch_gun, PlayerOK, Player
    <3> QED
      BY <1>1, <1>2, <2>2, <3>1, SwitchOK
  <2> QED
    BY <2>1, <2>2
<1>4. controls(p, lb, keys) = update_player_controls(q, lb)
  BY DEF controls, first
<1> HIDE DEF q
<1>5. update_player_controls(q, lb).should_render = q.should_render
  BY <1>3 DEF update_player_controls, PlayerOK, Player
<1> QED
  BY <1>3, <1>4, <1>5, UpdateControlsOK

\* The people a level begins with are in order.
LEMMA InitPlayerOK ==
    ASSUME NEW G \in [1..NumGuns -> GunData], NEW health \in 1..MaxHealth,
           NEW armor \in 0..MaxArmor, NEW guns \in [1..NumGuns -> GunInstance],
           \A i \in 1..NumGuns : GunOK(guns[i], G[i]) /\ guns[i].state = "INVENTORY"
    PROVE  /\ PlayerOK(init_player(health, armor, guns), G)
           /\ init_player(health, armor, guns).health = health
           /\ init_player(health, armor, guns).should_render
<1> DEFINE q == init_player(health, armor, guns)
           e == Enter(guns[1], "INITIAL")
<1>1. 1 \in 1..NumGuns
  BY CombatConstants
<1>2. e \in GunInstance /\ e.state = "INITIAL" /\ e.ammo = guns[1].ammo
      /\ e.packets = guns[1].packets
  BY <1>1, EnterFields DEF GunState
<1>3. /\ q.guns = [guns EXCEPT ![1] = e] /\ q.gun_index = 1 /\ q.health = health
      /\ q.should_render = TRUE
  BY DEF init_player
<1> HIDE DEF e
<1>4. q \in Player
  BY <1>1, <1>2, CombatConstants DEF init_player, Player, e
<1> HIDE DEF q
<1>5. \A i \in 1..NumGuns : GunOK(q.guns[i], G[i]) /\ (q.guns[i].state = "INVENTORY" <=> i # 1)
  BY <1>1, <1>2, <1>3 DEF GunOK
<1> QED
  BY <1>3, <1>4, <1>5 DEF PlayerOK, q

\* create_gun_instance cuts what it is given.
LEMMA CreateOK ==
    ASSUME NEW data \in GunData, NEW ammo \in Nat, NEW packets \in Nat
    PROVE  /\ GunOK(create_gun_instance(data, ammo, packets), data)
           /\ create_gun_instance(data, ammo, packets) \in GunInstance
           /\ create_gun_instance(data, ammo, packets).state = "INVENTORY"
<1>1. data.ammo_per_packet \in Nat /\ data.max_packets \in Nat
  BY DEF GunData
<1> QED
  BY <1>1 DEF create_gun_instance, GunOK, GunInstance, GunState

\* setup_game_1, setup_game_2 and setup_multiplayer meet the invariant.
LEMMA InitHolds == Init => IInv
<1> SUFFICES ASSUME Init PROVE IInv
  OBVIOUS
<1>1. /\ Unloaded \in [1..NumGuns -> GunInstance] /\ Loaded \in [1..NumGuns -> GunInstance]
      /\ \A i \in 1..NumGuns : /\ GunOK(Unloaded[i], GunType[i])
                               /\ GunOK(Loaded[i], GunType[i])
                               /\ Unloaded[i].state = "INVENTORY"
                               /\ Loaded[i].state = "INVENTORY"
  <2>1. GunType \in [1..NumGuns -> GunData] /\ 2 \in 1..NumGuns
        /\ GunType[2].ammo_per_packet \in Nat
    <3>1. GunType \in [1..NumGuns -> GunData] /\ 2 \in 1..NumGuns
      BY CombatConstants
    <3>2. GunType[2] \in GunData
      BY <3>1
    <3> QED
      BY <3>1, <3>2 DEF GunData
  <2>2. /\ Unloaded \in [1..NumGuns -> GunInstance]
        /\ \A i \in 1..NumGuns : GunOK(Unloaded[i], GunType[i])
                                 /\ Unloaded[i].state = "INVENTORY"
    <3>1. ASSUME NEW i \in 1..NumGuns
          PROVE  /\ GunOK(create_gun_instance(GunType[i], 0, 0), GunType[i])
                 /\ create_gun_instance(GunType[i], 0, 0) \in GunInstance
                 /\ create_gun_instance(GunType[i], 0, 0).state = "INVENTORY"
      <4>1. GunType[i] \in GunData /\ 0 \in Nat
        BY <2>1
      <4> QED
        BY <4>1, CreateOK
    <3> QED
      BY <3>1 DEF Unloaded
  <2> DEFINE c == create_gun_instance(GunType[2], GunType[2].ammo_per_packet, 1)
  <2>3. GunOK(c, GunType[2]) /\ c \in GunInstance /\ c.state = "INVENTORY"
    BY <2>1, CreateOK
  <2>4. Loaded = [Unloaded EXCEPT ![2] = c]
    BY DEF Loaded
  <2> HIDE DEF c
  <2> QED
    BY <2>1, <2>2, <2>3, <2>4
<1>2. GunType \in [1..NumGuns -> GunData] /\ 1 \in 1..NumFoes /\ 0 \in Person /\ 1 \in Person
      /\ 2 \in 1..NumGuns
      /\ MaxHealth \in 1..MaxHealth /\ 0 \in 0..MaxArmor /\ StartHealth \in 1..MaxHealth
  BY CombatConstants DEF Person
<1>3. CASE mode = "GAME"
  <2>1. PICK player \in {init_player(StartHealth, 0, Unloaded),
                         switch_gun(init_player(StartHealth, 0, Loaded), 2)},
             armor \in BotArmor, load \in BotLoad :
          ply = [p \in Person |-> IF p = 0 THEN player
                   ELSE init_player(MaxHealth, armor, [i \in 1..NumGuns |->
                          create_gun_instance(BotGun, load.ammo, load.packets)])]
    BY <1>3 DEF Init, setup_game
  <2> DEFINE b == [i \in 1..NumGuns |-> create_gun_instance(BotGun, load.ammo, load.packets)]
             B == [i \in 1..NumGuns |-> BotGun]
  <2>2. PlayerOK(player, GunType) /\ player.should_render
    <3>1. /\ PlayerOK(init_player(StartHealth, 0, Unloaded), GunType)
          /\ init_player(StartHealth, 0, Unloaded).should_render
      BY <1>1, <1>2, InitPlayerOK
    <3> DEFINE l == init_player(StartHealth, 0, Loaded)
    <3>2. PlayerOK(l, GunType) /\ l.should_render
      BY <1>1, <1>2, InitPlayerOK
    <3> HIDE DEF l
    <3>3. switch_gun(l, 2).should_render = l.should_render
      BY <3>2 DEF switch_gun, PlayerOK, Player
    <3>4. PlayerOK(switch_gun(l, 2), GunType)
      BY <1>2, <3>2, SwitchOK
    <3> QED
      BY <2>1, <3>1, <3>2, <3>3, <3>4 DEF l
  <2>3. PlayerOK(init_player(MaxHealth, armor, b), B)
    <3>1. BotGun \in GunData /\ load.ammo \in Nat /\ load.packets \in Nat /\ armor \in 0..MaxArmor
      BY <2>1, CombatConstants
    <3>2. /\ B \in [1..NumGuns -> GunData] /\ b \in [1..NumGuns -> GunInstance]
          /\ \A i \in 1..NumGuns : GunOK(b[i], B[i]) /\ b[i].state = "INVENTORY"
      BY <3>1, CreateOK
    <3> HIDE DEF b, B
    <3> QED
      BY <1>2, <3>1, <3>2, InitPlayerOK
  <2>4. Guns(0) = GunType /\ \A p \in Person \ {0} : Guns(p) = B
    BY <1>2, <1>3 DEF Guns, gun, type
  <2> HIDE DEF B
  <2>5. PeopleOK
    BY <2>1, <2>2, <2>3, <2>4 DEF PeopleOK
  <2>6. ply \in [Person -> Player]
    BY <2>1, <2>2, <2>3 DEF PlayerOK
  <2>7. ply[0].should_render
    BY <1>2, <2>1, <2>2
  <2> QED
    BY <1>2, <1>3, <2>5, <2>6, <2>7 DEF Init, IInv, TypeOK, OpponentLives
<1>4. CASE mode = "MP_GAME"
  <2> DEFINE i0 == init_player(MaxHealth, 0, Unloaded)
  <2>1. ply = [p \in Person |-> i0]
    BY <1>4 DEF Init, setup_multiplayer
  <2>2. PlayerOK(i0, GunType) /\ i0.health = MaxHealth /\ i0.should_render
    BY <1>1, <1>2, InitPlayerOK
  <2> HIDE DEF i0
  <2>3. \A p \in Person : Guns(p) = GunType
    BY <1>2, <1>4 DEF Guns, gun, type
  <2>4. PeopleOK /\ ply \in [Person -> Player]
    BY <2>1, <2>2, <2>3 DEF PeopleOK, PlayerOK
  <2>5. ply[0].should_render /\ ply[1].health > 0
    BY <1>2, <2>1, <2>2, CombatConstants
  <2> QED
    BY <1>2, <2>4, <2>5 DEF Init, IInv, TypeOK, OpponentLives
<1> QED
  BY <1>3, <1>4 DEF Init

\* Every call of a tick preserves it.
LEMMA NextHolds == IInv /\ [Next]_vars => IInv'
<1> SUFFICES ASSUME IInv, [Next]_vars PROVE IInv'
  OBVIOUS
<1>0. /\ TypeOK /\ PeopleOK /\ ply[0].should_render /\ OpponentLives
      /\ 0 \in Person /\ 1 \in Person /\ NumFoes \in Nat \ {0}
  BY CombatConstants DEF IInv, Person
<1>1. ASSUME NEW pulls \in SUBSET Foes, StartTick(pulls)
      PROVE  IInv'
  <2> DEFINE h(p) == IF type(p) = "BOT" THEN p \in pulls /\ Alive(p) ELSE ply[p].held
             f(p) == [i \in 1..NumGuns |-> Older(ply[p].guns[i], gun(p, i))]
  <2>1. ply' = [p \in Person |-> [ply[p] EXCEPT !.guns = f(p), !.held = h(p)]]
    BY <1>1 DEF StartTick
  <2>2. ASSUME NEW p \in Person
        PROVE  /\ PlayerOK(ply'[p], Guns(p)) /\ ply'[p].health = ply[p].health
               /\ ply'[p].should_render = ply[p].should_render
    <3>1. PlayerOK(ply[p], Guns(p)) /\ ply[p] \in Player
      BY <1>0 DEF PeopleOK, PlayerOK
    <3>2. h(p) \in BOOLEAN
      BY <3>1 DEF Player
    <3>3. ASSUME NEW i \in 1..NumGuns
          PROVE  /\ GunOK(f(p)[i], Guns(p)[i])
                 /\ f(p)[i].state = ply[p].guns[i].state
      <4>1. Guns(p)[i] \in GunData /\ Guns(p)[i] = gun(p, i) /\ GunOK(ply[p].guns[i], gun(p, i))
        BY <3>1, GunsTyped DEF PlayerOK, Guns
      <4> QED
        BY <4>1, OlderOK
    <3>4. f(p) \in [1..NumGuns -> GunInstance]
      BY <3>3 DEF GunOK
    <3>5. ply'[p] = [ply[p] EXCEPT !.guns = f(p), !.held = h(p)]
      BY <2>1
    <3> HIDE DEF f, h
    <3>6. /\ ply'[p] \in Player /\ ply'[p].guns = f(p) /\ ply'[p].gun_index = ply[p].gun_index
          /\ ply'[p].health = ply[p].health /\ ply'[p].should_render = ply[p].should_render
      BY <3>1, <3>2, <3>4, <3>5 DEF Player
    <3> QED
      BY <3>1, <3>3, <3>6 DEF PlayerOK
  <2> HIDE DEF f, h
  <2>3. PeopleOK'
    BY <1>1, <2>2, GunsStay DEF StartTick, PeopleOK, Person
  <2>4. ply' \in [Person -> Player]
    BY <2>1, <2>2 DEF PlayerOK
  <2>5. TypeOK'
    BY <1>0, <1>1, <2>4 DEF TypeOK, StartTick, Person
  <2>6. ply'[0].should_render /\ OpponentLives'
    BY <1>0, <1>1, <2>2 DEF StartTick, OpponentLives
  <2> QED
    BY <2>3, <2>5, <2>6 DEF IInv
<1>2. ASSUME NEW lb \in BOOLEAN, NEW keys \in Keys, NEW under \in Under,
             PlayerTurn(lb, keys, under)
      PROVE  IInv'
  <2> DEFINE q0 == controls(0, lb, keys)
  <2>1. PlayerOK(q0, Guns(0)) /\ q0.should_render
    BY <1>0, ControlsOK DEF Keys
  <2>2. player_int_ih(0, q0, under, FALSE) /\ mode' = mode
    BY <1>2 DEF PlayerTurn
  <2> HIDE DEF q0
  <2>3. /\ ply' \in [Person -> Player] /\ left' \subseteq Pickup
        /\ level' \in {level, "crashed"}
        /\ \A x \in Person : PlayerOK(ply'[x], Guns(x))
        /\ ply'[0].should_render
    BY <1>0, <2>1, <2>2, PlayerIntOK
  <2>4. PeopleOK'
    BY <2>2, <2>3, GunsStay DEF PeopleOK, Person
  <2>5. TypeOK'
    BY <1>0, <1>2, <2>3 DEF TypeOK, PlayerTurn, Person
  <2>6. OpponentLives'
    BY <1>2, <2>2 DEF PlayerTurn, OpponentLives
  <2> QED
    BY <2>3, <2>4, <2>5, <2>6 DEF IInv
<1>3. ASSUME NEW under \in Under, NEW ended \in BOOLEAN, bot_int_ih(under, ended)
      PROVE  IInv'
  <2>1. bot \in Person /\ bot # 0 /\ bot \in 1..NumFoes /\ mode' = mode
        /\ gun_menu_state' = gun_menu_state
    BY <1>0, <1>3 DEF TypeOK, Person, bot_int_ih
  <2>2. /\ turn' \in {"bots", "end"} /\ bot' \in 1..NumFoes
    BY <1>0, <1>3, <2>1 DEF bot_int_ih
  <2>3. /\ ply' \in [Person -> Player] /\ left' \subseteq Pickup
        /\ level' \in {level, "crashed"}
        /\ \A x \in Person : PlayerOK(ply'[x], Guns(x))
        /\ ply'[0].should_render
    <3>1. CASE ply[bot].should_render
      <4>1. player_int_ih(bot, ply[bot], under, ended) /\ PlayerOK(ply[bot], Guns(bot))
        BY <1>0, <1>3, <2>1, <3>1 DEF bot_int_ih, PeopleOK
      <4> QED
        BY <1>0, <2>1, <3>1, <4>1, PlayerIntOK
    <3>2. CASE ~ply[bot].should_render
      BY <1>0, <1>3, <3>2 DEF bot_int_ih, TypeOK, PeopleOK
    <3> QED
      BY <3>1, <3>2
  <2>4. PeopleOK'
    BY <2>1, <2>3, GunsStay DEF PeopleOK, Person
  <2>5. TypeOK'
    BY <1>0, <2>1, <2>2, <2>3 DEF TypeOK, Person
  <2>6. OpponentLives'
    BY <2>2 DEF OpponentLives
  <2> QED
    BY <2>3, <2>4, <2>5, <2>6 DEF IInv
<1>4. ASSUME NEW gun_menu \in BOOLEAN, NEW button \in MenuButton, NEW ends \in BOOLEAN,
             EndTick(gun_menu, button, ends)
      PROVE  IInv'
  <2> DEFINE t == ply[0].tap /\ ~gun_menu
             q == [ply[0] EXCEPT !.tap = t]
             r == IF button \in 1..NumGuns THEN switch_gun(q, button) ELSE q
  <2>1. ply' = [ply EXCEPT ![0] = r] /\ mode' = mode
    BY <1>4 DEF EndTick, RenderGame
  <2>2. PlayerOK(ply[0], Guns(0)) /\ ply[0] \in Player /\ t \in BOOLEAN
    BY <1>0 DEF PeopleOK, PlayerOK
  <2> HIDE DEF t
  <2>3. PlayerOK(q, Guns(0)) /\ q.should_render
    <3>1. /\ q \in Player /\ q.guns = ply[0].guns /\ q.gun_index = ply[0].gun_index
          /\ q.health = ply[0].health /\ q.should_render = ply[0].should_render
      BY <2>2 DEF Player
    <3> QED
      BY <1>0, <2>2, <3>1 DEF PlayerOK
  <2> HIDE DEF q
  <2>4. PlayerOK(r, Guns(0)) /\ r.should_render
    <3>1. CASE button \in 1..NumGuns
      <4>1. switch_gun(q, button).should_render = q.should_render
        BY <2>3 DEF switch_gun, PlayerOK, Player
      <4>2. Guns(0) \in [1..NumGuns -> GunData]
        BY <1>0, GunsTyped
      <4> QED
        BY <2>3, <3>1, <4>1, <4>2, SwitchOK
    <3>2. CASE button \notin 1..NumGuns
      BY <2>3, <3>2
    <3> QED
      BY <3>1, <3>2
  <2> HIDE DEF r
  <2>5. /\ ply' \in [Person -> Player] /\ ply'[0] = r
        /\ \A x \in Person \ {0} : ply'[x] = ply[x]
    BY <1>0, <2>1, <2>4 DEF TypeOK, PlayerOK
  <2>6. PeopleOK'
    <3>1. \A x \in Person : PlayerOK(ply'[x], Guns(x))
      BY <1>0, <2>4, <2>5 DEF PeopleOK
    <3> QED
      BY <2>1, <3>1, GunsStay DEF PeopleOK, Person
  <2>7. TypeOK'
    BY <1>0, <1>4, <2>5 DEF TypeOK, EndTick, RenderGame, Person
  <2>8. OpponentLives'
    <3>1. ply'[1] = ply[1] /\ ply[1].health \in Nat
      BY <1>0, <2>5, CombatConstants DEF TypeOK, Player
    <3>2. mode = "MP_GAME" /\ level' = "on" => ply[1].health > 0
      BY <1>4 DEF EndTick, Alive
    <3> QED
      BY <2>1, <3>1, <3>2 DEF OpponentLives
  <2> QED
    BY <2>4, <2>5, <2>6, <2>7, <2>8 DEF IInv
<1>5. ASSUME NEW lb \in BOOLEAN, NEW gun_down \in 0..NumGuns, NEW under \in Under,
             NEW ended \in BOOLEAN, Packet(lb, gun_down, under, ended)
      PROVE  IInv'
  <2> DEFINE keys == {gun_down} \ {0}
             q0 == controls(1, lb, keys)
  <2>1. keys \in SUBSET (1..NumGuns)
    BY CombatConstants
  <2>2. player_int_ih(1, q0, under, ended) /\ mode' = mode
    BY <1>5 DEF Packet
  <2>3. ply[1].health > 0 /\ ply[1].should_render
    <3>1. ply[1].health > 0
      BY <1>0, <1>5 DEF Packet, OpponentLives
    <3>2. ply[1] \in Player /\ (~ply[1].should_render => ply[1].health = 0)
      BY <1>0 DEF PeopleOK, PlayerOK
    <3> QED
      BY <3>1, <3>2
  <2> HIDE DEF keys
  <2>4. PlayerOK(q0, Guns(1)) /\ q0.should_render /\ q0.health = ply[1].health
    BY <1>0, <2>1, <2>3, ControlsOK
  <2> HIDE DEF q0
  <2>5. /\ ply' \in [Person -> Player] /\ left' \subseteq Pickup
        /\ level' \in {level, "crashed"}
        /\ \A x \in Person : PlayerOK(ply'[x], Guns(x))
        /\ ply'[0].should_render /\ ply'[1].health >= q0.health
    BY <1>0, <2>2, <2>4, PlayerIntOK
  <2>6. PeopleOK'
    BY <2>2, <2>5, GunsStay DEF PeopleOK, Person
  <2>7. TypeOK'
    BY <1>0, <1>5, <2>5 DEF TypeOK, Packet, Person
  <2>8. OpponentLives'
    <3>1. ply[1].health \in Int /\ ply'[1].health \in Int
      BY <1>0, <2>5, CombatConstants DEF TypeOK, Player
    <3> QED
      BY <2>3, <2>4, <2>5, <3>1 DEF OpponentLives
  <2> QED
    BY <2>5, <2>6, <2>7, <2>8 DEF IInv
<1>6. CASE MatchEnds
  BY <1>0, <1>6, GunsStay DEF MatchEnds, IInv, TypeOK, PeopleOK, OpponentLives, Person
<1>7. CASE UNCHANGED vars
  BY <1>0, <1>7, GunsStay DEF vars, IInv, TypeOK, PeopleOK, OpponentLives, Person
<1> QED
  BY <1>1, <1>2, <1>3, <1>4, <1>5, <1>6, <1>7 DEF Next, Tick

-----------------------------------------------------------------------------
\* The inductive invariant holds in every reachable state.
THEOREM CombatInvariant == Spec => []IInv
  BY InitHolds, NextHolds, PTL DEF Spec

(***************************************************************************)
(* Every reachable state of a level is well typed: health and armor stay   *)
(* within their limits whatever bullets and pickups do to them.            *)
(***************************************************************************)
THEOREM CombatTypeCorrect == Spec => []TypeOK
  BY CombatInvariant, PTL DEF IInv

(***************************************************************************)
(* In every reachable state a READY gun is loaded, one gun is out and      *)
(* ammunition is within its limits, for any guns, number of bots, pickups  *)
(* and start of a level: fire, switch_gun, update_gun_state and            *)
(* pickup_ammo have no order that breaks this.                             *)
(***************************************************************************)
THEOREM CombatGunsAreSound == Spec => []GunsAreSound
<1>1. IInv => GunsAreSound
  <2> SUFFICES ASSUME IInv, NEW p \in Person, NEW i \in 1..NumGuns
               PROVE  /\ ply[p].guns[i].state = "READY" => ply[p].guns[i].ammo > 0
                      /\ ply[p].guns[i].state = "INVENTORY" <=> i # ply[p].gun_index
                      /\ ply[p].guns[i].ammo <= gun(p, i).ammo_per_packet
                      /\ ply[p].guns[i].packets <= gun(p, i).max_packets
    BY DEF GunsAreSound, ReadyIsLoaded, OneGunOut, AmmoInBounds
  <2> QED
    BY DEF IInv, PeopleOK, PlayerOK, GunOK, Guns
<1> QED
  BY <1>1, CombatInvariant, PTL

(***************************************************************************)
(* Only the dead disappear, also when a bot collects a medkit during its   *)
(* death animation, and in a match, whose network player is alive whenever *)
(* a packet moves it.                                                      *)
(***************************************************************************)
THEOREM CombatGoneIsDead == Spec => []GoneIsDead
<1>1. IInv => GoneIsDead
  BY DEF IInv, PeopleOK, PlayerOK, GoneIsDead
<1> QED
  BY <1>1, CombatInvariant, PTL
=============================================================================
