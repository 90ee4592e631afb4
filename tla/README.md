# A TLA+ model of the FEUP-LCOM game

The repository holds a first-person shooter for MINIX 3, written in C directly
on the PC's devices (`proj/system`), and the laboratory exercises that led to
it (`lab2` ... `labuart`). This directory models the game: its serial driver
and network protocol, its device drivers, its screens and levels, and what
happens in a level.

## 1. The system

One thread runs everything. `interrupt_handler` (game_manager.c) waits for
kernel notifications and answers the mouse, the keyboard, the serial port, the
real-time clock and the timer in that order; the timer handler runs
`game_handler`, the whole game logic of one 1/60 s tick. Handlers never
interleave with each other. What does happen at any moment is the hardware:
bytes arrive, the transmitter empties, interrupt lines rise. The other source
of concurrency is the second machine of a multiplayer match.

| component | state it keeps | operations | what makes it correct |
|---|---|---|---|
| Queue (`lib/queue.c`) | linked list, `front`, `back` | init, push, pop, front, empty, clean, delete | is a FIFO; no leak, no write through a stale `back` |
| UART driver (`lib/uart.c`, `uart.h`) | `can_send`, `out_fifo`, `in_fifo`, the 16550 | `uart_safe_transmit`, `uart_push_transmit`, `uart_recv_front`, `empty_transmit_queue`, `uart_ih` | bytes in order; no interrupt lost; a busy driver is woken; errors are marked |
| Handshake (`networking/networking.c`) | `state`, `idx`, `tries`, `player` | `uart_sync`, `uart_sync_link`, `uart_sync_connect`, `reset_sync` | two machines never take the same side; nobody waits for ever; a late partner is served |
| Match packets (same file) | `packet_idx`, `bytes`, `packet_tries` | encode/decode, `uart_send_data`, `uart_send_string`, `uart_receive_data` | the copy does what the player did; no false result; a lost partner is noticed |
| Game manager (`game/game_manager.c`) | `state`, `game_timer` | `set_state`, `gm_init_game`, `gm_reset_mp_game`, `update_game_state`, `game_handler` | levels held exactly while played; link and match agree; a round ends |
| Level manager (`game/level_manager.c`) | `map`, `curr_lvl` | `init_game`, `load_level`, `setup_*`, `free_level` | one `free_level` per `load_level` |
| Menus (`game/main_menu.c`, `inventory/menu.c`) | `gun_menu_state` | a function per screen | every screen leads on |
| Real-time clock (`lib/rtc_controller.c`) | PIE/UIE, `pie_state`, date | `rtc_ih`, enable/disable | runs exactly during a round |
| Weapons (`guns/gun.c`) | state, ammunition and packets of each gun | `update_gun_state`, `reload_gun`, `create_gun_instance` | READY means loaded; ammunition in bounds; a gun recovers |
| Player (`player/player.c`) | health, armor, guns, controls | `player_int_ih`, `fire`, `switch_gun`, `update_player_controls` | one gun out; a tap is one shot; shots follow the controls |
| Pickups (`pickups/pickups.c`) | pickups, collision table | `pickup_*`, `pickup_index`, `delete_pickup` | limits respected; taken once |
| Enemy controller (`ai/enemy_controller.c`) | destination, patrol index | `handle_enemy` | the trigger follows its decision |
| Keyboard/mouse controller (`lib/kbc.c`) | the i8042's output buffer, masked lines | `kbc_ih`, `mouse_ih`, polled commands with retries | the set-up ends and starts the mouse; no notification is left without its byte |
| Controls (`controls/controls.c`) | `last_kb_byte`, `lastDoubleByte`, `ms_data`, `ms_idx`, `player.movm` | `handle_kbd_evt`, `handle_mouse_evt` | packets stay framed; controls are what the user does; Escape ends the loop |
| Video (`lib/video_graphics.c`) | three pages and their scanlines | `page_flip`, `put_buffer` | no frame is shown while it is drawn |
| Rendering (`graphics/render.c`) | `renders` on the stack, HUD numbers | `setup_renders`, `renders_insert_sorted`, `render_number` | every object once, far to near; numbers read as their value |
| Map files (`file/map.c`) | `matrix` | `load_map`, `close_map` | what is loaded is freed |
| Entry point (`main.c`) | | `proj_main_loop` | init, loop, free, also after an error |
| Lab 4 (`src/lab4/mouse_state.c`) | the gesture's state and data | `packet_to_event`, `handle_mouse_event` | detects exactly the gestures |
| Timer, sprites, utilities, the other labs | | | register access, pixels, floating point |

Interactions: the timer tick calls the game manager, which calls networking,
enemies, players, rendering (the menus act while they are drawn) and
`update_game_state` in that order. Networking talks to the driver through its
queues only. `set_state` and `free_level` switch the clock's interrupts. The
packets of one machine drive `player_int_ih` of a player on the other.

Hard behaviours, listed with their lines in PROJECT.json ("hazards"): an
edge-triggered interrupt line that must be drained before the handler returns;
`can_send` changed behind the back of a pending interrupt; a handshake whose
sides may leave, return, time out and meet late bytes; packets shifted by a
lost byte; static variables that survive a match; four different ways out of
a match; a round timer tested for exactly zero; guns that are switched, refilled and
emptied in any state; two devices behind one output buffer, polled and by
interrupt; a clock that is read while it moves; pointers into arrays that are
reallocated; and a picture that is shown while the next one is drawn.

## 2. Modules

| module | models | composed with |
|---|---|---|
| `Fifo` | abstract specification of a queue | implemented by `Queue` |
| `Queue` | lib/queue.c on a heap of reusable blocks | refines `Fifo` through `Contents` |
| `Uart` | lib/uart.c, the 16550 and the interrupt controller | |
| `Networking` | uart_sync on two machines, two cables, the multiplayer menu | uses the driver as `Uart` shows it: in order, with a cancellable `out_fifo` |
| `Packets` | the packet stream of a match in one direction | same |
| `GameManager` | screens, levels, link state, round clock | takes from `Networking` which states `uart_sync` can leave, from `Combat` who dies |
| `Combat` | one level: guns, players, bots, pickups, weapon menu | |
| `Match` | the end of a match on two machines | takes packets as units, as `Packets` justifies |
| `Input` | interrupt handlers and decoding of keyboard and mouse | |
| `Kbc` | the polled set-up and shut-down of the keyboard controller | hands over to `Input` |
| `Clock` | the real-time clock chip and rtc_controller.c | has the chip under `GameManager`'s `RtcInterrupt` |
| `Screen` | three video pages | |
| `Level` | memory of a level: load, tick, free | has the pointers under `GameManager`'s `live` |
| `Pickups` | the collision table | says which pickup `Combat` may choose |
| `Patrol` | one bot's round and trigger | decides what `Combat` takes as the bot's controls |
| `Renders` | the drawing order of a frame, digits of the HUD | |
| `Gesture` | lab 4's gesture detector | |
| `MCSerial` | TLC: `Uart` + `Queue` + `Networking` on a clean line | |
| `MCMatch` | TLC: `Packets` + `Match` | |
| `MCGame` | TLC: `GameManager` + `Level` + `Pickups` + `Patrol` + `Renders` | |
| `MCInput` | TLC: `Input` under three sets of constants + `Gesture` | |
| `MCDevices` | TLC: `Screen` + `Kbc` + `Clock` | |
| `MCCombat` | TLC: constants of `Combat` | |
| `SerialProofs` | theorems about `Uart` and `Queue` | extends `MCSerial` |
| `NetworkingProofs` | theorems about `Networking` | extends `Networking` |
| `MatchProofs` | theorems about `Packets` and `Match` | extends `MCMatch` |
| `GameProofs` | theorems about `GameManager`, `Level`, `Patrol`, `Pickups` and `Renders` | extends `MCGame` |
| `CombatProofs` | theorems about `Combat` | extends `Combat` |
| `InputProofs` | theorems about `Input` and `Gesture` | extends `MCInput` |
| `MCInputProofs` | the types of all parts of `MCInput` | extends and instantiates `InputProofs` |
| `DevicesProofs` | theorems about `Screen`, `Kbc` and `Clock` | extends `MCDevices` |

The MC modules put modules that belong to one part of the system side by side
without sharing state. Their variable `part` is chosen in the initial state
and never changes: in a behaviour only that part moves, so a run checks each of
its modules as it is on its own, and the properties of the run are those of
the modules, joined by component. Fairness is stated for the part that moves.
The constants of the module that is extended are in the .cfg file, and so are
those of a module that theorems are about; the others are in the MC module.

State and actions follow the code's names; PROJECT.json maps every definition
to its lines. A property is a conjunction of named parts where one component
promises several things. Operators named `f_<something>` next to an operator `f` are
faulty variants of `f`, used to show that the properties notice them.

**Queue.** A cell is a model value; a freed cell keeps its contents and may be
handed out again by the next push. `queue_pop` and `queue_clean` leave `back`
alone, as in the code. `CellsFrom` is the chain of cells that the links lead
through from a cell to the end (`Chain`), as a loop over the list meets them.

**Uart.** `uart_ih` is split where the chip can move: reading IIR
(`read_iir`), one received byte (`recv_step`), one sent byte (`send_step`).
API calls are atomic because they run in the same thread, and only while
`pc = "idle"`. `Line` is the chip's interrupt output, `Edge` what the 8259
makes of it. Submitted bytes are numbered, so order is a comparison.

**Networking.** One action per tick of `uart_sync`, with the bytes of the
password abstracted to characters, and the cables as sequences. `Timely`
chooses between any relative speed (for safety) and bytes faster than ticks
(for the liveness properties, justified by 9600 baud or more against 60 Hz).

**Packets.** Bytes are numbers, because the framing looks at their bits.
`uart_receive_data` is taken byte by byte (`take_byte`); nothing can happen in
between, since `Deliver` waits for the tick to end. `LocalEffect` and
`RemoteEffect` are what `player_int_ih` makes of the controls on each side.

**GameManager.** The static variables are one record, so that the functions of
the code can be operators that compose in the order of the calls. A tick is
`Handled`: receive, synchronise, display (where the buttons act),
`update_game_state`. `RtcInterrupt` comes only while its source is enabled.

**Combat.** `turn` walks through the calls of a tick. `player_int_ih` is one
operator for the player, the bots and the network player, as in the code. Who
is in the line of fire and who stands on what is a choice. `since` replaces
`time_counter - last_op_tick` and is not counted past the time it is compared
with. `fire` reads `hit` uninitialised when nobody is in range; the outcome
`STRAY` is a null pointer used, which ends the level as "crashed".

**Match.** Both machines at once: the MP_GAME part of `game_handler`, what a
tick sends as one batch, and a cable that may lose batches. Each machine judges
deaths for itself, so who is dead is a choice on each side. Both tick at 60 Hz
(`Skew`), and a batch arrives before its receiver has ticked twice (`Punctual`).

**Input.** The output buffer holds one byte; a notification raised when it
fills stays until the loop takes it. Bits of one message are handled mouse
first, as in the code, and the controller may refill the buffer in between. The
keyboard is scan codes with make, break, repeat and the 0xE0 prefix; a mouse
byte keeps bit 3, the button and where it came from.

**Kbc.** `init_game` and `free_game` are scripts of steps (mask, command,
command with argument, unmask). A status read and the write that follows are
two actions, since the controller may fill its buffer in between.
`write_ms_cmd` retries up to KBC_MAX_TRIES; `Required` is the steps whose error
makes `init_game` return. As in `main.c`, the main loop runs even then.
`count.early` counts what disturbs the set-up, keys and damaged bytes:
`StartsUp` is about set-ups that nothing disturbed.

**Clock.** Flags of register C are set whether enabled or not and cleared
together by a read; the line is edge triggered. `rtc_set_date` is split where
the chip's update cycle can begin. The date is two registers of one bit each;
the other four are read the same way. The history variable `late` is TRUE once
half a second has passed over a waiting notification; only `NoPeriodMissed`
depends on it.

**Level.** A block is named by kind, number and level, so a dangling pointer
is seen even where malloc would reuse the address. `realloc` moves or does not.
The calls of `load_level` and `free_level` are taken one by one from `todo`.

**Pickups.** Positions are multiples of a fraction of a tile, so the circle and
rectangle test is exact. `dummy` is what malloc left in `pickups[0]`.

**Patrol.** Distances, walls and angles are inputs of a tick. **Renders.** The
array starts with anything the stack may hold. **Screen.** A page holds a frame
number or PARTIAL; the card changes pages at a retrace, at any time after it was
asked. **Gesture.** A packet makes one event; histories of the last lines say
what a gesture is without the detector's own variables.

## 3. Runs

| run | question | distinct states |
|---|---|---|
| `serial` | Driver: order (`InOrder`), no lost interrupt, a busy driver is woken, both directions drain (`DriverDrains`), at every interleaving of chip and driver. Queue: heap and `back` (`ListIsSound`), `RefinesFifo`. Handshake on a clean line: the menu is left, a late joiner connects (`HandshakeEnds`). | 105 000 |
| `networking` | Sides are distinct and player 1 never starts alone (`SidesAgree`), at any speed, with leaving, returning, timeouts and two damaged bytes. | 2.6 million |
| `match` | Codec and framing (`CopyFollows`), no result from a lost or damaged byte (`NoFalseResult`); the two machines' results (`ResultsAgree`), nobody is given up who plays (`DisconnectMeansGone`), nobody is left playing (`NobodyPlaysAlone`). | 758 000 |
| `game` | Levels, link and clock (`ScreensAgree`), no dead end (`ScreensGoOn`); pointers and frees (`MemoryIsSound`); the collision table (`PickupsAreFound`); the bot's destination, trigger and round (`ActsOnSight`, `RoundGoesOn`); drawing order and digits (`FrameShowsAll`). | 45 000 |
| `combat` | Guns and ammunition (`GunsAreSound`), taps, death, a gun recovers. | 381 584 |
| `input` | Bytes reach their handler and packets are whole (`BytesAreSorted`), controls follow the user, Escape ends the loop (`EscapeEndsLoop`); lab 4 detects exactly the gestures (`GestureIsExact`). | 1.12 million |
| `devices` | Pages (`WholeFrames`); polling against interrupts (`PollingIsSafe`, `ControllerGoesOn`); the clock's line and registers (`NoDeadLine`, `ClockIsRead`). | 649 000 |
| `uart_errors` (violation) | Is a damaged byte always marked? | |
| `networking_simultaneous` (violation) | Does the sync complete when both join at once? | |
| `game_double_free` (violation) | Is a level freed once? | |
| `game_ghost` (violation) | Is `enemies[0]` the current opponent? | |
| `combat_trigger` (violation) | Do shots follow the controls? | |

### What the violations show

* `uart_errors`: the IIR_STATUS branch of `uart_ih` reads the line status and
  drops it. That read clears the error bits, so the byte that follows is
  queued without UART_ERROR_CODE.
* `networking_simultaneous`: when the two join requests cross, both sides take
  the password's first turn and wait for its second byte; both time out.
* `game_double_free`: a death in a match calls `gm_reset_mp_game` twice.
* `game_ghost`: losing the connection skips `free_level`, so the next match
  appends its opponent behind the old one and talks to the wrong one.
* `combat_trigger`: `shot` starts as `ply->type != PLAYER || ...`, so bots and
  the copy of the network player fire whenever their gun is READY.

### Claims the code does not keep, without a run

These are definitions in their modules, each with a comment that quotes the
claim. TLC violates each with the module's own `Spec`, the constants of the run
that has the module, and those named here.

* `Input!FirstByteDetected` (PayloadSync = {TRUE}, MaxErrors = 1):
  controls.h:102 says `handle_mouse_evt` "Detects invalid first bytes"; bit 3 is
  its only test, and payload bytes may have it. After a dropped byte a packet is
  then made of two reports. `BytesAreSorted` holds for damaged bytes only if no
  payload byte has bit 3.
* `Kbc!RetryFindsAck` (MaxKeys = 1): kbc.h:136 says `write_ms_cmd` "Tries
  multiple times when recieving acknowledgment errors". A scan code read as the
  acknowledgment leaves the real one in the buffer, and `write_arg_kbc`, which
  waits for an empty buffer that nobody empties, fails in every further try.
* `Kbc!OkMeansNoErrors`: level_manager.h:32 says `init_game` returns "OK if no
  errors occurred"; the results of setting rate and resolution are dropped.
* `Clock!PeriodsAre500ms`: `rtc_set_date` writes the BIOS's register A while it
  reads, with periodic interrupts possibly on, so a period of a millisecond may
  be counted as half a second (rtc_controller.h:96).
* `Clock!ClockRestored`: `reset_rtc` leaves the update interrupt enabled; the
  line that restores register B is commented out (rtc_controller.h:112).
* `Pickups!DummyHidesNothing` (Garbage = {[center |-> <<6, 6>>, radius |-> 3]}):
  taken entries become index 0, and `pickups[0]` is never initialised; when it
  seems nearer than a pickup, that one is not found. With the zeroed page of a
  fresh heap, and with a leftover that covers no pickup, which the run has, it
  is found.
* `Level!NoStaleAccess`: `free_level` reads `player.guns` after `free_players`
  freed it (level_manager.h:10: "properly handle the game's memory").
  `MemoryIsSound` counts every other access.
* `Level!LevelFreed`: frames of pickups and guns, sprites of bots and network
  players (`free_player_anims` is never called), the animations of two guns and
  the map's extra line stay allocated after `free_level` (level_manager.h:53:
  "Free memory allocated by load level and setup_game_x"). `LeavesOnlyUnfreed`,
  a part of `MemoryIsSound`, says that nothing else does.
* `Level!NoOverrun`: `load_map` stores one line pointer past the end of `matrix`.
* `Renders!DigitsInside`: `digitize` writes before its array when a number has
  more digits than places (utils.h:61: "Truncates the first digits").
* `Patrol!ShootsSmallAngle`: `player_ang <= 5` has no absolute value, so a
  player far to one side is shot at (enemy_controller.c:123: "If the angle is
  small").
* `GameManager!MpMenuWaits` (`FairSpec`): a lost connection leaves the link
  DISCONNECTED, from where `uart_sync` does nothing: a player who goes back to the
  multiplayer menu, the screen "waiting for connection" (game_manager.h:20), never
  sends a request nor answers one until its exit button sets INIT.
  `HandshakesAgain`, a part of `ScreensGoOn`, is the same promise for every other
  state that the link can be left in.
* `GameManager!MenuHasClock`: `set_state` looks at the state it leaves; after a
  round restarted from the lose screen the main menu's date stands still
  (game_manager.c:38: "Reenabling UIE interrupts when joining the menu").

Seen while modelling, without a definition: `gm_init_game` disables the update
interrupt, and `set_state(GAME)` on leaving MAIN_MENU enables it again, so it
stays on in a game that is started from the menu. A bot can be revived by a
medkit during its death animation. A gun that charges faster than it cools
down can be fired sooner by switching away and back.

### Bounds

* Queue: four cells allow a list whose middle is recycled while `back`
  dangles; the code never looks more than one cell ahead.
* Uart: a packet of three bytes and two single bytes fill, overlap and cancel
  each other; a receive FIFO of two can overrun. The theorems hold for all.
* Networking: `SyncTries = 2` (1800 in the code) is the smallest number with
  which a partner can answer before, at and after the timeout. One user may
  come back once (safety) or twice (liveness). Damaged bytes carry their
  marker here; an unmarked one, which `uart_errors` shows to be possible, can
  be taken for any protocol byte and breaks the agreement of the two sides.
* GameManager: two levels and a round of two half seconds twice, with missing
  maps and lost connections; larger values are covered by the theorems.
* Combat: one foe, two guns (one automatic, one not), magazines of two, one
  packet, health and armor of one, one pickup of each kind. Each counter is
  zero, in between, and at its limit. The times keep the order they have in
  `init_guns`.
* Packets: two matches of two packets, PacketTries = 1, one byte lost or
  damaged. The four controls are chosen so that payload bytes look like headers
  and spell `WIN`. A damaged byte does not become a letter of the two strings: a
  header damaged into `W` before a payload of `I`, `N` does make a false result.
  With two disturbances `NoFalseResult` fails as well: losing the header between
  the bytes `W I` and `N` of two packets makes them a result. After a loss the
  stream can stay shifted as long as payload bytes keep looking like headers.
* Match: PacketTries = 4 is losses (2) and twice the skew (1) together, the
  least that `MatchConstants` admits; the code's 480 exceeds it by far. The
  skew counts twice: one machine may be ahead when it starts to wait and the
  other ahead when it is given up.
* Input: three strokes of W, S and the two Ctrl keys (one prefixed) reach both
  keys of an axis and a release under the other; two strokes of Escape with
  three mouse reports; three strokes of Escape and W with two reports and two
  damaged bytes, so that a stroke, and a byte read as 0, can follow the break
  code of Escape before the loop looks at it.
* Kbc: three tries, two key bytes, four mouse bytes and one error reach every
  step of the scripts at every try; the theorems have no bound.
* Clock: two rounds of two half-second pairs, seconds modulo 4: enough for the
  high register to change while the low one was read.
* Level: three levels in any order; two lines, three bots, two pickups, so that
  a list is reallocated while pointers into it are held.
* Pickups: nine tiles of 4 by 4 positions, four spots (inside a tile, on a
  corner, on an edge, at the border), three pickups in two levels, lists that
  grow by two, and `pickups[0]` zero or with a leftover that no pickup overlaps.
* Patrol: three positions, a timeout of three ticks, angles on both sides of
  both limits. Renders: two people and two pickups at three distances, any
  order; HUD values 0 to 105 in one to three places. Screen: eight frames, more
  than twice round; the theorem has no bound. Gesture: lines of length two, a
  slope looked at after two packets.

### Fairness

* Uart: the chip shifts bytes out, the main loop takes notifications and
  finishes `uart_ih`. Nothing is promised about the API or arriving bytes.
* Networking, Packets: ticks come (the timer interrupt) and the cable delivers
  what is on it. Users need not do anything.
* GameManager: only ticks in which no button is pressed and nobody dies, and
  the periodic interrupt while it is enabled.
* Match: ticks in which nobody dies, and delivery; losses are bounded.
* Input, Kbc: the controller fills its buffer when a device has a byte, and the
  program takes its steps. Patrol: ticks come.
* Combat: the steps of a tick with no key, no button and no pickup; since they
  are disabled by any other step of the same phase, nobody is promised to let
  go of anything.

The runs with `CHECK_DEADLOCK FALSE` are those of systems that may stop: a
bounded number of bytes, visits or matches, a level that is over, a main loop
that was left.

## 4. Proofs

All theorems are checked by TLAPS for every value of the constants that meets
the named assumptions (`UartConstants`, `GameManagerConstants`,
`ScreenConstants`, `CombatConstants`, `PacketsConstants`, `InputConstants`,
`NetworkingConstants`, `NoiseAssumption`, and
those of the modules that an MC module instantiates: `MatchInstances`,
`GestureInstance`, `DevicesConstants`, `QueueInstance`, `GameInstances`). Every inductive
invariant was an invariant of a run of TLC before it was proved.

**Uart** (`SerialProofs`). Order alone is not inductive: that a direct write
does not overtake a queued byte needs `CanSendMeansEmpty`; that needs to know
when `can_send` may be set, which is when the queue is empty at a
transmitter-empty interrupt. `IInv` is the conjunction of `TypeOK`,
`CanSendMeansEmpty`, `QueueOrdered`, `BusyMeansWakeup` and `NoLostInterrupt`;
one step per action, one sub-step per conjunct. `InOrder`, an action property,
follows from `IInv` and `[Next]_vars`. Lemmas about concatenation and tails of
sequences carry the queue part.

**GameManager** (`GameProofs`). A tick is a composition of phases, so
the proof is, too: `SafeGame` is preserved by receiving (`ReceiveSafe`), the
multiplayer menu (`MenuSafe`), and the buttons (`DisplaySafe`), which may
leave an END state (`SafeEnd`), and `update_game_state` settles it
(`UpdateSettles`). The record operations are summarised once, field by field
(`SetStateFields` ... `MissingMapFields`). Beyond the properties, `IInv` needs
`ZeroIsNew`: a round timer of zero has not been seen by a tick yet, which is
why the next decrement cannot come first. `IInv` was model-checked, with and
without lost connections, before it was proved. All of it holds with lost
connections: the history field `abandoned` says that one has left a level
behind, and `LevelIffPlaying` that this is the only way to hold one without
playing, or to load one over another.

`ScreensAgree`, which the run `game` checks, is the four of them together.

**Queue** (`SerialProofs`). Neither the list nor what it holds is a state
variable: both are read off the links. `Whole(s)` says that the cells of `s` are
distinct, that each links to the next and the last to nothing, that `front` and
`back` are its ends and that no other cell is allocated; the invariant is that
there is such an `s`. That the links lead through no other cells than those of
`s` (`ChainUnique`) would be an induction over the list; it is proved with a
least position at which two chains differ (`LeastNat`). With `CellsAre` every operation is then an
operation on `s`, which gives `ListIsSound`, and on the values in its cells,
which gives the refinement: every step of the list is a step of `Fifo` or none.
The number of cells, their values and the recycling of cells are arbitrary.

**Networking** (`NetworkingProofs`). A tick is `sync_cleanup`, `sync_link` and
`sync_connect` one after the other on one machine's record `Local(p)`, and the
proof follows it. `LinkIs` and `ConnectIs` say once what each byte does to
that record, where only `Flow`, the bytes sent and waiting, is kept of the driver;
the rest never opens the C code's cases again.

`TypeOK` needs `NulMarked`: at the end of the password (`idx` 5) the code compares
the byte with the NUL of the string, and a match takes `idx` to 6, out of it. A NUL
comes from a damaged byte only. If it carries its marker, `uart_sync` reads the
marker first, falls back to CLEANUP and drains the NUL. The theorem therefore has the
hypothesis that damaged bytes are marked or never read as NUL. The driver does not
establish it for all damaged bytes (`DamagedIsMarked`).

`SidesAgree` is far from inductive: it speaks of the last byte of an exchange of
about twenty. `Agree(a, x, b, y)` relates how far both machines are (`StageOf`: 0..5
into the password, 10..15 into the response, player 1 or 2, about to join, away)
and all bytes each has yet to read, in `in_fifo`, on the wire or in `out_fifo`
(`To`). While both listen one of them has the turn and reads the only byte
(`Turn`), or both requests crossed (`Twice`), or both wait in vain for the other
(`Silent`); when one has left, what it sent before is all there is (`Left`); one
about to join finds the other without unread bytes of its own (`Rejoins`); and
opposite player 2 the other is at the last byte, starts over or plays as 1
(`Plays`). `TickAgrees`, `OpenAgrees`, `LeaveAgrees`, `TransmitterAgrees` and
`DeliverAgrees` are the steps, `SidesFollow` the conclusion. There are two
theorems, for a line that has damaged nothing (`noise = 0`) and for any number of
tries, any speed of ticks and bytes, any delays and timeouts:

* `SidesAgreeOnce`: when every user opens the multiplayer menu once, without any
  further hypothesis (`Once`: a machine that nobody answers sends one request);
* `SidesAgreeUndamaged`: with users who come back any number of times, if the line
  is `Settled` when one does: no byte is under way but, perhaps, the request of the
  other machine. A byte takes 0.1 ms, a machine reads one at each tick of 17 ms, and
  the way back to the menu takes several clicks. Without the hypothesis the sides
  need not agree, see below.

**Combat** (`CombatProofs`, from `CombatConstants`). `GunsAreSound` and
`GoneIsDead` are not inductive: a gun becomes READY a tick after its last shot
or its reload was decided, and a network player is moved by packets that no
action of this machine guards. `IInv` adds, for every person, that a gun about
to be READY is loaded and that one that is RELOADING has a packet to load, that
the local player is always drawn, and that in a match the opponent is alive
whenever packets come (`OpponentLives`). Lemmas about `update_gun_state`, `fire`,
`switch_gun`, damage and the three pickups are stated once per person and used
for the player, the bots and the network player. Proved for any guns, bots,
pickups and start values. The module has theorems for `TypeOK`, `GunsAreSound` and
`GoneIsDead`, which the run `combat` checks.

**Match** (`MatchProofs`). `ResultsAgree` and `DisconnectMeansGone` follow from
`MatchInv`: a batch with a result on the cable, or already read, says what its
sender has become (`StringsTrue`); a batch is not older than its receiver's last
but one tick (`InTime`); and the batches sent, on the cable and lost account for
the ticks in which one waited, with the skew of the two clocks (`Counted`,
`Ended`). The proof found that `PacketTries` has to exceed the losses by *twice*
the skew; the assumption had it once, which TLC confirms to be too little from a
skew of three on. `CopyFollows` and `NoFalseResult` are proved for a clean line
(`noise = 0`): there the bytes on the line are a sequence of whole items,
packets or strings, of which the receiver has read a prefix of the first
(`Framed`), and the controls that wait in them are those the copy has yet to
follow (`Follows`). That a single lost or damaged byte makes no false result
depends on which bytes are in the packets, and stays with TLC.

**Input** (`InputProofs`). `BytesAreSorted`: a notification and the buffer belong
together (`Owned`), and `ms_data` with what is on its way is a sequence of whole
reports from some point on (`Sorted`). It is proved for lines without damage, and
with damaged bytes when no payload byte has bit 3; with both, the code does
mix reports, see `FirstByteDetected`. `ControlsFollowUser`: what a control will
be after the bytes under way have been handled (`WillBeOn`) is what the keyboard
says, for each key on its own (`KeysFollow`), and the last report of the
mouse tells the button (`ButtonFollows`). The theorem has no hypothesis for stuck
controls and the button. For the movement it has `AxisKeysApart`:
`kbd_parse_data` ignores the prefix E0, so a prefixed key may share its code with
a key of the opposite direction. `GestureIsExact` rests on `Drawn` (the
detector's deltas are those of the lines in the history) and `Faultless`.
`InputTypeOK`, the types of all parts of the run, is `InputTypeCorrect` under each
of the three sets of constants and the bounds of lab 4's detector
(`MCInputProofs`, which instantiates `InputProofs` for that).

**Screen** (`DevicesProofs`). `WholeFrames` alone says nothing of the page that
the card is about to leave. `ScreenInv` adds that the three names stand for three
pages (`PagesDistinct`), that the card was asked for the drawn page and shows it
or the one before (`CardLagsOne`), and what is in each (`PagesWhole`): the page
that is drawn into is then the one the card cannot be showing, whenever the
retrace comes.

**Clock** (`DevicesProofs`). `NoDeadLine` needs that the program is subscribed
from the call of `rtc_ih` in the set-up on (`Listening`): an edge is lost when
update interrupts are enabled before `rtc_subscribe_int`, and only that call
lowers the line again. `DateNotTorn` needs `MomentKept`: while the registers are
read no update ends, so what was read so far is of the moment in which reading
began. `DateIsCurrent` needs that an update that was not read yet is still in
the flags or notified (`Fresh`), and `NoPeriodMissed` that the half seconds that
passed in a round are those that `game_timer` and `pie_state` have counted and
the one in the flags (`Counted`), which needs the rate in register A to be right
whenever periods are counted (`Rates`). Rounds are of any length and number.

**Kbc** (`DevicesProofs`). That polling does not read a notified byte needs
`Masked`: past the first step of either script the lines are masked, and when an
argument is written or an acknowledgment awaited no notification waits, because
the buffer was seen empty on the way. `StartsUp` needs `Answers`: until
data reporting is on, the only byte that an undisturbed mouse has to send is the
acknowledgment that the program waits for. `Placed` says that the program is at
a step of the right kind, and each program step is summarised once (`Onward`,
`Within`, `Again`). Proved for any KBC_MAX_TRIES, keys, movements and errors.

**Level** (`GameProofs`). `MemoryIsSound` is about one access at a time, but
whether a call may touch a block depends on all calls before it: `free_players`
is right because `init_player` came first and nothing freed the array since. The
invariant therefore speaks of the calls that are still to be made. There is a
*stage* for each of them (`Leads`): the number of lines, bots, pickups and guns
that are allocated when its turn comes. A call is possible at its stage
(`Ready`), its own work leads to the next one (`After`), the last stage is a
complete level or none at all (`Ends`), and the blocks there are now are those
of the first stage (`There`). The scripts of `load_level`, its three set-ups and
`free_level` are put together from pieces that lead from a stage to another
(`From`, `FromTwo`), for any number of lines, bots, pickups and levels, and
whether `realloc` moves a list or not. That blocks of earlier levels are only of
the kinds that nothing frees (`LeavesOnlyUnfreed`) needs `HeapInv` besides: no
block is of another kind than those the calls make, a line of the map other than
the extra one is there only together with the matrix, and the first three guns'
animations only while `free_gun_anims` is still to come.

**Patrol** (`GameProofs`). `ActsOnSight` needs to know when a destination may be
stale: a bot heads for the player only while `curr_idx` is -1, and no position or
tile has that number, so the tick that loses sight chooses anew before the timeout,
also when a death came between.

**Pickups** (`GameProofs`). `PickupsInv` says of every list that it names only
pickups that are still there and near (`OnlyLive`), and of every such pickup that
each tile it reaches lists it (`AllListed`); `remove_collision`, which looks at nine
tiles only, needs the first, and the search the second. That the tile a player
stands on is one of those that `add_collision` looked at, and lists the pickup, is
geometry (`OwnTileReached`): a point of a tile is at least as far from the centre as
the closest one (`Closer`), and a circle of at most a tile's radius reaches no
farther than the next tile (`NextTile`). The theorem has the hypothesis
`DummyOutOfReach`, that what malloc left in `pickups[0]` covers no position where a
pickup can be reached. Without it the code does miss pickups, see
`DummyHidesNothing`; a zeroed page and a leftover elsewhere, which the run has,
meet it.

**Renders** (`GameProofs`). `Good` is what holds between two insertions: the used
places hold the expected renders once each, sorted, with every part over the one it
belongs on, and those of the object that is being set up are not nearer than the
part that comes next. `renders_insert_sorted` keeps it (`InsertGood`), since it
moves up only what is nearer (`InsertAt`) and its inner loop, which stops at a
distance of zero, reaches the last one: all used places hold positive distances
(`IsArray`), and the place behind them is read after the last move. `Room` bounds the places used, so
the array suffices. The digits are proved for the one to three places that the code
uses; `Ten` is a table of the powers of ten because the provers know no powers.
`RendersConstants` asks for distances of more than half a step: an armor bar
at the very eye of the player is dropped by `renders_insert_sorted`.

Only model-checked, and why:

* liveness (`DriverDrains`, `HandshakeEnds`, `ScreensGoOn`, `RoundGoesOn`,
  `GunRecovers`, `NobodyPlaysAlone`, `EscapeEndsLoop`, `ControllerGoesOn`): TLAPS
  does not handle fairness and ENABLED here;
* `SidesAgree` with damaged bytes, and with users who come back while bytes are
  under way. The latter is not true for every value of the constants. A
  user who leaves and joins again thirteen times while all the answers `O` of
  the other machine are still on the wire finds in them a password and a
  response, and becomes player 1 alone. That takes bytes that are delayed over
  dozens of ticks, against a line that carries a byte within one; the bounds of
  the run keep it out. After a damaged byte a machine falls back to CLEANUP and
  joins again in the middle of an exchange, so `Settled` cannot be asked for there;
* with noise, `CopyFollows` and `NoFalseResult` (above).

## 5. Assumptions and what is left out

* Kernel calls (`sys_inb`, `sys_outb`, IRQ policies) succeed; malloc does not
  fail. The 16550 and 8259 behave as their data sheets say; emptying the
  transmitter through FCR raises its interrupt again.
* A double free is noticed by the allocator (abort) or not; both are explored.
* The i8042 keeps a full buffer until it is read; the mouse answers a command
  within the polls of `read_byte_kbc`; the MC146818 and the VESA display start
  behave as their data sheets say.
* Floating point geometry (movement, walls, ray casting, vectors of utils.c) is
  left to choices: TLC has no such numbers.
* Pixels, sprites, fonts and the data headers under `data/` have no control to
  check. Setting the video mode and going back to text mode are BIOS calls.
* `.minix-src` is the headers of the operating system, not of this program.
* Labs 2, 3 and 5 and the rest of lab 4 are earlier versions of the drivers in
  `proj/system/lib`. Functions that nothing calls (`enable_remote`,
  `disable_ms`, `read_ms_cmd`, `add_packets`, the clock's alarm) are left out.

## 6. Plan

Done: the driver, handshake, packets, game manager and combat; then input and
the polled controller, matches on two machines, the clock, level memory, the
collision table, patrols, pages, drawing order and lab 4's detector; theorems
about `Uart`, `Queue`, `Networking`, `GameManager`, `Combat`, `Packets`, `Match`,
`Input`, `Gesture`, `Screen`, `Clock`, `Kbc`, `Level`, `Patrol`, `Pickups` and
`Renders`.

Left: the sides after a damaged byte. `Agree` would have to cover a machine that
starts over while the other one is in the middle of the old exchange, for which the
run `networking` finds no disagreement with two such bytes.
