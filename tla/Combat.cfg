\* One foe (bot or network player), one pickup of each kind, two guns.
CONSTANTS
    NumGuns = 2
    GunType <- MCGunType
    BotGun <- MCBotGun
    NumFoes = 1
    MaxHealth = 1
    MaxArmor = 1
    Pickup <- MCPickup
    Details <- MCDetails
    BotLoad <- MCBotLoad
    StartHealth = 1
    BotArmor = {0}
SPECIFICATION FairSpec
CHECK_DEADLOCK FALSE
INVARIANTS
    TypeOK
    GunsAreSound
    GoneIsDead
PROPERTIES
    TapFiresOnce
    GunRecovers
