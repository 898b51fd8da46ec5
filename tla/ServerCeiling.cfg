SPECIFICATION MCSpec
CONSTANTS
  r1 = r1
  r2 = r2
  Loop = loop
  Requests = {r1, r2}
  Cooldown = 3
  NoOpCooldown = 1
  LastMinute = 5
  alice = alice
  bob = bob
  Addresses = {alice, bob}
  Lookups = {r1, r2}
  PerHour = 2
  Hour = 2
  ProfileTTL = 1
  ProfileMax = 1
  JobTicks = 0
  LookupTTL = 0
  Tokens = {"usdt", "usdc"}
  Rpcs <- MCRpcs
  Worlds <- AllWorlds
  Faults <- MCFaults
  KeyChanges = 1
INVARIANTS JobsPerHour
CHECK_DEADLOCK FALSE
