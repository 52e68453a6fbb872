CONSTANTS
  Roles = {core, interactive}
  Owners = {o1, o2}
  MaxFaults = 2
  Legacy = FALSE
SPECIFICATION FairSpec
INVARIANTS OwnerKept RolesSound
PROPERTIES NothingInterrupted ProvisioningEnds
