SPECIFICATION Spec
CONSTANTS
  NoConfig = NoConfig
  Addresses <- MCAddresses
  Versions <- MCVersions
  Shipped = "v1"
  Invocations <- MCInvocations
  OwnConfigs <- MCOwnConfigs
  MaxPasswords = 2
INVARIANTS TypeOK PasswordKept HostByProduct OptionsTakeEffect
