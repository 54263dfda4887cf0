\* One command at a time, two users whose files share a name.
SPECIFICATION Spec
CONSTANTS
  alice = alice
  bob = bob
  c1 = c1
  c2 = c2
  c3 = c3
  c4 = c4
  phone = phone
  laptop = laptop
  m1 = m1
  m2 = m2
  Credential = {c1, c2, c4}
  User = {alice, bob}
  File = {phone, laptop}
  Owner <- OwnerOf
  YamlFile <- FileOf
  Command = {m1}
INVARIANTS NoStrayYaml FailureKeepsYaml CheckRaisesNoFalseAlarm
PROPERTIES CommitIsVerified
