SPECIFICATION Spec
CONSTANTS
  long = long
  short = short
  blip = blip
  big = big
  other = other
  lying = lying
  s1 = s1
  s2 = s2
  Devices = {"halo", "amazfit"}
  Messages = {long, short, blip, big, other, lying}
  HeaderOf <- Headers
  LengthsOf <- Lengths
  Decodes = {long, short, blip, big, other}
  NoMessage = nomessage
  NoSession = nosession
  MaxMessageBytes = 3
  MaxPending = 2
INVARIANTS TypeOK InputsOfThisConnection AcceptedOnce InOrderAccepted
PROPERTY ImplementsMailbox
CHECK_DEADLOCK FALSE
