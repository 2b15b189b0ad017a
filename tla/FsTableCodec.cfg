SPECIFICATION Spec
CONSTANTS
  text1 = text1
  text2 = text2
  song1 = song1
  song2 = song2
  c1 = c1
  c2 = c2
  Clients = {c1}
  ExtOrder <- WithBinary
  DefaultExt = "siml"
  DomainExts = {}
  Values = {text1, text2}
  InferredExt <- Inferred
  Texts = {text1, text2}
  FoundExts = {"simb"}
  NoExt = noExt
  Absent = absent
  Garbage = garbage
  NoCall = noCall
INVARIANT LeavesDecode
