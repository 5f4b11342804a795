CONSTANTS
  Writers = {w1, w2}
  Modes = {"queue", "xml"}
  FmqNSlots = {2, 3}
  MaxTime <- SecondsByMode
  MaxWrites = 4
  MaxFaults <- FaultsByInstance
SPECIFICATION LdataSpec
PROPERTIES NeverBack SkipsOnlyWhenLost GetsLatest GetsXmlLatest
