\* Twelve addresses; at most two references held by the program.
SPECIFICATION Spec
CONSTANTS
  o1 = o1
  o2 = o2
  o3 = o3
  o4 = o4
  o5 = o5
  o6 = o6
  o7 = o7
  o8 = o8
  o9 = o9
  o10 = o10
  o11 = o11
  o12 = o12
  Object <- Objects
  Null = Null
  Name <- Names
  Wanted = {"device", "document"}
  MaxHeld = 2
  MaxCount = 6
INVARIANTS TypeOK RefsExact CodeStays OneOfEach NameRestored UnusedMayGo
