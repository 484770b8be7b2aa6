CONSTANTS
  s1 = s1  s2 = s2  i1 = i1  i2 = i2  i3 = i3
  Slots = {s1, s2}
  Inodes = {i1, i2, i3}
  NoFile = NoFile
  Torn = Torn
  Keep = Keep
  MaxVersion = 2
  MaxFails = 1
SYMMETRY Symmetric
SPECIFICATION JarSpec
INVARIANTS JarTypeOK LoneSavesAreWhole IdleJarIsSaved
