CONSTANTS
  Task = {t1, t2}
  Fd = {0}
  Sb = {s1, s2, s3, s4, s5}
  Disk = {d1, d2, d3}
  p1 = p1
  p2 = p2
  p3 = p3
  Partitions <- ThreeParts
  PartMounts <- MCPartMounts
  OpenPaths <- MCOpenPaths
  MaxMounts = 5
  NULL = NULL
SPECIFICATION Spec
INVARIANT MountShowsPartition
