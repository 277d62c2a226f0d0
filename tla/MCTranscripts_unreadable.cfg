SPECIFICATION Spec
CONSTANTS
  a = a
  Paths <- OnePath
  Window = 2
  KindOf <- Claude
  StartSizes = {0, 1, 2, 3}
  Inodes = {1}
  Faults <- Reading
  MaxSize = 3
  MaxPartial = 1
PROPERTY NothingInvented
