\* Four handles on three descriptors: the table fills up and numbers come back.
SPECIFICATION Spec
CONSTANTS
  Handles = {h1, h2, h3, h4}
  MaxFds = 3
SYMMETRY HandleSymmetry
INVARIANT OwnedIsOpen
INVARIANT OneOwner
INVARIANT NoLeak
