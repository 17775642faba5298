SPECIFICATION MCSpec
CONSTANTS
  Custom = {"c1"}
  Worker = {w1, w2}
  Machine = {m1}
  Manifests = {"ownManifest"}
  Bootfiles <- MCBootfiles
  Configured <- MCConfigured
  MaxChanges = 3
SYMMETRY MCSymmetry
INVARIANTS
  TypeOK
  DefaultAlwaysServed
  NotFoundExplained
  SelectionDurable
