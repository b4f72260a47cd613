SPECIFICATION Spec
CONSTANT Scripts = {"kernel"}
INVARIANTS
  DeletingIsEnough
