CONSTANTS
  Name = {"web", "db"}
  FreeId = {1, 2}
  Protected = {}
  Template = {}
  DefaultProtected = {}
  DefaultTemplate = {}
  NameOf <- HandMadeNames
SPECIFICATION Spec
INVARIANT ZeroMeansAllManaged
