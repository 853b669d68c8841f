CONSTANTS
  Name = {"web", "db"}
  FreeId = {1}
  Protected = {2}
  Template = {}
  DefaultProtected = {}
  DefaultTemplate = {2}
  NameOf <- HandMadeNames
SPECIFICATION Spec
INVARIANTS
  TypeOK
  ZeroMeansSettled
PROPERTY
  InnocentSpared
