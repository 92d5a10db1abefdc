SPECIFICATION FairStatusSpec
CONSTANTS
  s1 = s1
  s2 = s2
  AccountSyncs = {s1, s2}
  Kinds = {"equity"}
  Interventions = {"RESTRICTED"}
PROPERTIES OperatorHolds BreachRestricts
