\* Three releases, two of them with one rules_version.
CONSTANTS
  MaxRelease = 3
  Version <- MCVersion
SPECIFICATION FairSpec
INVARIANT SuccessAgrees
PROPERTIES
  OnlyVerifiedRules
  RulesHeal
