CONSTANTS
  FilteredTypes = 2
  Elements = {0, 1, 64}
  Markets = {1, 2}
  Users = {1, 2}

SPECIFICATION Spec

INVARIANTS
  FilterDecides
  NeverMistaken
  FieldsWhole
  FilledFromOwnCall
