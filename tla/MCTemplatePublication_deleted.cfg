SPECIFICATION Spec
CONSTANTS
  s1 = s1
  s2 = s2
  v1 = v1
  v2 = v2
  Scripts = {s1, s2}
  Versions = {v1, v2}
  MaxFaults = 1
  MaxDefinition = 2
PROPERTY
  NoPublishedTemplateIsDeleted
CHECK_DEADLOCK FALSE
