SPECIFICATION Spec
CONSTANTS
  l1 = l1
  l2 = l2
  w1 = w1
  d1 = d1
  d2 = d2
  m1 = m1
  m2 = m2
  r1 = r1
  x = x
  y = y
  Labs <- TwoLabs
  Wips <- OneWip
  WipLab <- LabOfWip
  DispatchIds <- TwoDispatches
  MachineIds <- TwoMachines
  RecipeIds <- OneRecipe
  ItemKinds <- TwoItems
  Planners <- TwoPlanners
  Statuses <- OneStatus
  WipActions <- Leaving
SYMMETRY Alike
INVARIANTS
  TypeOK
  WipKeepsPace
  CheckInAssigned
PROPERTIES
  AssignedFits
