SPECIFICATION Spec
CONSTANTS
  MaxSlot = 6
  MaxPicture = 7
  Templates <- AllTemplates
  Events <- AllEvents
  Shoots <- AllShoots
  Sample <- FixtureSize
CHECK_DEADLOCK FALSE
INVARIANTS TypeOK PicturesFit  CompositeComplete
