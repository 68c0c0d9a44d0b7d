\* One line; every write software can make, in any order.
SPECIFICATION Spec
CONSTANT Lines = {0}
INVARIANT TypeOK
PROPERTIES TriggerLands OnlySoftwareClears NoRelapse EventWakes
