CONSTANTS
    Waves = {0, 1}
    Programs <- MCPrograms
SPECIFICATION Spec
INVARIANTS
    OperandsReady
    FragmentsMatch
    NoLdsRace
    ContractionComplete
    BarriersAgree
VIEW Identified
