SPECIFICATION Spec
CONSTANTS
  e1 = e1
  e2 = e2
  Exporters <- MCExporters
  MaxVersion = 1
  None = None
SYMMETRY Symmetry
INVARIANTS ManifestNamesFiles LoneExportIsWhole
CHECK_DEADLOCK FALSE
