SPECIFICATION Spec
CONSTANTS
  Modes <- MCPaper
PROPERTIES LossIsHealed
