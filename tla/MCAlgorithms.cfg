SPECIFICATION Spec
CHECK_DEADLOCK FALSE
INVARIANTS
  ProgramsLoadRight
  DedupRight
  DumpRight
  FieldsRelocated
  BtfReadRight
  KernelAnswersRead
  ToolsAsAsked
