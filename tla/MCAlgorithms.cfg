CONSTANT
  Parts = {"text", "float", "fold", "layout", "call", "bits", "init", "decl"}
SPECIFICATION Spec
INVARIANTS
  
  FloatsExact
  ConstantsExact
  LayoutExact
  CallsAgree
  BitFieldsExact
  InitializersAgree
  DeclarationsAgree
CHECK_DEADLOCK FALSE
