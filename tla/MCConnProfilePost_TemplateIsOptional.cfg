CONSTANTS
  r1 = r1
  r2 = r2
  p1 = p1
  p2 = p2
  OldPw = OldPw
  Keep = Keep
  Requests <- OneRequest
  Passwords <- OnePassword
  Forms <- AllForms
SPECIFICATION Spec
CHECK_DEADLOCK FALSE
INVARIANT TemplateIsOptional
