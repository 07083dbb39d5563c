SPECIFICATION Spec
INVARIANTS TetheringServes SessionsServed  TablesAgree  
CHECK_DEADLOCK FALSE
