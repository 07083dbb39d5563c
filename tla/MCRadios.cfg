SPECIFICATION Spec
INVARIANTS StrongestBss WifiWorkEnds MirrorsAgree
CHECK_DEADLOCK FALSE
