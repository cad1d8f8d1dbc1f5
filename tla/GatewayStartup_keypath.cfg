SPECIFICATION Spec
INVARIANT KeyPathHonoured
