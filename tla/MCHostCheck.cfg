SPECIFICATION Spec
INVARIANT GreenLight
PROPERTY ReadOnly
