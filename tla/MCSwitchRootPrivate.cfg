CONSTANT Fallible <- MCFallible
SPECIFICATION Spec
PROPERTY UnmountOnlyPrivate
