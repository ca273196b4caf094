\* The value found by a middleware against what the client gets.
SPECIFICATION Spec
CONSTANT N = 2
PROPERTY ValueIsServed
CHECK_DEADLOCK FALSE
