\* Either one client pipelines two or three requests of every form, with one cut
\* of its stream at any place, or it sends one command with any number of
\* arguments, or two clients send requests side by side.  The socket has room for
\* one reply, so that a second one may have to wait.
SPECIFICATION Spec
CONSTANTS
  Client = {"c1", "c2"}
  Scripts <- MCScripts
  SendRoom = 1
INVARIANTS
  TypeOK
  InStep
  RepliesDelivered
  ArgumentsMatch
PROPERTY
  Drains
CHECK_DEADLOCK FALSE
