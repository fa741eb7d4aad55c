\* Two processes and a user who makes two changes to two of the settings, an
\* int and a char; a program may crash at any step.
SPECIFICATION Spec
CONSTANTS
  Proc = {p1, p2}
  Path = {ConfigToml, Other}
  ConfigToml = ConfigToml
  EditField = {4, 11}
  MaxEdits = 2
INVARIANTS
  TypeOK
  RestartKeepsSettings
PROPERTY
  FilesAreKept
