\* One chat and the routes: the list is edited, damaged and switched while it works.
SPECIFICATION Spec
CONSTANTS
  ext = ext  code = code  look = look  edit = edit
  None = None
  Servers = {ext, code}
  BuiltIn = {code}
  Driver = ext
  Programs = {p1, p2}
  Undoes = {p1}
  Tools = {edit}
  Traits <- LookAndEdit
  OwnGrants <- OwnEdits
  Sessions = {x}
  Requests = {r1}
  MaxProcs = 2

  
PROPERTY
  UnaskedChangesWereAllowed
