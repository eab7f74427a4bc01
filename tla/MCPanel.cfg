SPECIFICATION Spec
CONSTANTS
  mail = mail
  home = home
  job = job
  None = None
  Plugin = {mail}
  Domain = {home, job}
PROPERTIES SavesItsOwn OpenKept TableCatchesUp
