SPECIFICATION Spec
CONSTANTS
  Users = {"a"}
  Whitelists <- MCOneChat
  Inputs <- MCDirectoryInputs
  Categories = {"Music"}
  QuotedDirs = {}
  Paths = {"/music"}
  DirOf <- MCDirOf
  Feeds = {"feed"}
  Templates = {"template"}
  NamedTemplates = {"template"}
  MayFail = {}
  None = None
PROPERTY DefaultIsNoDirectory
