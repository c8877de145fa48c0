SPECIFICATION HSpec
CONSTANTS
  Users = {"a"}
  Whitelists <- MCOneChat
  Inputs <- MCRssInputs
  Categories = {}
  QuotedDirs = {}
  Paths = {"/music"}
  DirOf <- MCDirOf
  Feeds = {"template"}
  Templates = {"template", ".torrent"}
  NamedTemplates = {"template"}
  MayFail = {"reply", "rss", "norss", "nofeeds"}
  None = None
INVARIANTS TypeOK AddIsNotRss SubscriptionComplete DeliveredOnce
PROPERTY OnlyForward
