CONSTANTS
  Pages <- SitePages
  Tabs <- SiteTabs
  FirstTab <- SiteFirstTab
  Anchors <- SiteAnchors
  Platform = "main"
  Menu <- SiteMenu
  PageIds <- SitePageIds
  Owner <- SiteOwner
  Unlisted <- SiteUnlisted
  Slash = "/"
  NONE = "none"
  MaxPending = 2
SPECIFICATION Spec
INVARIANTS
  TypeOK
  OneTabShown
  RememberedIsShown
  LinkIsShown
  MenuShowsOwner
PROPERTIES
  LinkBeatsMemory
  LinkIsHandled
