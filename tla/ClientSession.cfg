SPECIFICATION Spec
CONSTANTS
  lamp = lamp
  plug = plug
  one = one
  two = two
  Unknown = Unknown
  Nothing = Nothing
  Feeds <- MCFeeds
  Devices = {lamp, plug}
  States = {on, off}
  Notifiers = {one, two}
  Clients = {c1}
  Capacity = 2
  SceneSize = 2
  MaxRequests = 2
  MaxReports = 2
INVARIANT Gapless
INVARIANT CaughtUpIsCurrent
PROPERTY ClientEndsUpCurrent
