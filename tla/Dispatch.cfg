SPECIFICATION Spec
CONSTANTS
  lamp = lamp
  plug = plug
  strip = strip
  plugs = plugs
  Stranger = Stranger
  Unknown = Unknown
  Controller <- MCController
  Enabled <- MCEnabled
  Feeds <- MCFeeds
  Devices = {lamp, plug, strip}
  States = {on, off}
  Requesters = {r1}
  Notifiers = {old, new, plugs}
  Tasks = {r1, old, new, plugs}
INVARIANT AnnouncedIsCurrent
PROPERTY FrozenWhileDispatching
PROPERTY FeedImplemented
PROPERTY EveryJobEnds
