SPECIFICATION Spec
CONSTANTS
  lamp = lamp
  plug = plug
  fuse = fuse
  spot = spot
  ghost = ghost
  Ids = {lamp, plug, fuse, spot, ghost}
  Devices = {lamp, plug, fuse}
  Config <- Double
  Capacity = 16
  MaxEvents = 1
INVARIANT EveryDependencyFollows
