SPECIFICATION Spec
CONSTANTS
  lamp = lamp
  plug = plug
  fuse = fuse
  spot = spot
  ghost = ghost
  Ids = {lamp, plug, fuse, spot, ghost}
  Devices = {lamp, plug, fuse, spot}
  Config <- Chain
  Capacity = 2
  MaxEvents = 3
INVARIANT OnIsPassedOn
INVARIANT PoweredWhileOn
PROPERTY KeepsUpOrRestarts
