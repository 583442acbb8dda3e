SPECIFICATION ProcessSpec
CONSTANTS
  lamp = lamp
  plug = plug
  strip = strip
  krypton = krypton
  tplink = tplink
  govee = govee
  Servers = {"http", "tcp"}
  Automations = {"dependencies"}
  Streams = {krypton}
  Spinners = {krypton}
  Workers = 2
  Datagrams = {tplink, govee}
  Enabled = {krypton, tplink}
  ControllerOf <- Served
  MaxRestarts = 1
CHECK_DEADLOCK FALSE
INVARIANT ProcessTypeOK
INVARIANT BoundBeforeUse
PROPERTY FailureEndsProcess
PROPERTY ReadyBecomesTrue
PROPERTY EveryDeviceIsQueried
