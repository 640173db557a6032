SPECIFICATION Spec
CONSTANTS
    a = a
    b = b
    ep1 = ep1
    mem = mem
    note = note
    ctl = ctl
    Empty = Empty
    Tasks = {a, b}
    Endpoints = {ep1}
    Memories = {mem}
    Notifies = {note}
    Control = ctl
    Objects = {ep1, mem, note, ctl}
    Rights <- MCRights
    Masks <- MCMasks
    Boot <- MCBoot
    MAX_SLOTS = 3
    QUEUE_LIMIT = 1
    MAX_SPAWN_GRANTS = 1
INVARIANTS
  TableShape
  NoAmplification
  DeadHoldNothing
PROPERTIES
  SlotsKeepTheirMeaning
  AuthorityNeedsGrant
CHECK_DEADLOCK FALSE
