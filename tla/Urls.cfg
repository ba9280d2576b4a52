SPECIFICATION Spec
CONSTANTS
  host = host
  rates = rates
  bracket = bracket
  blank = blank
  lower = lower
  mixed = mixed
  ref = ref
  utm = utm
  Hosts = {host}
  Words = {rates, bracket, blank}
  Special = {blank}
  Marked = {bracket}
  Variants = {lower, mixed}
  Sloppy = {mixed}
  Params = {ref, utm}
  Listed = {utm}
  Dropped = {ref, utm}
  Links <- SomeLinks
INVARIANT
  AddressKept
CHECK_DEADLOCK FALSE
