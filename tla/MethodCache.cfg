CONSTANTS
  Threads = {t1, t2}
  sub = sub
  super = super
  n1 = n1
  Classes = {sub, super}
  Path <- MCPath
  Mixin = Mixin
  Names = {n1}
  Methods = {a, b}
  Vis = {"public", "private"}
  Slots = {n1}
  Hash <- MCHash
  Sites = {site}
  Name <- MCName
  Immediate = {}
  Nil = Nil
SPECIFICATION Spec
INVARIANTS GlobalCurrent InlineCurrent MissingCurrent PrivateHidden
CHECK_DEADLOCK FALSE
SYMMETRY Symmetry
