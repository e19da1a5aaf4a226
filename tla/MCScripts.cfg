SPECIFICATION Spec
CONSTANTS
  Functions = {f, g}
  Data = {1, 2}
  MaxCalls = 2
  MaxFires = 2
  EventTypes = {"click"}
  Fns = {"f"}
  Spaces = {"ns"}
  Binds = 2
  MaxOffs = 1
  MaxEvents = 2
  Elems = {"log", "files"}
  Methods = {"show", "hide", "toggle", "delay", "stop", "stopAtEnd", "finish", "promise"}
  Duration = 2
  MaxEffects = 4
  Types = {"text", "json", "xml"}
  MaxConverters = 3
  MaxAsked = 2
  Requests = {1, 2, 3, 4}
  Given = {1}
  Faulty = {}
SYMMETRY Symmetry
INVARIANTS
  ListIsRight DeferredsAreRight EventsAreRight EffectsAreRight
  AnswersAreRight
CHECK_DEADLOCK FALSE
