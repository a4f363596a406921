SPECIFICATION Spec
CONSTANTS
  lemma = lemma
  form = form
  l1 = l1
  l2 = l2
  StreamStages <- MCStages
  ChannelSize = 2
  MaxRuns = 2
  MaxFailedReads = 1
  Lemma = lemma
  Form = form
  Lookups = {l1, l2}
  BatchSize = 1
  MaxImports = 1
INVARIANTS
  TableEndIsExact
PROPERTIES
  StreamsEnd
  TranslationEnds
CHECK_DEADLOCK FALSE
