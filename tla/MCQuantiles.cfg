SPECIFICATION Spec
CONSTANTS
  Values = {1, 2, 3}
  Targets <- MedianAndFifth
  BufferSize = 2
  Unit = 40
  MaxInserts = 10
  None = None
INVARIANTS TypeOK WeightsAddUp RankNotOverstated GreatestKept
