\* Axis lengths 0..3 against 1..3 processes: empty, single and uneven ranges;
\* lines of odd and even length, with more reals than their spectrum has room;
\* remaps between all layouts of one and two decomposed axes; words of two bits.
\* Every input is done after at most three steps.
CONSTANTS
  MaxLength = 3
  MaxParts = 3
  MaxLine = 6
  MaxGroups = 2
  MaxStride = 2
  MaxRanks = 3
  MaxWord = 3
SPECIFICATION Spec
INVARIANTS OwnersTileTheArray SegmentsFit RepackKeepsTheLines RemapIsAffine AgreementIsExact
CHECK_DEADLOCK FALSE
