CONSTANTS
    Width = 2
    Numbers <- SmallNumbers
    Lengths = {0, 1, 2, 3, 4}
SPECIFICATION Spec
INVARIANTS PackedMagnitude ArraysHoldLowBytes StringsEndAtNul HexIsExact
