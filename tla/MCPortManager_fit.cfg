\* The guarantee in the comment of find_fit(lo, hi).
SPECIFICATION Spec
CONSTANTS
    Low = 1
    High = 6
    Counts = {1, 2}
INVARIANT FitGuaranteed
