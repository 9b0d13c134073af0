SPECIFICATION Spec
CONSTANTS
    Workers = {w1, w2}
    Cards = {c1}
    Checklists = {k1, k2}
    Items = {i1, i2, i3}
    None = None
SYMMETRY Interchangeable
INVARIANT TypeOK
INVARIANT PlacedAfterOlder
INVARIANT ItemsHaveChecklist
INVARIANT ToggleNegates
